---------------------------- MODULE InventoryProofs ----------------------------
(***************************************************************************)
(* Proofs about the device inventory in Postgres: the transactions         *)
(* implement the in-memory store, whatever the tasks and processes do, for *)
(* any number of tasks, processes, keys and requests.                      *)
(***************************************************************************)
EXTENDS InventoryStore, TLAPS, FiniteSetTheorems, WellFoundedInduction

-----------------------------------------------------------------------------
(* The rules.                                                               *)

\* What the rules keep of an inventory: numbers are numbers, what is active has
\* device ids and keys of its own, and shares none with a remembered revocation.
WellFormed(i) ==
    /\ i.generation \in Nat
    /\ i.floor \in Nat
    /\ IsFiniteSet(i.revoked)
    /\ \A r \in i.revoked : r.terminal \in Nat
    /\ \A b, c \in i.active : b.device = c.device \/ b.key = c.key => b = c
    /\ \A b \in i.active, r \in i.revoked :
          b.device # r.binding.device /\ b.key # r.binding.key

\* A set of revocations that is not empty has an oldest one.
LEMMA OldestExists ==
    ASSUME NEW revoked, revoked # {}, \A r \in revoked : r.terminal \in Nat
    PROVE  \E r \in revoked : \A q \in revoked : r.terminal <= q.terminal
<1> DEFINE T == {r.terminal : r \in revoked}
<1>1. T # {} /\ T \subseteq Nat
  OBVIOUS
<1>2. \E x \in T : \A y \in T : ~(<<y, x>> \in OpToRel(<, Nat))
  <2> HIDE DEF T
  <2> QED BY Zenon, <1>1, NatLessThanWellFounded, WFMin
<1>3. \E x \in T : \A y \in T : ~(y < x)
  <2> SUFFICES ASSUME NEW x \in T, \A y \in T : ~(<<y, x>> \in OpToRel(<, Nat))
               PROVE  \A y \in T : ~(y < x)
    BY Zenon, <1>2
  <2> HIDE DEF T
  <2> QED BY Zenon, <1>1 DEF OpToRel
<1>4. PICK r \in revoked : \A y \in T : ~(y < r.terminal)
  BY <1>3
<1>5. \A q \in revoked : r.terminal <= q.terminal
  BY <1>4
<1> QED BY <1>5

\* compact_revocations forgets at most what the floor then covers.
LEMMA CompactionForgetsBelowFloor ==
    ASSUME NEW i, i.floor \in Nat, IsFiniteSet(i.revoked),
           \A r \in i.revoked : r.terminal \in Nat
    PROVE  LET c == CompactRevocations(i)
           IN  /\ c.generation = i.generation
               /\ c.active = i.active
               /\ c.revoked \subseteq i.revoked
               /\ c.floor \in Nat
               /\ i.floor <= c.floor
               /\ \A r \in i.revoked : r \in c.revoked \/ r.terminal <= c.floor
<1>1. CASE Cardinality(i.revoked) <= MAX_RECENT_REVOCATIONS
  BY <1>1 DEF CompactRevocations
<1>2. CASE ~(Cardinality(i.revoked) <= MAX_RECENT_REVOCATIONS)
  <2>1. i.revoked # {}
    BY <1>2, FS_EmptySet, InventoryBounds
  <2> DEFINE oldest == CHOOSE r \in i.revoked :
                         \A q \in i.revoked : r.terminal <= q.terminal
             floor == IF i.floor > oldest.terminal THEN i.floor ELSE oldest.terminal
  <2>2. oldest \in i.revoked
    BY <2>1, OldestExists
  <2>3. CompactRevocations(i) =
            [generation |-> i.generation, active |-> i.active,
             floor |-> floor, revoked |-> i.revoked \ {oldest}]
    BY <1>2 DEF CompactRevocations
  <2>4. oldest.terminal \in Nat
    BY <2>2
  <2> HIDE DEF oldest
  <2>5. floor \in Nat /\ i.floor <= floor /\ oldest.terminal <= floor
    BY <2>4
  <2> HIDE DEF floor
  <2> QED BY <2>3, <2>5
<1> QED BY <1>1, <1>2

\* binding_is_new: a binding it accepts shares nothing with what is there.
LEMMA NewBindingIsNew ==
    ASSUME NEW i, NEW binding, NewBindingRefusal(i, binding) = "none"
    PROVE  /\ \A b \in i.active : b.device # binding.device /\ b.key # binding.key
           /\ \A r \in i.revoked :
                 binding.device # r.binding.device /\ binding.key # r.binding.key
BY DEF NewBindingRefusal

\* Remembers(i, j): j is a later inventory than i, and what i remembers as revoked
\* j remembers, or its floor covers.
Remembers(i, j) ==
    /\ j.generation = i.generation + 1
    /\ i.floor <= j.floor
    /\ \A r \in i.revoked : r \in j.revoked \/ r.terminal <= j.floor

\* revoke_inventory takes an active binding out and remembers it.
LEMMA Revoking ==
    ASSUME NEW i, WellFormed(i), NEW retired \in i.active
    PROVE  LET j    == RevokedInventory(i, retired)
               gone == [binding |-> retired, terminal |-> i.generation + 1]
           IN  /\ WellFormed(j)
               /\ Remembers(i, j)
               /\ gone \in j.revoked \/ gone.terminal <= j.floor
<1> DEFINE gone == [binding |-> retired, terminal |-> i.generation + 1]
           full == [generation |-> i.generation + 1, active |-> i.active \ {retired},
                    floor |-> i.floor, revoked |-> i.revoked \cup {gone}]
           j == CompactRevocations(full)
<1>1. RevokedInventory(i, retired) = j
  BY DEF RevokedInventory
<1>2. gone.binding = retired /\ gone.terminal = i.generation + 1 /\ gone.terminal \in Nat
  BY DEF WellFormed
<1> HIDE DEF gone
<1>3. /\ full.generation = i.generation + 1
      /\ full.active = i.active \ {retired}
      /\ full.floor = i.floor
      /\ full.revoked = i.revoked \cup {gone}
  OBVIOUS
<1> HIDE DEF full
<1>4. IsFiniteSet(full.revoked)
  BY SMTT(30), <1>3, FS_AddElement DEF WellFormed
<1>5. \A r \in full.revoked : r.terminal \in Nat
  BY <1>2, <1>3 DEF WellFormed
<1>6. full.floor \in Nat
  BY <1>3 DEF WellFormed
<1>7. /\ j.generation = full.generation
      /\ j.active = full.active
      /\ j.revoked \subseteq full.revoked
      /\ j.floor \in Nat
      /\ full.floor <= j.floor
      /\ \A r \in full.revoked : r \in j.revoked \/ r.terminal <= j.floor
  BY <1>4, <1>5, <1>6, CompactionForgetsBelowFloor
<1> HIDE DEF j
<1>8. WellFormed(j)
  <2>1. j.generation \in Nat /\ j.floor \in Nat
    BY <1>3, <1>7 DEF WellFormed
  <2>2. IsFiniteSet(j.revoked)
    BY <1>4, <1>7, FS_Subset
  <2>3. \A r \in j.revoked : r.terminal \in Nat
    BY <1>5, <1>7
  <2>4. \A b, c \in j.active : b.device = c.device \/ b.key = c.key => b = c
    BY <1>3, <1>7 DEF WellFormed
  <2>5. ASSUME NEW b \in j.active, NEW r \in j.revoked
        PROVE  b.device # r.binding.device /\ b.key # r.binding.key
    <3>1. b \in i.active /\ b # retired
      BY <1>3, <1>7
    <3>2. CASE r \in i.revoked
      BY <3>1, <3>2 DEF WellFormed
    <3>3. CASE r = gone
      BY <3>1, <3>3, <1>2 DEF WellFormed
    <3> QED BY <3>2, <3>3, <1>3, <1>7
  <2> QED BY <2>1, <2>2, <2>3, <2>4, <2>5 DEF WellFormed
<1>9. Remembers(i, j)
  BY <1>3, <1>7 DEF Remembers
<1>10. gone \in j.revoked \/ gone.terminal <= j.floor
  BY <1>3, <1>7
<1> QED BY <1>1, <1>8, <1>9, <1>10 DEF gone

\* A binding that is new to a well-formed inventory can join it.
LEMMA Joining ==
    ASSUME NEW i, WellFormed(i), NEW j, NEW binding,
           NewBindingRefusal(i, binding) = "none",
           j.active = i.active \cup {binding}, j.revoked = i.revoked,
           j.floor = i.floor, j.generation \in Nat
    PROVE  WellFormed(j)
<1>1. \A b, c \in j.active : b.device = c.device \/ b.key = c.key => b = c
  BY NewBindingIsNew DEF WellFormed
<1>2. \A b \in j.active, r \in j.revoked :
         b.device # r.binding.device /\ b.key # r.binding.key
  BY NewBindingIsNew DEF WellFormed
<1> QED BY <1>1, <1>2 DEF WellFormed

\* What the rules make of a request they accept.
LEMMA AcceptedInventory ==
    ASSUME NEW i, WellFormed(i), NEW request,
           request.type \in {"link", "revoke", "replace"}, Refusal(i, request) = "none"
    PROVE  /\ WellFormed(Transition(i, request))
           /\ Valid(Transition(i, request))
           /\ Remembers(i, Transition(i, request))
<1>1. CASE request.type = "link"
  <2> DEFINE j == LinkedInventory(i, request.binding)
  <2>1. Transition(i, request) = j /\ LinkRefusal(i, request) = "none"
    BY <1>1 DEF Transition, Refusal
  <2>2. /\ j.generation = i.generation + 1
        /\ j.active = i.active \cup {request.binding}
        /\ j.floor = i.floor
        /\ j.revoked = i.revoked
    BY DEF LinkedInventory
  <2>3. NewBindingRefusal(i, request.binding) = "none" /\ Valid(j)
    BY <2>1 DEF LinkRefusal
  <2> HIDE DEF j
  <2>4. WellFormed(j)
    <3>1. j.generation \in Nat
      BY <2>2 DEF WellFormed
    <3> QED BY <2>2, <2>3, <3>1, Joining
  <2>5. Remembers(i, j)
    BY <2>2 DEF Remembers, WellFormed
  <2> QED BY <1>1, <2>1, <2>3, <2>4, <2>5
<1>2. CASE request.type = "revoke"
  <2> DEFINE j == RevokedInventory(i, request.retired)
  <2>1. Transition(i, request) = j /\ RevokeRefusal(i, request) = "none"
    BY <1>2 DEF Transition, Refusal
  <2>2. request.retired \in i.active /\ Valid(j)
    BY <2>1 DEF RevokeRefusal
  <2> HIDE DEF j
  <2>3. WellFormed(j) /\ Remembers(i, j)
    BY Zenon, <2>2, Revoking DEF j
  <2> QED BY <2>1, <2>2, <2>3
<1>3. CASE request.type = "replace"
  <2> DEFINE m == RevokedInventory(i, request.retired)
             j == ReplacedInventory(i, request.retired, request.replacement)
  <2>1. Transition(i, request) = j /\ ReplaceRefusal(i, request) = "none"
    BY <1>3 DEF Transition, Refusal
  <2>2. /\ RevokeRefusal(i, request) = "none"
        /\ NewBindingRefusal(m, request.replacement) = "none"
        /\ Valid(j)
    BY <2>1 DEF ReplaceRefusal
  <2>3. request.retired \in i.active
    BY <2>2 DEF RevokeRefusal
  <2>4. WellFormed(m) /\ Remembers(i, m)
    BY Zenon, <2>3, Revoking
  <2>5. /\ j.generation = m.generation
        /\ j.active = m.active \cup {request.replacement}
        /\ j.floor = m.floor
        /\ j.revoked = m.revoked
    BY DEF ReplacedInventory
  <2> HIDE DEF m, j
  <2>6. WellFormed(j)
    <3>1. j.generation \in Nat
      BY <2>4, <2>5 DEF WellFormed
    <3> QED BY <2>2, <2>4, <2>5, <3>1, Joining
  <2>7. Remembers(i, j)
    BY <2>4, <2>5 DEF Remembers
  <2> QED BY <2>1, <2>2, <2>6, <2>7
<1> QED BY <1>1, <1>2, <1>3

\* What it retires is remembered, or the floor covers it.
LEMMA AcceptedRetirement ==
    ASSUME NEW i, WellFormed(i), NEW request,
           request.type \in {"revoke", "replace"}, Refusal(i, request) = "none"
    PROVE  LET j    == Transition(i, request)
               gone == [binding |-> request.retired, terminal |-> j.generation]
           IN  gone \in j.revoked \/ gone.terminal <= j.floor
<1> DEFINE m == RevokedInventory(i, request.retired)
           j == Transition(i, request)
<1>1. RevokeRefusal(i, request) = "none"
  BY DEF Refusal, ReplaceRefusal
<1>2. request.retired \in i.active
  BY <1>1 DEF RevokeRefusal
<1>3. /\ Remembers(i, m)
      /\ LET gone == [binding |-> request.retired, terminal |-> i.generation + 1]
         IN  gone \in m.revoked \/ gone.terminal <= m.floor
  BY <1>2, Revoking
<1>4. m.generation = i.generation + 1
  BY <1>3 DEF Remembers
<1>5. j.generation = m.generation /\ j.floor = m.floor /\ j.revoked = m.revoked
  BY DEF Transition, ReplacedInventory
<1> HIDE DEF m, j
<1> QED BY <1>3, <1>4, <1>5 DEF j

-----------------------------------------------------------------------------
(* The inductive invariant.                                                 *)

IsRecorded(k) == records[k].request.type # "none"

\* The committed inventory and what is remembered of retired bindings.
RowInv ==
    /\ WellFormed(row)
    /\ \A k \in Keys :
          records[k].request.type \in {"revoke", "replace"} =>
             LET gone == [binding  |-> records[k].request.retired,
                          terminal |-> records[k].result.generation]
             IN  gone \in row.revoked \/ gone.terminal <= row.floor

\* Each recorded result is one of the inventories the row has held, no two of one
\* generation, and the last of them is the row.
RecordInv ==
    /\ DOMAIN records = Keys
    /\ \A k \in Keys : IsRecorded(k) =>
          /\ user
          /\ Valid(records[k].result)
          /\ records[k].result.generation \in Nat
          /\ records[k].result.generation <= row.generation
          /\ records[k].result.generation = row.generation => records[k].result = row
    /\ \A k, l \in Keys :
          /\ IsRecorded(k) /\ IsRecorded(l)
          /\ records[k].result.generation = records[l].result.generation
          => k = l

\* What a task knows at each statement.
TaskInv(t) ==
    /\ call[t].pc \in {"locked", "fresh", "read", "set", "recorded", "repeat"} =>
          lock = t /\ user
    /\ call[t].pc # "idle" =>
          /\ call[t].key \in Keys
          /\ call[t].request \in Requests
          /\ call[t].since \in Nat
          /\ call[t].since <= row.generation
          /\ stage[ServerOf[t]] = "up"
    /\ call[t].pc \in {"fresh", "read", "set", "recorded"} => ~IsRecorded(call[t].key)
    /\ call[t].pc = "read" => call[t].stored = row
    /\ call[t].pc \in {"set", "recorded"} =>
          /\ Refusal(row, call[t].request) = "none"
          /\ call[t].result = Transition(row, call[t].request)
    /\ call[t].pc \in {"repeat", "committed", "signing"} =>
          \E k \in Keys : IsRecorded(k) /\ records[k].result = call[t].result
    /\ call[t].pc = "signing" => call[t].result.generation >= call[t].since

TasksInv == DOMAIN call = Tasks /\ \A t \in Tasks : TaskInv(t)

\* Every process that serves holds the key of the file.
IssuerInv ==
    /\ DOMAIN issuer = Servers
    /\ DOMAIN stage = Servers
    /\ \A s \in Servers :
          /\ stage[s] = "up" => keyFile # NoKey /\ issuer[s] = keyFile
          /\ stage[s] = "drawn" => issuer[s] # NoKey

\* Every statement is a recorded result under the key of the file.
SignedInv ==
    \A st \in statements :
        /\ keyFile # NoKey /\ st = [issuer |-> keyFile, inventory |-> st.inventory]
        /\ \E k \in Keys : IsRecorded(k) /\ records[k].result = st.inventory

IInv == RowInv /\ RecordInv /\ TasksInv /\ IssuerInv /\ SignedInv

LEMMA InitInv == Init => IInv
<1> SUFFICES ASSUME Init PROVE IInv
  OBVIOUS
<1>1. WellFormed(EmptyInventory)
  BY FS_EmptySet DEF WellFormed, EmptyInventory
<1>2. \A k \in Keys : records[k] = NoRecord
  BY DEF Init
<1>3. \A k \in Keys : records[k].request.type = "none"
  BY <1>2 DEF NoRecord
<1>4. RowInv /\ RecordInv
  BY <1>1, <1>3 DEF Init, RowInv, RecordInv, IsRecorded
<1>5. TasksInv
  BY DEF Init, TasksInv, TaskInv, Idle
<1>6. IssuerInv /\ SignedInv
  BY DEF Init, IssuerInv, SignedInv
<1> QED BY <1>4, <1>5, <1>6 DEF IInv

\* A step that changes the call of one task and at most its hold on the lock needs
\* to be checked for that task only.
LEMMA TaskStep ==
    ASSUME IInv, NEW t \in Tasks, NEW c,
           call' = [call EXCEPT ![t] = c],
           lock' = lock \/ lock' = Released(t) \/ (lock = NoTask /\ lock' = t),
           UNCHANGED <<user, row, records, issuerVars, statements>>,
           TaskInv(t)'
    PROVE  IInv'
<1> USE DEF issuerVars
<1>1. RowInv' /\ RecordInv' /\ IssuerInv' /\ SignedInv'
  BY DEF IInv, RowInv, RecordInv, IssuerInv, SignedInv, IsRecorded
<1>2. DOMAIN call' = Tasks
  BY DEF IInv, TasksInv
<1>3. ASSUME NEW u \in Tasks, u # t PROVE TaskInv(u)'
  <2>1. call'[u] = call[u]
    BY <1>3 DEF IInv, TasksInv
  <2>2. TaskInv(u)
    BY DEF IInv, TasksInv
  <2>3. lock = u => lock' = u
    BY <1>3, StoreAssumption DEF Released
  <2> QED BY <2>1, <2>2, <2>3 DEF TaskInv, IsRecorded
<1> QED BY <1>1, <1>2, <1>3 DEF IInv, TasksInv

\* A call that ends leaves nothing to check.
LEMMA EndCall ==
    ASSUME IInv, NEW t \in Tasks, call' = [call EXCEPT ![t] = Idle],
           lock' = lock \/ lock' = Released(t),
           UNCHANGED <<user, row, records, issuerVars, statements>>
    PROVE  IInv'
<1>1. call'[t] = Idle
  BY DEF IInv, TasksInv
<1>2. TaskInv(t)'
  BY <1>1 DEF TaskInv, Idle
<1> QED BY Zenon, <1>2, TaskStep

LEMMA RefusedCall ==
    ASSUME IInv, NEW t \in Tasks, NEW refusal, call[t].pc # "idle", Refuse(t, refusal),
           UNCHANGED <<user, row, records, issuerVars, statements>>
    PROVE  IInv'
<1> DEFINE c == [pc |-> "refused", key |-> call[t].key, request |-> call[t].request,
                 since |-> call[t].since, refusal |-> refusal]
<1>1. call' = [call EXCEPT ![t] = c] /\ lock' = Released(t)
  BY DEF Refuse
<1>2. call'[t] = c
  BY <1>1 DEF IInv, TasksInv
<1>3. TaskInv(t)'
  BY <1>2 DEF TaskInv, IInv, TasksInv, issuerVars
<1> QED BY Zenon, <1>1, <1>3, TaskStep

-----------------------------------------------------------------------------
(* One lemma per action.                                                    *)

LEMMA BeginInv == ASSUME IInv, NEW t \in Tasks, Begin(t) PROVE IInv'
<1> PICK key \in Keys, request \in Requests :
      call' = [call EXCEPT ![t] = [pc |-> "begun", key |-> key, request |-> request,
                                   since |-> row.generation]]
  BY Zenon DEF Begin
<1>1. call'[t] = [pc |-> "begun", key |-> key, request |-> request, since |-> row.generation]
  BY DEF IInv, TasksInv
<1>2. row.generation \in Nat
  BY DEF IInv, RowInv, WellFormed
<1>3. TaskInv(t)'
  BY <1>1, <1>2 DEF Begin, TaskInv, issuerVars
<1> QED BY Zenon, <1>3, TaskStep DEF Begin

LEMMA LockAccountInv == ASSUME IInv, NEW t \in Tasks, LockAccount(t) PROVE IInv'
<1>1. CASE ~user
  BY <1>1, RefusedCall DEF LockAccount
<1>2. CASE user
  <2>1. /\ call' = [call EXCEPT ![t] = At(t, "locked")]
        /\ lock = NoTask /\ lock' = t
        /\ UNCHANGED <<user, row, records, issuerVars, statements>>
    BY <1>2 DEF LockAccount
  <2>2. call'[t] = At(t, "locked")
    BY <2>1 DEF IInv, TasksInv
  <2>3. TaskInv(t)'
    BY <1>2, <2>1, <2>2 DEF LockAccount, TaskInv, At, IInv, TasksInv, issuerVars
  <2> QED BY Zenon, <2>1, <2>3, TaskStep
<1> QED BY <1>1, <1>2

LEMMA PriorMutationInv == ASSUME IInv, NEW t \in Tasks, PriorMutation(t) PROVE IInv'
<1> DEFINE prior == records[call[t].key]
<1>0. call[t].pc = "locked" /\ UNCHANGED <<user, row, records, issuerVars, statements>>
  BY DEF PriorMutation
<1>1. CASE prior.request.type = "none"
  <2>1. call' = [call EXCEPT ![t] = At(t, "fresh")] /\ lock' = lock
    BY <1>1 DEF PriorMutation
  <2>2. call'[t] = At(t, "fresh")
    BY <2>1 DEF IInv, TasksInv
  <2>3. TaskInv(t)'
    BY <1>0, <1>1, <2>1, <2>2 DEF TaskInv, At, IInv, TasksInv, issuerVars, IsRecorded
  <2> QED BY Zenon, <1>0, <2>1, <2>3, TaskStep
<1>2. CASE prior.request.type # "none" /\ \E e : Refuse(t, e)
  BY <1>0, <1>2, RefusedCall
<1>3. CASE /\ prior.request.type # "none"
           /\ call' = [call EXCEPT ![t] = AtWith(t, "repeat", prior.result)] /\ lock' = lock
  <2>1. call'[t] = AtWith(t, "repeat", prior.result)
    BY <1>3 DEF IInv, TasksInv
  <2>2. call[t].key \in Keys /\ IsRecorded(call[t].key)
    BY <1>0, <1>3 DEF IInv, TasksInv, TaskInv, IsRecorded
  <2>3. TaskInv(t)'
    BY <1>0, <1>3, <2>1, <2>2 DEF TaskInv, AtWith, IInv, TasksInv, issuerVars, IsRecorded
  <2> QED BY Zenon, <1>0, <1>3, <2>3, TaskStep
<1>4. \/ prior.request.type = "none"
      \/ prior.request.type # "none" /\ \E e : Refuse(t, e)
      \/ /\ prior.request.type # "none"
         /\ call' = [call EXCEPT ![t] = AtWith(t, "repeat", prior.result)] /\ lock' = lock
  BY Zenon DEF PriorMutation
<1> QED BY <1>1, <1>2, <1>3, <1>4

LEMMA StoredStateInv == ASSUME IInv, NEW t \in Tasks, StoredState(t) PROVE IInv'
<1> DEFINE c == [pc |-> "read", key |-> call[t].key, request |-> call[t].request,
                 since |-> call[t].since, stored |-> row]
<1>1. /\ call[t].pc = "fresh" /\ call' = [call EXCEPT ![t] = c] /\ lock' = lock
      /\ UNCHANGED <<user, row, records, issuerVars, statements>>
  BY DEF StoredState
<1>2. call'[t] = c
  BY <1>1 DEF IInv, TasksInv
<1>3. TaskInv(t)'
  BY <1>1, <1>2 DEF TaskInv, IInv, TasksInv, issuerVars, IsRecorded
<1> QED BY Zenon, <1>1, <1>3, TaskStep

LEMMA CompareAndSetStateInv ==
    ASSUME IInv, NEW t \in Tasks, CompareAndSetState(t) PROVE IInv'
<1> DEFINE next == Transition(row, call[t].request)
<1>0. /\ call[t].pc = "read" /\ call[t].stored = row
      /\ UNCHANGED <<user, row, records, issuerVars, statements>>
  BY DEF CompareAndSetState, IInv, TasksInv, TaskInv
<1>1. CASE \E e : Refuse(t, e)
  BY <1>0, <1>1, RefusedCall
<1>2. CASE /\ Refusal(row, call[t].request) = "none"
           /\ call' = [call EXCEPT ![t] = AtWith(t, "set", next)] /\ lock' = lock
  <2>1. call'[t] = AtWith(t, "set", next)
    BY <1>2 DEF IInv, TasksInv
  <2> HIDE DEF next
  <2>2. /\ call'[t].pc = "set" /\ call'[t].key = call[t].key
        /\ call'[t].request = call[t].request /\ call'[t].since = call[t].since
        /\ call'[t].result = next
    BY <2>1 DEF AtWith
  <2>3. TaskInv(t)'
    <3>1. /\ lock = t /\ user /\ call[t].key \in Keys /\ call[t].request \in Requests
          /\ call[t].since \in Nat /\ call[t].since <= row.generation
          /\ stage[ServerOf[t]] = "up" /\ ~IsRecorded(call[t].key)
      BY <1>0 DEF TaskInv, IInv, TasksInv
    <3>2. next = Transition(row', call'[t].request) /\ Refusal(row', call'[t].request) = "none"
      BY <1>0, <1>2, <2>2 DEF next
    <3> QED BY <1>0, <1>2, <2>2, <3>1, <3>2 DEF TaskInv, issuerVars, IsRecorded
  <2> QED BY Zenon, <1>0, <1>2, <2>3, TaskStep
<1>3. \/ \E e : Refuse(t, e)
      \/ /\ Refusal(row, call[t].request) = "none"
         /\ call' = [call EXCEPT ![t] = AtWith(t, "set", next)] /\ lock' = lock
  BY <1>0 DEF CompareAndSetState
<1> QED BY <1>1, <1>2, <1>3

LEMMA RecordMutationInv == ASSUME IInv, NEW t \in Tasks, RecordMutation(t) PROVE IInv'
<1>0. call[t].pc = "set" /\ UNCHANGED <<user, row, records, issuerVars, statements>>
  BY DEF RecordMutation
<1>1. CASE records[call[t].key].request.type # "none"
  BY <1>0, <1>1, EndCall DEF RecordMutation
<1>2. CASE records[call[t].key].request.type = "none"
  <2>1. call' = [call EXCEPT ![t] = AtWith(t, "recorded", call[t].result)] /\ lock' = lock
    BY <1>2 DEF RecordMutation
  <2>2. call'[t] = AtWith(t, "recorded", call[t].result)
    BY <2>1 DEF IInv, TasksInv
  <2>3. /\ call'[t].pc = "recorded" /\ call'[t].key = call[t].key
        /\ call'[t].request = call[t].request /\ call'[t].since = call[t].since
        /\ call'[t].result = call[t].result
    BY <2>2 DEF AtWith
  <2>4. TaskInv(t)
    BY DEF IInv, TasksInv
  <2>5. TaskInv(t)'
    BY <1>0, <2>1, <2>3, <2>4 DEF TaskInv, issuerVars, IsRecorded
  <2> QED BY Zenon, <1>0, <2>1, <2>5, TaskStep
<1> QED BY <1>1, <1>2

\* The facts about a task that is about to commit.
LEMMA AtCommit ==
    ASSUME IInv, NEW t \in Tasks, call[t].pc = "recorded"
    PROVE  /\ lock = t /\ user /\ call[t].key \in Keys /\ call[t].request \in Requests
           /\ call[t].request.type \in {"link", "revoke", "replace"}
           /\ ~IsRecorded(call[t].key)
           /\ Refusal(row, call[t].request) = "none"
           /\ call[t].result = Transition(row, call[t].request)
           /\ WellFormed(row)
           /\ WellFormed(call[t].result) /\ Valid(call[t].result)
           /\ Remembers(row, call[t].result)
<1>1. /\ lock = t /\ user /\ call[t].key \in Keys /\ call[t].request \in Requests
      /\ ~IsRecorded(call[t].key)
      /\ Refusal(row, call[t].request) = "none"
      /\ call[t].result = Transition(row, call[t].request)
  BY DEF IInv, TasksInv, TaskInv
<1>2. WellFormed(row)
  BY DEF IInv, RowInv
<1>3. call[t].request.type \in {"link", "revoke", "replace"}
  BY <1>1, StoreAssumption
<1>4. /\ WellFormed(Transition(row, call[t].request))
      /\ Valid(Transition(row, call[t].request))
      /\ Remembers(row, Transition(row, call[t].request))
  BY <1>1, <1>2, <1>3, AcceptedInventory
<1> QED BY <1>1, <1>2, <1>3, <1>4

LEMMA CommitInv == ASSUME IInv, NEW t \in Tasks, Commit(t) PROVE IInv'
<1> DEFINE key == call[t].key
           next == call[t].result
<1>0. call[t].pc = "recorded"
  BY DEF Commit
<1>1. /\ row' = next /\ lock' = NoTask
      /\ records' = [records EXCEPT ![key] = Record(call[t].request, next)]
      /\ UNCHANGED <<user, issuerVars, statements>>
  BY <1>0, AtCommit DEF Commit, Released
<1>2. /\ lock = t /\ user /\ key \in Keys /\ call[t].request \in Requests
      /\ call[t].request.type \in {"link", "revoke", "replace"}
      /\ ~IsRecorded(key) /\ WellFormed(row) /\ WellFormed(next) /\ Valid(next)
      /\ Remembers(row, next)
  BY <1>0, AtCommit
<1>3. /\ records'[key].request = call[t].request
      /\ records'[key].result = next
      /\ \A k \in Keys \ {key} : records'[k] = records[k]
  BY <1>1, <1>2 DEF IInv, RecordInv, Record
<1>4. /\ row.generation \in Nat /\ next.generation = row.generation + 1
      /\ row.floor \in Nat /\ next.floor \in Nat /\ row.floor <= next.floor
  BY SMTT(30), <1>2 DEF WellFormed, Remembers
<1>5. RowInv'
  <2>1. ASSUME NEW k \in Keys, records'[k].request.type \in {"revoke", "replace"}
        PROVE  LET gone == [binding  |-> records'[k].request.retired,
                            terminal |-> records'[k].result.generation]
               IN  gone \in next.revoked \/ gone.terminal <= next.floor
    <3>1. CASE k = key
      <4>1. next = Transition(row, call[t].request) /\ Refusal(row, call[t].request) = "none"
        BY <1>0, AtCommit
      <4> QED BY <1>2, <1>3, <2>1, <3>1, <4>1, AcceptedRetirement
    <3>2. CASE k # key
      <4> DEFINE gone == [binding  |-> records[k].request.retired,
                          terminal |-> records[k].result.generation]
      <4>1. records'[k] = records[k]
        BY <1>3, <3>2
      <4>2. gone \in row.revoked \/ gone.terminal <= row.floor
        BY <2>1, <4>1 DEF IInv, RowInv
      <4>3. IsRecorded(k)
        BY <2>1, <4>1 DEF IsRecorded
      <4>4. gone.terminal \in Nat
        BY <4>3 DEF IInv, RecordInv
      <4> HIDE DEF gone
      <4>5. gone \in next.revoked \/ gone.terminal <= next.floor
        BY <1>2, <1>4, <4>2, <4>4 DEF Remembers
      <4> QED BY <4>1, <4>5 DEF gone
    <3> QED BY <3>1, <3>2
  <2> QED BY <1>1, <1>2, <2>1 DEF RowInv
<1>6. \A k \in Keys \ {key} : IsRecorded(k) <=> IsRecorded(k)'
  BY SMTT(30), <1>3 DEF IsRecorded
<1>7. RecordInv'
  <2>1. DOMAIN records' = Keys
    BY <1>1 DEF IInv, RecordInv
  <2>2. ASSUME NEW k \in Keys, IsRecorded(k)'
        PROVE  /\ user /\ Valid(records'[k].result)
               /\ records'[k].result.generation \in Nat
               /\ records'[k].result.generation <= row.generation + 1
               /\ records'[k].result.generation = row.generation + 1 => k = key
    <3>1. CASE k = key
      BY SMTT(30), <1>2, <1>3, <1>4, <3>1
    <3>2. CASE k # key
      BY <1>2, <1>3, <1>4, <1>6, <2>2, <3>2 DEF IInv, RecordInv
    <3> QED BY <3>1, <3>2
  <2>3. ASSUME NEW k \in Keys, NEW l \in Keys, IsRecorded(k)', IsRecorded(l)',
               records'[k].result.generation = records'[l].result.generation
        PROVE  k = l
    <3>1. CASE k = key \/ l = key
      BY <1>3, <1>4, <2>2, <2>3, <3>1
    <3>2. CASE k # key /\ l # key
      BY <1>3, <1>6, <2>3, <3>2 DEF IInv, RecordInv
    <3> QED BY <3>1, <3>2
  <2> QED BY <1>1, <1>3, <1>4, <2>1, <2>2, <2>3 DEF RecordInv
<1>8. ASSUME NEW x, \E k \in Keys : IsRecorded(k) /\ records[k].result = x
      PROVE  \E k \in Keys : IsRecorded(k)' /\ records'[k].result = x
  BY <1>2, <1>3, <1>6, <1>8
<1>9. TasksInv'
  <2>1. DOMAIN call' = Tasks
    BY SMTT(30) DEF Commit, AfterCommit, IInv, TasksInv
  <2>2. ASSUME NEW u \in Tasks, u # t PROVE TaskInv(u)'
    <3>1. call'[u] = call[u]
      BY <2>2 DEF Commit, AfterCommit, IInv, TasksInv
    <3>2. TaskInv(u)
      BY SMTT(30) DEF IInv, TasksInv
    <3>3. call[u].pc \notin {"locked", "fresh", "read", "set", "recorded", "repeat"}
      BY <1>2, <2>2, <3>2 DEF TaskInv
    <3>4. call[u].pc # "idle" => call[u].since <= row'.generation
      BY <1>1, <1>4, <3>2 DEF TaskInv
    <3> QED BY <1>1, <1>8, <3>1, <3>2, <3>3, <3>4 DEF TaskInv, issuerVars
  <2>3. TaskInv(t)'
    <3>1. CASE call' = [call EXCEPT ![t] = Idle]
      <4>1. call'[t] = Idle
        BY SMTT(30), <3>1 DEF IInv, TasksInv
      <4> QED BY <4>1 DEF TaskInv, Idle
    <3>2. CASE call' = [call EXCEPT ![t] = AtWith(t, "committed", next)]
      <4>1. call'[t] = AtWith(t, "committed", next)
        BY <3>2 DEF IInv, TasksInv
      <4>2. /\ call'[t].pc = "committed" /\ call'[t].key = key
            /\ call'[t].request = call[t].request /\ call'[t].since = call[t].since
            /\ call'[t].result = next
        BY <4>1 DEF AtWith
      <4>3. /\ call[t].since \in Nat /\ call[t].since <= row.generation
            /\ stage[ServerOf[t]] = "up"
        BY <1>0 DEF IInv, TasksInv, TaskInv
      <4>4. call[t].since <= row'.generation
        BY <1>1, <1>4, <4>3
      <4>5. \E k \in Keys : records'[k].request.type # "none" /\ records'[k].result = next
        BY <1>2, <1>3
      <4> QED BY <1>1, <1>2, <4>2, <4>3, <4>4, <4>5 DEF TaskInv, issuerVars, IsRecorded
    <3> QED BY <3>1, <3>2 DEF Commit, AfterCommit
  <2> QED BY <2>1, <2>2, <2>3 DEF TasksInv
<1>10. IssuerInv'
  BY <1>1 DEF IInv, IssuerInv, issuerVars
<1>11. SignedInv'
  BY <1>1, <1>8 DEF IInv, SignedInv, issuerVars
<1> QED BY <1>5, <1>7, <1>9, <1>10, <1>11 DEF IInv

LEMMA CommitRepeatInv == ASSUME IInv, NEW t \in Tasks, CommitRepeat(t) PROVE IInv'
<1>1. /\ call[t].pc = "repeat" /\ lock' = Released(t)
      /\ UNCHANGED <<user, row, records, issuerVars, statements>>
  BY DEF CommitRepeat
<1>2. CASE call' = [call EXCEPT ![t] = Idle]
  BY Zenon, <1>1, <1>2, EndCall
<1>3. CASE call' = [call EXCEPT ![t] = AtWith(t, "committed", call[t].result)]
  <2>1. call'[t] = AtWith(t, "committed", call[t].result)
    BY <1>3 DEF IInv, TasksInv
  <2>2. TaskInv(t)'
    BY <1>1, <2>1 DEF TaskInv, AtWith, IInv, TasksInv, issuerVars, IsRecorded
  <2> QED BY ZenonT(30), <1>1, <1>3, <2>2, TaskStep
<1> QED BY <1>2, <1>3 DEF CommitRepeat, AfterCommit

LEMMA AbortInv == ASSUME IInv, NEW t \in Tasks, Abort(t) PROVE IInv'
BY Zenon, EndCall DEF Abort

LEMMA ReadCurrentInv == ASSUME IInv, NEW t \in Tasks, ReadCurrent(t) PROVE IInv'
<1>1. /\ call[t].pc = "committed" /\ lock' = lock
      /\ UNCHANGED <<user, row, records, issuerVars, statements>>
  BY DEF ReadCurrent
<1>2. CASE call' = [call EXCEPT ![t] = Idle]
  BY Zenon, <1>1, <1>2, EndCall
<1>3. CASE /\ call' = [call EXCEPT ![t] = AtWith(t, "signing", call[t].result)]
           /\ row = call[t].result
  <2>1. call'[t] = AtWith(t, "signing", call[t].result)
    BY <1>3 DEF IInv, TasksInv
  <2>2. /\ call'[t].pc = "signing" /\ call'[t].key = call[t].key
        /\ call'[t].request = call[t].request /\ call'[t].since = call[t].since
        /\ call'[t].result = call[t].result
    BY <2>1 DEF AtWith
  <2>3. TaskInv(t)
    BY DEF IInv, TasksInv
  <2>4. row.generation \in Nat
    BY DEF IInv, RowInv, WellFormed
  <2>5. call'[t].result.generation >= call'[t].since
    BY <1>1, <1>3, <2>2, <2>3, <2>4 DEF TaskInv
  <2>6. TaskInv(t)'
    BY <1>1, <2>2, <2>3, <2>5 DEF TaskInv, issuerVars, IsRecorded
  <2> QED BY Zenon, <1>1, <1>3, <2>6, TaskStep
<1> QED BY Zenon, <1>2, <1>3 DEF ReadCurrent

LEMMA SignInv == ASSUME IInv, NEW t \in Tasks, Sign(t) PROVE IInv'
<1> USE DEF issuerVars
<1> DEFINE st == [issuer |-> issuer[ServerOf[t]], inventory |-> call[t].result]
<1>1. /\ call[t].pc = "signing" /\ call' = [call EXCEPT ![t] = Idle]
      /\ statements' = statements \cup {st}
      /\ UNCHANGED <<user, row, records, lock, issuerVars>>
  BY SMTT(30) DEF Sign
<1> HIDE DEF st
<1>2. RowInv' /\ RecordInv' /\ IssuerInv'
  <2>1. RowInv'
    BY Zenon, <1>1 DEF IInv, RowInv
  <2>2. RecordInv'
    BY Zenon, <1>1 DEF IInv, RecordInv, IsRecorded
  <2>3. IssuerInv'
    BY Zenon, <1>1 DEF IInv, IssuerInv
  <2> QED BY <2>1, <2>2, <2>3
<1>3. TasksInv'
  <2>1. ASSUME NEW u \in Tasks PROVE TaskInv(u)'
    <3>1. CASE u = t
      <4>1. call'[u] = Idle
        BY SMTT(30), <1>1, <3>1 DEF IInv, TasksInv
      <4> QED BY <4>1 DEF TaskInv, Idle
    <3>2. CASE u # t
      <4>1. call'[u] = call[u]
        BY <1>1, <3>2 DEF IInv, TasksInv
      <4> QED BY SMTT(30), <1>1, <4>1 DEF IInv, TasksInv, TaskInv, IsRecorded
    <3> QED BY <3>1, <3>2
  <2> QED BY <1>1, <2>1 DEF IInv, TasksInv
<1>4. SignedInv'
  <2>1. keyFile # NoKey /\ st = [issuer |-> keyFile, inventory |-> st.inventory]
    BY Zenon, <1>1, StoreAssumption DEF st, IInv, TasksInv, TaskInv, IssuerInv
  <2>2. \E k \in Keys : IsRecorded(k) /\ records[k].result = st.inventory
    BY <1>1 DEF st, IInv, TasksInv, TaskInv
  <2> QED BY SMTT(30), <1>1, <2>1, <2>2 DEF IInv, SignedInv, IsRecorded
<1> QED BY <1>2, <1>3, <1>4 DEF IInv

\* A step that leaves the database's tables and every call alone, or ends calls.
LEMMA ProcessStep ==
    ASSUME IInv, NEW s \in Servers, LoadIssuer(s) \/ PublishIssuer(s)
    PROVE  IInv'
<1>1. UNCHANGED <<user, row, records, lock, call, statements>>
  BY DEF LoadIssuer, PublishIssuer, callVars
<1>2. RowInv' /\ RecordInv'
  BY <1>1 DEF IInv, RowInv, RecordInv, IsRecorded
<1>3. /\ keyFile # NoKey => keyFile' = keyFile
      /\ \A u \in Servers : stage[u] = "up" => stage'[u] = "up"
  BY DEF LoadIssuer, PublishIssuer, IInv, IssuerInv
<1>4. IssuerInv'
  <2>1. CASE LoadIssuer(s)
    BY <2>1, StoreAssumption DEF LoadIssuer, IInv, IssuerInv
  <2>2. CASE PublishIssuer(s)
    <3>1. keyFile' # NoKey
      BY <2>2 DEF PublishIssuer, IInv, IssuerInv
    <3> QED BY <1>3, <2>2, <3>1 DEF PublishIssuer, IInv, IssuerInv
  <2> QED BY <2>1, <2>2
<1>5. TasksInv'
  <2>1. ASSUME NEW t \in Tasks PROVE TaskInv(t)'
    <3>1. ServerOf[t] \in Servers
      BY StoreAssumption
    <3> QED BY <1>1, <1>3, <3>1 DEF IInv, TasksInv, TaskInv, IsRecorded
  <2> QED BY <1>1, <2>1 DEF IInv, TasksInv
<1>6. SignedInv'
  BY <1>1, <1>3 DEF IInv, SignedInv, IsRecorded
<1> QED BY <1>2, <1>4, <1>5, <1>6 DEF IInv

LEMMA StopInv == ASSUME IInv, NEW s \in Servers, Stop(s) PROVE IInv'
<1>1. /\ UNCHANGED <<user, row, records, keyFile, statements>>
      /\ call' = [t \in Tasks |-> IF ServerOf[t] = s THEN Idle ELSE call[t]]
      /\ lock' = IF lock \in Tasks /\ ServerOf[lock] = s THEN NoTask ELSE lock
  BY DEF Stop
<1>2. RowInv' /\ RecordInv' /\ SignedInv'
  BY <1>1 DEF IInv, RowInv, RecordInv, SignedInv, IsRecorded
<1>3. IssuerInv'
  BY DEF Stop, IInv, IssuerInv
<1>4. TasksInv'
  <2>1. ASSUME NEW t \in Tasks PROVE TaskInv(t)'
    <3>1. CASE ServerOf[t] = s
      <4>1. call'[t] = Idle
        BY SMTT(30), <1>1, <3>1
      <4> QED BY <4>1 DEF TaskInv, Idle
    <3>2. CASE ServerOf[t] # s
      <4>1. call'[t] = call[t]
        BY SMTT(30), <1>1, <3>2
      <4>2. stage'[ServerOf[t]] = stage[ServerOf[t]]
        BY <3>2, StoreAssumption DEF Stop, IInv, IssuerInv
      <4>3. lock = t => lock' = t
        BY SMTT(30), <1>1, <3>2
      <4> QED BY <1>1, <4>1, <4>2, <4>3 DEF IInv, TasksInv, TaskInv, IsRecorded
    <3> QED BY <3>1, <3>2
  <2> QED BY <1>1, <2>1 DEF TasksInv
<1> QED BY <1>2, <1>3, <1>4 DEF IInv

LEMMA SignUpUserInv == ASSUME IInv, SignUpUser PROVE IInv'
BY DEF SignUpUser, IInv, RowInv, RecordInv, TasksInv, TaskInv, IssuerInv, SignedInv,
       IsRecorded, issuerVars

\* The inductive invariant, for any number of tasks, processes, keys and requests.
THEOREM Invariance == Spec => []IInv
<1>1. ASSUME IInv, [Next]_vars PROVE IInv'
  <2>1. ASSUME NEW t \in Tasks, TaskNext(t) PROVE IInv'
    BY <1>1, <2>1, BeginInv, LockAccountInv, PriorMutationInv, StoredStateInv,
       CompareAndSetStateInv, RecordMutationInv, CommitInv, CommitRepeatInv, AbortInv,
       ReadCurrentInv, SignInv
       DEF TaskNext
  <2>2. ASSUME NEW s \in Servers, LoadIssuer(s) \/ PublishIssuer(s) \/ Stop(s) PROVE IInv'
    BY <1>1, <2>2, ProcessStep, StopInv
  <2>3. CASE SignUpUser
    BY SMTT(30), <1>1, <2>3, SignUpUserInv
  <2>4. CASE UNCHANGED vars
    BY <1>1, <2>4
       DEF vars, IInv, RowInv, RecordInv, TasksInv, TaskInv, IssuerInv, SignedInv, IsRecorded
  <2> QED BY <1>1, <2>1, <2>2, <2>3, <2>4 DEF Next
<1> QED BY <1>1, InitInv, PTL DEF Spec

-----------------------------------------------------------------------------
(* What follows from it.                                                    *)

\* OneStatementPerGeneration: statements of one generation are one statement
\* under one key, whichever process signed them (issue, load_or_create).
THEOREM StatementsAgree == Spec => []OneStatementPerGeneration
<1>1. ASSUME IInv PROVE OneStatementPerGeneration
  <2> SUFFICES ASSUME NEW s \in statements, NEW u \in statements
               PROVE  /\ s.issuer = u.issuer
                      /\ s.inventory.generation = u.inventory.generation => s = u
    BY DEF OneStatementPerGeneration
  <2>1. /\ s = [issuer |-> keyFile, inventory |-> s.inventory]
        /\ u = [issuer |-> keyFile, inventory |-> u.inventory]
    BY <1>1 DEF IInv, SignedInv
  <2>2. s.inventory.generation = u.inventory.generation => s.inventory = u.inventory
    BY <1>1 DEF IInv, SignedInv, RecordInv
  <2>3. s.issuer = u.issuer
    BY <2>1
  <2> QED BY <2>1, <2>2, <2>3
<1> QED BY <1>1, Invariance, PTL

\* SignsNothingOld: what a task signs is no older than what was committed when its
\* call came in (HostedInventoryService::issue).
THEOREM SignedIsCurrent == Spec => []SignsNothingOld
<1>1. IInv => SignsNothingOld
  BY DEF IInv, TasksInv, TaskInv, SignsNothingOld
<1> QED BY <1>1, Invariance, PTL

\* RevocationsHold: a retired binding is remembered or below the floor, and nothing
\* active shares an id or a key with a remembered one (compact_revocations,
\* binding_is_new), for every bound on the number of revocations.
THEOREM RevocationsAreKept == Spec => []RevocationsHold
<1>1. IInv => RevocationsHold
  BY SMTT(30) DEF IInv, RowInv, WellFormed, RevocationsHold
<1> QED BY <1>1, Invariance, PTL

\* A step of one task leaves the calls of the others alone.
LEMMA OtherCalls ==
    ASSUME IInv, NEW t \in Tasks, TaskNext(t), NEW u \in Tasks, u # t
    PROVE  call'[u] = call[u]
BY DEF TaskNext, Begin, LockAccount, PriorMutation, StoredState, CompareAndSetState,
       RecordMutation, Commit, CommitRepeat, Abort, ReadCurrent, Sign, Refuse, AfterCommit,
       IInv, TasksInv

\* RetryIsAnswered: a call is never refused while its own request is recorded
\* under its key (apply_mutation looks the key up under the lock of the account).
THEOREM RetriesAreAnswered == Spec => RetryIsAnswered
<1> DEFINE Answered(t) ==
      call'[t].pc = "refused" /\ call[t].pc # "refused" =>
         records[call[t].key].request # call[t].request
<1>1. ASSUME IInv, [Next]_vars, NEW t \in Tasks PROVE Answered(t)
  <2> USE <1>1
  <2>0. call[t].pc # "idle" => call[t].request.type # "none"
    BY SMTT(30), StoreAssumption DEF IInv, TasksInv, TaskInv
  <2>1. ASSUME TaskNext(t) PROVE Answered(t)
    <3>1. CASE LockAccount(t)
      <4>1. CASE user
        BY <3>1, <4>1 DEF LockAccount, At, IInv, TasksInv
      <4>2. CASE ~user
        <5>1. call[t].pc # "idle" /\ call[t].key \in Keys
          BY <3>1 DEF LockAccount, IInv, TasksInv, TaskInv
        <5> QED BY <2>0, <4>2, <5>1 DEF IInv, RecordInv, IsRecorded
      <4> QED BY <4>1, <4>2
    <3>2. CASE PriorMutation(t)
      <4> DEFINE prior == records[call[t].key]
      <4>1. call[t].pc = "locked" /\ call[t].key \in Keys
        BY <3>2 DEF PriorMutation, IInv, TasksInv, TaskInv
      <4>2. CASE prior.request = call[t].request
        <5>1. prior.request.type # "none" /\ Valid(prior.result)
          BY <2>0, <4>1, <4>2 DEF IInv, RecordInv, IsRecorded
        <5>2. call' = [call EXCEPT ![t] = AtWith(t, "repeat", prior.result)]
          BY <3>2, <4>2, <5>1 DEF PriorMutation
        <5>3. call'[t].pc = "repeat"
          BY <5>2 DEF AtWith, IInv, TasksInv
        <5> QED BY SMTT(30), <5>3
      <4> QED BY SMTT(30), <4>2
    <3>3. CASE CompareAndSetState(t)
      <4>1. call[t].pc = "read" /\ ~IsRecorded(call[t].key)
        BY SMTT(30), <3>3 DEF CompareAndSetState, IInv, TasksInv, TaskInv
      <4> QED BY SMTT(30), <2>0, <4>1 DEF IsRecorded
    <3>4. CASE Begin(t) \/ StoredState(t) \/ RecordMutation(t) \/ Commit(t)
               \/ CommitRepeat(t) \/ Abort(t) \/ ReadCurrent(t) \/ Sign(t)
      BY <3>4 DEF Begin, StoredState, RecordMutation, Commit, CommitRepeat, Abort,
                  ReadCurrent, Sign, AfterCommit, AtWith, Idle, IInv, TasksInv
    <3> QED BY <2>1, <3>1, <3>2, <3>3, <3>4 DEF TaskNext
  <2>2. ASSUME NEW u \in Tasks, u # t, TaskNext(u) PROVE Answered(t)
    BY SMTT(30), <2>2, OtherCalls
  <2>3. ASSUME NEW s \in Servers, LoadIssuer(s) \/ PublishIssuer(s) \/ Stop(s)
        PROVE  Answered(t)
    BY SMTT(30), <2>3 DEF LoadIssuer, PublishIssuer, Stop, callVars, Idle
  <2>4. CASE SignUpUser \/ UNCHANGED vars
    BY <2>4 DEF SignUpUser, vars
  <2> QED BY <2>1, <2>2, <2>3, <2>4 DEF Next
<1>2. IInv /\ [Next]_vars => [\A t \in Tasks : Answered(t)]_vars
  BY <1>1
<1> QED BY <1>2, Invariance, PTL DEF Spec, RetryIsAnswered

-----------------------------------------------------------------------------
(* The transactions implement the in-memory store.                          *)

\* The rules of the in-memory store are the rules of the transactions.
LEMMA SameRules ==
    /\ Lifecycle!EmptyInventory = EmptyInventory
    /\ Lifecycle!NoRecord = NoRecord
    /\ \A q, i : Lifecycle!Record(q, i) = Record(q, i)
    /\ \A i, q : Lifecycle!Refusal(i, q) = Refusal(i, q)
    /\ \A i, q : Lifecycle!Transition(i, q) = Transition(i, q)
<1>1. /\ Lifecycle!EmptyInventory = EmptyInventory /\ Lifecycle!NoRecord = NoRecord
      /\ Lifecycle!NoPredecessor = NoPredecessor
      /\ \A q, i : Lifecycle!Record(q, i) = Record(q, i)
      /\ \A b : Lifecycle!Commitment(b) = Commitment(b)
  BY DEF Lifecycle!EmptyInventory, EmptyInventory, Lifecycle!NoRecord, NoRecord,
         Lifecycle!NoPredecessor, NoPredecessor, Lifecycle!Record, Record,
         Lifecycle!Commitment, Commitment
<1>2. ASSUME NEW i PROVE (Lifecycle!Valid(i) <=> Valid(i))
                         /\ Lifecycle!CompactRevocations(i) = CompactRevocations(i)
  <2>1. \A S : Lifecycle!Cardinality(S) = Cardinality(S)
    BY Zenon DEF Lifecycle!Cardinality, Cardinality
  <2>2. Lifecycle!Valid(i) <=> Valid(i)
    BY <2>1 DEF Lifecycle!Valid, Valid
  <2>3. Lifecycle!CompactRevocations(i) = CompactRevocations(i)
    BY <2>1 DEF Lifecycle!CompactRevocations, CompactRevocations
  <2> QED BY <2>2, <2>3
<1>3. ASSUME NEW i, NEW b
      PROVE  /\ Lifecycle!NewBindingRefusal(i, b) = NewBindingRefusal(i, b)
             /\ Lifecycle!LinkedInventory(i, b) = LinkedInventory(i, b)
  BY DEF Lifecycle!NewBindingRefusal, NewBindingRefusal, Lifecycle!LinkedInventory,
         LinkedInventory
<1>4. ASSUME NEW i, NEW b PROVE Lifecycle!RevokedInventory(i, b) = RevokedInventory(i, b)
  BY <1>2 DEF Lifecycle!RevokedInventory, RevokedInventory
<1>5. ASSUME NEW i, NEW b, NEW c
      PROVE  Lifecycle!ReplacedInventory(i, b, c) = ReplacedInventory(i, b, c)
  BY SMTT(30), <1>4 DEF Lifecycle!ReplacedInventory, ReplacedInventory
<1>6. ASSUME NEW i, NEW q
      PROVE  /\ Lifecycle!LinkRefusal(i, q) = LinkRefusal(i, q)
             /\ Lifecycle!RevokeRefusal(i, q) = RevokeRefusal(i, q)
  BY SMTT(30), <1>1, <1>2, <1>3, <1>4
     DEF Lifecycle!LinkRefusal, LinkRefusal, Lifecycle!RevokeRefusal, RevokeRefusal
<1>7. ASSUME NEW i, NEW q PROVE Lifecycle!ReplaceRefusal(i, q) = ReplaceRefusal(i, q)
  BY <1>1, <1>2, <1>3, <1>4, <1>5, <1>6 DEF Lifecycle!ReplaceRefusal, ReplaceRefusal
<1>8. ASSUME NEW i, NEW q
      PROVE  /\ Lifecycle!Refusal(i, q) = Refusal(i, q)
             /\ Lifecycle!Transition(i, q) = Transition(i, q)
  BY Zenon, <1>3, <1>4, <1>5, <1>6, <1>7
     DEF Lifecycle!Refusal, Refusal, Lifecycle!Transition, Transition
<1> QED BY <1>1, <1>8

\* ImplementsLifecycle: the committed row and the recorded keys move by whole
\* mutations of the in-memory store (Accounts in lib.rs), or not at all.
THEOREM Refinement == Spec => ImplementsLifecycle
<1>1. Init => Lifecycle!LifecycleInit
  <2> SUFFICES ASSUME Init PROVE Lifecycle!LifecycleInit
    OBVIOUS
  <2>1. \A types : RecordsOf(types) = [k \in Keys |-> NoRecord]
    BY DEF Init, RecordsOf
  <2> QED BY <2>1, SameRules DEF Init, Lifecycle!LifecycleInit
<1>2. ASSUME IInv, [Next]_vars
      PROVE  [Lifecycle!LifecycleNext]_Lifecycle!lifecycleVars
  <2> USE <1>2
  <2>1. ASSUME UNCHANGED <<row, records>> PROVE UNCHANGED Lifecycle!lifecycleVars
    BY <2>1 DEF Lifecycle!lifecycleVars, RecordsOf
  <2>2. ASSUME NEW t \in Tasks, Commit(t) PROVE Lifecycle!LifecycleNext
    <3> DEFINE key == call[t].key
               request == call[t].request
               result == call[t].result
               links == RecordsOf({"link"})
               lifecycle == RecordsOf({"revoke", "replace"})
    <3>1. call[t].pc = "recorded" /\ row' = result
          /\ records' = [records EXCEPT ![key] = Record(request, result)]
      BY SMTT(30), <2>2 DEF Commit
    <3>2. /\ key \in Keys /\ request \in Requests
          /\ request.type \in {"link", "revoke", "replace"}
          /\ ~IsRecorded(key)
          /\ Refusal(row, request) = "none" /\ result = Transition(row, request)
      BY SMTT(30), <3>1, AtCommit
    <3> DEFINE new == Record(request, result)
    <3>3. /\ DOMAIN records = Keys
          /\ records[key].request.type = "none"
          /\ new.request.type = request.type
      BY SMTT(30), <3>2 DEF IInv, RecordInv, IsRecorded, Record
    <3>4. links[key] = NoRecord /\ lifecycle[key] = NoRecord
      BY SMTT(30), <3>2, <3>3 DEF RecordsOf
    <3>5. Lifecycle!Applies(key, request)
      BY SMTT(30), <3>1, <3>2, <3>4, SameRules DEF Lifecycle!Applies
    <3>6. CASE request.type = "link"
      <4>1. links' = [links EXCEPT ![key] = new]
        BY Zenon, <3>1, <3>2, <3>3, <3>6 DEF RecordsOf
      <4>2. lifecycle' = lifecycle
        BY SMTT(30), <3>1, <3>2, <3>3, <3>6 DEF RecordsOf
      <4>3. Lifecycle!LinkDeviceBinding(key, request)
        BY Zenon, <3>1, <3>5, <3>6, <4>1, <4>2, SameRules DEF Lifecycle!LinkDeviceBinding
      <4> QED BY SMTT(30), <3>2, <4>3 DEF Lifecycle!LifecycleNext
    <3>7. CASE request.type \in {"revoke", "replace"}
      <4>1. lifecycle' = [lifecycle EXCEPT ![key] = new]
        BY Zenon, <3>1, <3>2, <3>3, <3>7 DEF RecordsOf
      <4>2. links' = links
        BY SMTT(30), <3>1, <3>2, <3>3, <3>7 DEF RecordsOf
      <4>3. Lifecycle!ApplyLifecycleMutation(key, request)
        BY Zenon, <3>1, <3>5, <3>7, <4>1, <4>2, SameRules DEF Lifecycle!ApplyLifecycleMutation
      <4> QED BY <3>2, <4>3 DEF Lifecycle!LifecycleNext
    <3> QED BY SMTT(30), <3>2, <3>6, <3>7
  <2>3. ASSUME NEW t \in Tasks, TaskNext(t), ~Commit(t) PROVE UNCHANGED <<row, records>>
    BY SMTT(30), <2>3 DEF TaskNext, Begin, LockAccount, PriorMutation, StoredState,
                CompareAndSetState, RecordMutation, CommitRepeat, Abort, ReadCurrent, Sign
  <2>4. ASSUME NEW s \in Servers, LoadIssuer(s) \/ PublishIssuer(s) \/ Stop(s)
        PROVE  UNCHANGED <<row, records>>
    BY <2>4 DEF LoadIssuer, PublishIssuer, Stop, callVars
  <2>5. CASE SignUpUser \/ UNCHANGED vars
    BY <2>1, <2>5 DEF SignUpUser, vars
  <2> QED BY <2>1, <2>2, <2>3, <2>4, <2>5 DEF Next
<1> QED BY <1>1, <1>2, Invariance, PTL DEF Spec, ImplementsLifecycle, Lifecycle!LifecycleSpec
=============================================================================
