---------------------------- MODULE ClientState ----------------------------
(***************************************************************************)
(* What a client keeps between runs, as bytes: its contacts, its sessions, *)
(* its state in every version still read, the sealed state, and the state  *)
(* file of a durable party (tacenta-client, lib.rs; tacenta-core,          *)
(* crypto/open.rs, crypto/durable_open.rs and persist.rs).                 *)
(***************************************************************************)
EXTENDS Codec

CONSTANTS
    TAG_LEN,          \* the length of an authenticator
    WrapKey           \* the key in secure storage

-----------------------------------------------------------------------------
(* Contacts. *)

PutContacts == Many(U32, Struct(<< <<"user", Bytes(U32)>>, <<"device", UInt(U32)>> >>))
TakeContacts == Many(U32, Struct(<< <<"user", Text(U32)>>, <<"device", UInt(U32)>> >>))

to_bytes(contacts) == Put(PutContacts, contacts)
from_bytes(bytes) == Whole(TakeContacts, bytes)

(* The lists a client can hold: an address is added once. *)
add(contacts, c) ==
    IF \E n \in DOMAIN contacts : contacts[n] = c THEN contacts ELSE Append(contacts, c)

remove(contacts, handle) == SelectSeq(contacts, LAMBDA c : c.user # handle)

-----------------------------------------------------------------------------
(* Sessions: for every peer with one, its name, device and session, in the *)
(* order of the addresses.  A session is opaque.                           *)

PutSessions == Many(U32, Struct(<<
    <<"user", Bytes(U32)>>, <<"device", UInt(1)>>, <<"session", Bytes(U32)>> >>))

TakeSessions == Many(U32, Struct(<<
    <<"user", Text(U32)>>, <<"device", UInt(1)>>, <<"session", Bytes(U32)>> >>))

AddressLess(a, b) ==
    BytesLess(a.user, b.user) \/ (a.user = b.user /\ a.device < b.device)

export_sessions(sessions) == Put(PutSessions, SetToSortSeq(sessions, AddressLess))

(* Imported one after the other: the last of two for one peer is kept.     *)
import_sessions(bytes) ==
    LET Kept(list) == {list[n] : n \in {n \in DOMAIN list :
                        \A m \in (n + 1)..Len(list) : \/ list[m].user # list[n].user
                                                      \/ list[m].device # list[n].device}}
    IN  {Kept(list) : list \in Whole(TakeSessions, bytes)}

-----------------------------------------------------------------------------
(* The state file of a durable party.  Prekeys are absent or not empty.    *)

write_state(s) ==
    <<1>> \o (IF s.prekeys = <<>> THEN <<0>> ELSE Put(After(<<1>>, Bytes(U32)), s.prekeys))
          \o Put(Bytes(U32), s.sessions)

PresentPrekeys == After(<<1, 1>>, Struct(<< <<"prekeys", Bytes(U32)>>, <<"sessions", Bytes(U32)>> >>))
AbsentPrekeys == After(<<1, 0>>, Bytes(U32))

decode_state(bytes) ==
    Whole(PresentPrekeys, bytes)
    \union {[prekeys |-> <<>>, sessions |-> sessions] : sessions \in Whole(AbsentPrekeys, bytes)}

(* Opening imports what is present; no prekey store is written as nothing. *)
open(bytes) ==
    {s \in decode_state(bytes) : Whole(PresentPrekeys, bytes) # {} => s.prekeys # <<>>}

-----------------------------------------------------------------------------
(* The state of a client. *)

STATE_TAGGED == BYTE - 1
Providers == {1, 2}

Body == Struct(<<
    <<"provider", Code(Providers)>>, <<"identity", Bytes(U32)>>, <<"sessions", Bytes(U32)>>,
    <<"prekeys", Bytes(U32)>> >>)

Generation == Struct(<<
    <<"provider", Code(Providers)>>, <<"identity", Bytes(U32)>>, <<"sessions", Bytes(U32)>>,
    <<"prekeys", Bytes(U32)>>, <<"generation", UInt(U64)>> >>)

export_body_v3(s) == Put(After(<<STATE_TAGGED, 3>>, Body), s)

(* The body under the number of version four, and the generation after it. *)
export_state(s) ==
    [export_body_v3(s) EXCEPT ![2] = 4] \o BigEndian(U64, s.generation)

(* What versions one and two wrote. *)
UntaggedState(s) == Put(Bytes(U32), s.identity) \o s.sessions
StateV2(s) == <<STATE_TAGGED, 2, s.provider>> \o Put(Bytes(U32), s.identity) \o s.sessions

(* The parts of a state of any version. *)
Parts(provider, identity, sessions, prekeys, generation) ==
    [provider |-> provider, identity |-> identity, sessions |-> sessions,
     prekeys |-> prekeys, generation |-> generation]

split_state(state) ==
    LET V2 == Take(After(<<STATE_TAGGED, 2>>, Fields(<<Code(Providers), Bytes(U32)>>)), state)
        V3 == Whole(After(<<STATE_TAGGED, 3>>, Body), state)
        V4 == Whole(After(<<STATE_TAGGED, 4>>, Generation), state)
        V1 == IF state # <<>> /\ state[1] = STATE_TAGGED THEN {} ELSE Take(Bytes(U32), state)
    IN  {Parts(r.v[1], r.v[2], r.rest, <<>>, 0) : r \in V2}
        \union {Parts(s.provider, s.identity, s.sessions, s.prekeys, 0) : s \in V3}
        \union V4
        \union {Parts(1, r.v, r.rest, <<>>, 0) : r \in V1}

-----------------------------------------------------------------------------
(* The sealed state.                                                       *)

(* The authenticator under the storage key. *)
tag_over(key, body) == Hash(TAG_LEN, key, body)

SEAL_VERSION == 1

seal(key, generation, payload) ==
    LET out == <<SEAL_VERSION>> \o BigEndian(U64, generation) \o payload
    IN  out \o tag_over(key, out)

unseal(key, sealed) ==
    LET n == Len(sealed) - TAG_LEN
    IN  IF \/ Len(sealed) < 1 + U64 + TAG_LEN
           \/ sealed[1] # SEAL_VERSION
           \/ tag_over(key, SubSeq(sealed, 1, n)) # SubSeq(sealed, n + 1, Len(sealed))
        THEN {}
        ELSE {[generation |-> FromBigEndian(SubSeq(sealed, 2, 1 + U64)),
               payload |-> SubSeq(sealed, 2 + U64, n)]}

(* The address, the body and the rollback counter under one seal. *)
export_state_sealed(s) ==
    <<STATE_TAGGED, 6>>
    \o seal(WrapKey, s.generation,
            Put(Bytes(U32), s.me.user) \o BigEndian(U32, s.me.device)
            \o export_body_v3(s) \o BigEndian(U64, s.counter))

(* What an unbound sealed state was. *)
SealedV5(s) ==
    <<STATE_TAGGED, 5>>
    \o seal(WrapKey, s.generation, export_body_v3(s) \o BigEndian(U64, s.counter))

Address == Fields(<<Text(U32), UInt(U32)>>)

(* The body, its generation, whether secure storage has moved past its     *)
(* counter, and the address it was sealed for, if any.                     *)
open_sealed(highest, state) ==
    LET Opened(u, body, bound) ==
            [body |-> body, generation |-> u.generation, bound |-> bound,
             stale |-> FromBigEndian(SubSeq(u.payload, Len(u.payload) - U64 + 1, Len(u.payload)))
                        < highest]
        Leading(u) == SubSeq(u.payload, 1, Len(u.payload) - U64)
        Unsealed == {u \in unseal(WrapKey, SubSeq(state, 3, Len(state))) : Len(u.payload) >= U64}
    IN  IF Len(state) < 2 \/ (Len(state) >= 2 /\ state[1] # STATE_TAGGED) THEN {}
        ELSE CASE state[2] = 5 -> {Opened(u, Leading(u), <<>>) : u \in Unsealed}
               [] state[2] = 6 -> UNION {{Opened(u, a.rest, a.v) : a \in Take(Address, Leading(u))} :
                                         u \in Unsealed}
               [] state[2] \notin {5, 6} -> {}

(* A state sealed for another address is refused. *)
expect_address(opened, me) == opened.bound = <<>> \/ opened.bound = <<me.user, me.device>>
=============================================================================
