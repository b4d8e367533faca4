------------------------------- MODULE Codec -------------------------------
(***************************************************************************)
(* What the hand-written codecs of the repository are made of.             *)
(*                                                                         *)
(* A byte string is a sequence of numbers below BYTE.  A layout says how a *)
(* value lies in one: Put writes a value under a layout and Take reads one *)
(* from the front.  Every encode function of the code is a layout written  *)
(* with Put, every decode function a layout of its own read with Take, so  *)
(* a writer and a reader that disagree are two layouts that disagree.      *)
(*                                                                         *)
(* Take yields the set of readings: one record of the value and the bytes  *)
(* after it, or none when the code returns None or an error.               *)
(***************************************************************************)
EXTENDS Naturals, Sequences, SequencesExt

CONSTANTS
    BYTE,             \* the number of values of a byte
    U16, U32, U64,    \* the widths of the integer types, in bytes
    NotText           \* a byte that no UTF-8 text holds

ASSUME CodecAssumption ==
    /\ BYTE \in Nat /\ 1 < U16 /\ U16 < U32 /\ U32 < U64
    /\ NotText \in 1..(BYTE - 1)

(* to_be_bytes and from_be_bytes. *)
BigEndian(w, n) == [i \in 1..w |-> (n \div BYTE^(w - i)) % BYTE]

FromBigEndian(bytes) == FoldLeft(LAMBDA n, b : n * BYTE + b, 0, bytes)

MaxInt(w) == BYTE^w - 1

(* The order of byte strings: the first byte that differs, or the length. *)
BytesLess(a, b) ==
    \E i \in 0..(Len(b) - 1) :
        /\ i <= Len(a) /\ SubSeq(a, 1, i) = SubSeq(b, 1, i)
        /\ i = Len(a) \/ (i < Len(a) /\ a[i + 1] < b[i + 1])

(* Hashes, which the code calls and does not compute: n bytes under a key  *)
(* that change with every byte, its place and the length.                  *)
RECURSIVE Weigh(_, _, _, _)
Weigh(bytes, power, first, last) ==
    LET middle == (first + last) \div 2
    IN  IF first > last THEN 0
        ELSE IF first = last THEN (first^power) * bytes[first]
        ELSE Weigh(bytes, power, first, middle) + Weigh(bytes, power, middle + 1, last)

Hash(n, key, bytes) ==
    [i \in 1..n |-> (Weigh(bytes, i - 1, 1, Len(bytes)) + key + i * Len(bytes)) % BYTE]

-----------------------------------------------------------------------------
(* Layouts. *)

UInt(w)         == [is |-> "int", w |-> w]
Code(codes)     == [is |-> "code", of |-> codes]           \* one byte of a set
Bytes(w)        == [is |-> "bytes", w |-> w]               \* a length, then that many
Text(w)         == [is |-> "text", w |-> w]                \* the same, checked as UTF-8
Fixed(n)        == [is |-> "fixed", n |-> n]
Fields(layouts) == [is |-> "fields", of |-> layouts]       \* one after the other
Struct(fields)  == [is |-> "struct", of |-> fields]        \* pairs of a name and a layout
Many(w, each)   == [is |-> "many", w |-> w, of |-> each]   \* a count, then that many
Block(w, inner) == [is |-> "block", w |-> w, of |-> inner] \* a length, then all of one
After(mark, of) == [is |-> "after", mark |-> mark, of |-> of] \* behind constant bytes
Arm(op, tag, layouts) == [op |-> op, tag |-> tag, of |-> Fields(layouts)]
Sum(arms)       == [is |-> "sum", of |-> arms]             \* a tag, then its arm

RECURSIVE Put(_, _)
Put(k, v) ==
    CASE k.is = "int"                -> BigEndian(k.w, v)
      [] k.is = "code"               -> <<v>>
      [] k.is \in {"bytes", "text"}  -> BigEndian(k.w, Len(v)) \o v
      [] k.is = "fixed"              -> v
      [] k.is = "fields"             -> FlattenSeq([i \in DOMAIN k.of |-> Put(k.of[i], v[i])])
      [] k.is = "struct"             ->
            FlattenSeq([i \in DOMAIN k.of |-> Put(k.of[i][2], v[k.of[i][1]])])
      [] k.is = "many"               ->
            BigEndian(k.w, Len(v)) \o FlattenSeq([i \in DOMAIN v |-> Put(k.of, v[i])])
      [] k.is = "block"              ->
            LET inner == Put(k.of, v) IN BigEndian(k.w, Len(inner)) \o inner
      [] k.is = "after"              -> k.mark \o Put(k.of, v)
      [] k.is = "sum"                ->
            LET arm == SelectSeq(k.of, LAMBDA a : a.op = v.op)[1]
            IN  <<arm.tag>> \o Put(arm.of, v.args)

-----------------------------------------------------------------------------
(* Reading. *)

(* split_at_checked. *)
Split(n, in) ==
    IF n <= Len(in)
    THEN {[v |-> SubSeq(in, 1, n), rest |-> SubSeq(in, n + 1, Len(in))]}
    ELSE {}

TakeInt(w, in) == {[v |-> FromBigEndian(r.v), rest |-> r.rest] : r \in Split(w, in)}

TakeBytes(w, in) == UNION {Split(len.v, len.rest) : len \in TakeInt(w, in)}

IsText(bytes) == \A i \in DOMAIN bytes : bytes[i] # NotText

RECURSIVE Take(_, _), TakeFields(_, _, _), TakeMany(_, _, _, _)

TakeFields(layouts, read, in) ==
    IF layouts = <<>> THEN {[v |-> read, rest |-> in]}
    ELSE UNION {TakeFields(Tail(layouts), Append(read, r.v), r.rest) :
                r \in Take(Head(layouts), in)}

TakeMany(n, each, read, in) ==
    IF n = 0 THEN {[v |-> read, rest |-> in]}
    ELSE UNION {TakeMany(n - 1, each, Append(read, r.v), r.rest) : r \in Take(each, in)}

Take(k, in) ==
    CASE k.is = "int"    -> TakeInt(k.w, in)
      [] k.is = "code"   -> {r \in TakeInt(1, in) : r.v \in k.of}
      [] k.is = "bytes"  -> TakeBytes(k.w, in)
      [] k.is = "text"   -> {r \in TakeBytes(k.w, in) : IsText(r.v)}
      [] k.is = "fixed"  -> Split(k.n, in)
      [] k.is = "fields" -> TakeFields(k.of, <<>>, in)
      [] k.is = "struct" ->
            LET layouts == [i \in DOMAIN k.of |-> k.of[i][2]]
                Named(read) == [name \in {k.of[i][1] : i \in DOMAIN k.of} |->
                                    read[CHOOSE i \in DOMAIN k.of : k.of[i][1] = name]]
            IN  {[v |-> Named(r.v), rest |-> r.rest] : r \in TakeFields(layouts, <<>>, in)}
      [] k.is = "many"   -> UNION {TakeMany(n.v, k.of, <<>>, n.rest) : n \in TakeInt(k.w, in)}
      [] k.is = "block"  ->
            UNION {{[v |-> r.v, rest |-> b.rest] : r \in {r \in Take(k.of, b.v) : r.rest = <<>>}} :
                   b \in TakeBytes(k.w, in)}
      [] k.is = "after"  ->
            UNION {Take(k.of, m.rest) : m \in {m \in Split(Len(k.mark), in) : m.v = k.mark}}
      [] k.is = "sum"    ->
            UNION {LET arms == SelectSeq(k.of, LAMBDA a : a.tag = t.v)
                   IN  IF arms = <<>> THEN {}
                       ELSE {[v |-> [op |-> arms[1].op, args |-> r.v], rest |-> r.rest] :
                             r \in Take(arms[1].of, t.rest)} :
                   t \in TakeInt(1, in)}

(* A partial conversion of every element: refused when one is. *)
Each(F(_), s) ==
    IF \E i \in DOMAIN s : F(s[i]) = {} THEN {}
    ELSE {[i \in DOMAIN s |-> CHOOSE v \in F(s[i]) : TRUE]}

(* A reader that refuses what is left over. *)
Whole(k, in) == {r.v : r \in {r \in Take(k, in) : r.rest = <<>>}}
=============================================================================
