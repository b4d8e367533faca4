------------------------------ MODULE Session ------------------------------
(***************************************************************************)
(* The per-device delivery machine of crates/tacenta-state/src/session.rs: *)
(* an append-only log and a cursor counting the acknowledged messages.     *)
(* A session is a record [log, cursor]; the relay's queue holds one.       *)
(***************************************************************************)
EXTENDS Integers, Sequences

\* Session::new: empty log, nothing acknowledged.
NewSession == [log |-> <<>>, cursor |-> 0]

\* Session::pending: the log past the cursor, oldest first.
SessionPending(s) == SubSeq(s.log, s.cursor + 1, Len(s.log))

\* Session::append: always allowed, never touches the cursor.
SessionAppend(s, e) == [log |-> Append(s.log, e), cursor |-> s.cursor]

\* Mutant of SessionAckAccepts: one position past the end of the log.
AckAcceptsOnePast(s, n) == s.cursor < n /\ n <= Len(s.log) + 1

\* The condition under which Session::ack returns true.
SessionAckAccepts(s, n) == s.cursor < n /\ n <= Len(s.log)

\* Session::ack: a refused acknowledgement leaves the session as it was.
SessionAck(s, n) ==
    IF SessionAckAccepts(s, n) THEN [log |-> s.log, cursor |-> n] ELSE s

\* A session rebuilt by appending `msgs` to a new one, one at a time.
SessionOf(msgs) == [log |-> msgs, cursor |-> 0]
=============================================================================
