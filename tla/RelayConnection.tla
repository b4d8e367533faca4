-------------------------- MODULE RelayConnection --------------------------
(***************************************************************************)
(* One receiving device and its connections to the relay: the transport's  *)
(* Connection and its reader task, the server's serve_connection tasks and *)
(* push channels (crates/tacenta-transport/src/lib.rs), and the client's   *)
(* receive, drain and reconnect over them (crates/tacenta-client).         *)
(*                                                                         *)
(* Messages are 1, 2, ...; the relay's queue is how many it accepted and   *)
(* the device's cursor (module Relay).  A connection lives in a slot; a    *)
(* slot is used again once both of its ends are gone.                      *)
(***************************************************************************)
EXTENDS Integers, Sequences, FiniteSets

CONSTANTS
    Slots,                 \* connections that may exist at once
    NoSlot,                \* no connection
    MAX_QUEUED_RESPONSES,  \* responses the reader holds for the caller
    FrameCap,              \* messages that fit in one frame (MAX_FRAME_LEN)
    MaxMail,               \* bound: messages sent to the device
    MaxFaults,             \* bound: streams that break
    MaxCancels,            \* bound: futures the caller drops
    SenderFails,           \* a sender's stream may fail under its response
    EagerReconnects,       \* the caller may call reconnect() on a live stream
    PromptRegistration     \* a task registers before its client dials again

ASSUME ConnectionAssumption ==
    /\ Cardinality(Slots) >= 2 /\ NoSlot \notin Slots
    /\ {MAX_QUEUED_RESPONSES, FrameCap, MaxMail, MaxFaults, MaxCancels} \subseteq Nat
    /\ {SenderFails, EagerReconnects, PromptRegistration} \subseteq BOOLEAN

VARIABLES
    mail, cursor,        \* relay: messages accepted, messages acknowledged
    owed,                \* relay: accepted sends whose `notify` is to come
    registered,          \* Server.connected: the slot of the device, or NoSlot
    task,                \* task[c]: the server's task for the stream in c
    pushes,              \* pushes[c]: pings in the task's push channel
    up, down,            \* up[c], down[c]: frames on the stream
    shut,                \* shut[c]: the stream is closed
    reader,              \* reader[c]: the client's reader task is running
    queued,              \* queued[c]: Connection.responses
    overflowed,          \* overflowed[c]: Connection.overflowed
    permit,              \* the mail signal's stored permit
    conn,                \* the slot of Client.relay
    outstanding, torn,   \* Connection.outstanding, Connection.torn
    phase,               \* where the caller's call is
    want,                \* the request it makes: PollRequest or AckRequest(n)
    again,               \* whether drain is in its second poll_batch
    batch,               \* poll_batch's `received`
    consumed,            \* messages whose keys are used up
    shown,               \* history: messages returned to the caller
    faults, cancels      \* bounds used up

relayVars == <<mail, cursor, owed>>
taskVars == <<registered, task, pushes>>
linkVars == <<up, down, shut>>
readerVars == <<reader, queued, overflowed, permit>>
callVars == <<phase, want, again, batch, consumed, shown>>
connVars == <<conn, outstanding, torn>>
bounds == <<faults, cancels>>
vars == <<relayVars, taskVars, linkVars, readerVars, callVars, connVars, bounds>>

\* Frames.  `mine` marks the request the client is waiting on and its answer;
\* it is not on the wire, and pairing is by order alone.
PollRequest == [what |-> "poll", n |-> 0, mine |-> TRUE]
AckRequest(n) == [what |-> "ack", n |-> n, mine |-> TRUE]
Half == [what |-> "half", n |-> 0, mine |-> FALSE]
Delivered(from, count, mine) ==
    [what |-> "delivered", from |-> from, count |-> count, mine |-> mine]
Acked(accepted, mine) ==
    [what |-> "acked", from |-> 0, count |-> IF accepted THEN 1 ELSE 0, mine |-> mine]
Push == [what |-> "push", from |-> 0, count |-> 0, mine |-> FALSE]

Disown(frames) == [i \in DOMAIN frames |-> [frames[i] EXCEPT !.mine = FALSE]]

\* A client that has connected; its task has yet to register the push channel.
Init ==
    /\ mail = 0 /\ cursor = 0 /\ owed = 0
    /\ conn \in Slots
    /\ registered = NoSlot
    /\ task = [c \in Slots |-> IF c = conn THEN "accepted" ELSE "none"]
    /\ pushes = [c \in Slots |-> 0]
    /\ up = [c \in Slots |-> <<>>] /\ down = [c \in Slots |-> <<>>]
    /\ shut = [c \in Slots |-> c # conn]
    /\ reader = [c \in Slots |-> c = conn]
    /\ queued = [c \in Slots |-> <<>>]
    /\ overflowed = [c \in Slots |-> FALSE]
    /\ permit = FALSE
    /\ outstanding = 0 /\ torn = FALSE
    /\ phase = "app" /\ want = PollRequest /\ again = FALSE
    /\ batch = {} /\ consumed = {} /\ shown = {}
    /\ faults = 0 /\ cancels = 0

-----------------------------------------------------------------------------
\* The server

\* Another device's Send is accepted by the relay, in that device's own task.
Send ==
    /\ mail < MaxMail
    /\ mail' = mail + 1 /\ owed' = owed + 1
    /\ UNCHANGED <<cursor, taskVars, linkVars, readerVars, callVars, connVars, bounds>>

\* The sender's task has written its response, and wakes the recipient.
Notify ==
    /\ owed > 0
    /\ owed' = owed - 1
    /\ pushes' = [c \in Slots |-> pushes[c] + (IF c = registered THEN 1 ELSE 0)]
    /\ UNCHANGED <<mail, cursor, registered, task, linkVars, readerVars, callVars, connVars,
                   bounds>>

\* The response cannot be written: `?` ends the sender's task before `notify`.
SkipNotify ==
    /\ SenderFails /\ owed > 0
    /\ owed' = owed - 1
    /\ UNCHANGED <<mail, cursor, taskVars, linkVars, readerVars, callVars, connVars, bounds>>

\* serve_connection, after the accept byte: the newest registration wins.
Register(c) ==
    /\ task[c] = "accepted"
    /\ task' = [task EXCEPT ![c] = "serving"]
    /\ registered' = c
    /\ UNCHANGED <<relayVars, pushes, linkVars, readerVars, callVars, connVars, bounds>>

\* Mutant of Ended: the task removes whatever registration there is.
EndsAnyRegistration(c) ==
    /\ task' = [task EXCEPT ![c] = "ended"]
    /\ registered' = NoSlot
    /\ pushes' = [pushes EXCEPT ![c] = 0]
    /\ shut' = [shut EXCEPT ![c] = TRUE]

\* serve_connection's exit: only this task's own registration is removed.
Ended(c) ==
    /\ task' = [task EXCEPT ![c] = "ended"]
    /\ registered' = IF registered = c THEN NoSlot ELSE registered
    /\ pushes' = [pushes EXCEPT ![c] = 0]
    /\ shut' = [shut EXCEPT ![c] = TRUE]

\* write_tagged: onto the stream; on one that is closed, into nowhere or an
\* error that ends the task.
Written(c, frame) ==
    \/ ~shut[c] /\ down' = [down EXCEPT ![c] = Append(down[c], frame)]
       /\ UNCHANGED <<registered, task, shut>>
    \/ shut[c] /\ UNCHANGED <<registered, task, down, shut>>

\* Relay::handle of a whole request frame, and its response.
Handle(c) ==
    LET request == Head(up[c])
        accepted == cursor < request.n /\ request.n <= mail
        response == IF request.what = "poll"
                    THEN Delivered(cursor, mail - cursor, request.mine)
                    ELSE Acked(accepted, request.mine)
    IN
    /\ task[c] = "serving" /\ up[c] # <<>> /\ request.what # "half"
    /\ up' = [up EXCEPT ![c] = Tail(up[c])]
    /\ cursor' = IF request.what = "ack" /\ accepted THEN request.n ELSE cursor
    /\ \/ Written(c, response) /\ UNCHANGED pushes
       \/ shut[c] /\ Ended(c) /\ UNCHANGED down
    /\ UNCHANGED <<mail, owed, readerVars, callVars, connVars, bounds>>

\* The push branch of serve_authenticated's select.
SendPush(c) ==
    /\ task[c] = "serving" /\ pushes[c] > 0
    /\ \/ Written(c, Push) /\ pushes' = [pushes EXCEPT ![c] = pushes[c] - 1]
       \/ shut[c] /\ Ended(c) /\ UNCHANGED down
    /\ UNCHANGED <<relayVars, up, readerVars, callVars, connVars, bounds>>

\* The stream ends, cleanly or inside a frame.
End(c) ==
    /\ task[c] = "serving" /\ shut[c]
    /\ up[c] \in {<<>>, <<Half>>}
    /\ Ended(c)
    /\ up' = [up EXCEPT ![c] = <<>>]
    /\ UNCHANGED <<relayVars, down, readerVars, callVars, connVars, bounds>>

\* The stream breaks: each direction still delivers some prefix.
Break(c) ==
    /\ faults < MaxFaults /\ ~shut[c]
    /\ shut' = [shut EXCEPT ![c] = TRUE]
    /\ \E i \in 0..Len(up[c]), j \in 0..Len(down[c]) :
          /\ up' = [up EXCEPT ![c] = SubSeq(up[c], 1, i)]
          /\ down' = [down EXCEPT ![c] = SubSeq(down[c], 1, j)]
    /\ faults' = faults + 1
    /\ UNCHANGED <<relayVars, taskVars, readerVars, callVars, connVars, cancels>>

-----------------------------------------------------------------------------
\* The client's reader task

\* The task ends: every waiter is woken, and a permit is left for a later one.
ReaderEnds(c) ==
    /\ reader' = [reader EXCEPT ![c] = FALSE]
    /\ permit' = TRUE
    /\ phase' = IF phase = "waiting" THEN "request" ELSE phase

\* A frame the reader takes: a push pings the signal, a response is queued, and
\* one more than the queue holds, or a frame over the limit, ends the task.
Read(c) ==
    LET frame == Head(down[c])
        long == frame.count > FrameCap
        full == Len(queued[c]) >= MAX_QUEUED_RESPONSES
    IN
    /\ reader[c] /\ down[c] # <<>>
    /\ down' = [down EXCEPT ![c] = Tail(down[c])]
    /\ \/ /\ frame.what = "push"
          /\ permit' = TRUE
          /\ UNCHANGED <<reader, queued, overflowed, phase>>
       \/ /\ frame.what # "push" /\ ~long /\ ~full
          /\ queued' = [queued EXCEPT ![c] = Append(queued[c], frame)]
          /\ UNCHANGED <<reader, overflowed, permit, phase>>
       \/ /\ frame.what # "push" /\ (long \/ full)
          /\ overflowed' = [overflowed EXCEPT ![c] = ~long]
          /\ ReaderEnds(c)
          /\ UNCHANGED queued
    /\ UNCHANGED <<relayVars, taskVars, up, shut, want, again, batch, consumed, shown,
                   connVars, bounds>>

\* The end of the stream, or the Connection was dropped.
ReaderStops(c) ==
    /\ reader[c]
    /\ c # conn \/ (shut[c] /\ down[c] = <<>>)
    /\ ReaderEnds(c)
    /\ down' = [down EXCEPT ![c] = <<>>]
    /\ UNCHANGED <<relayVars, taskVars, up, shut, queued, overflowed, want, again, batch,
                   consumed, shown, connVars, bounds>>

-----------------------------------------------------------------------------
\* Connection::request, receive, drain and reconnect

\* Client::receive is called: drain, poll_batch, fetch_staged.
Receive ==
    /\ phase = "app"
    /\ phase' = "request" /\ want' = PollRequest /\ again' = FALSE
    /\ UNCHANGED <<relayVars, taskVars, linkVars, readerVars, batch, consumed, shown, connVars,
                   bounds>>

\* What drain does with an I/O error of poll_batch: the batch is gone; one
\* reconnect and one more try.
IoError ==
    /\ phase' = IF again THEN "app" ELSE "dial"
    /\ batch' = {}
    /\ UNCHANGED <<want, again, consumed, shown>>

\* The wait for a response: an abandoned request's, or the current one's.
Awaiting == phase = "await" \/ (phase = "request" /\ outstanding > 0)

\* request refuses a torn or overflowed connection; take_response fails when
\* the reader is gone and nothing is queued.
RequestFails ==
    /\ phase \in {"request", "await"}
    /\ \/ overflowed[conn]
       \/ phase = "request" /\ torn
       \/ Awaiting /\ queued[conn] = <<>> /\ ~reader[conn]
    /\ IoError
    /\ UNCHANGED <<relayVars, taskVars, linkVars, readerVars, connVars, bounds>>

Usable == ~torn /\ ~overflowed[conn]

\* The response to an abandoned request is taken and discarded.
Discard ==
    /\ phase = "request" /\ Usable
    /\ outstanding > 0 /\ queued[conn] # <<>>
    /\ queued' = [queued EXCEPT ![conn] = Tail(queued[conn])]
    /\ outstanding' = outstanding - 1
    /\ UNCHANGED <<relayVars, taskVars, linkVars, reader, overflowed, permit, callVars, conn,
                   torn, bounds>>

\* Every abandoned request has been answered.
MayWrite == phase = "request" /\ Usable /\ outstanding = 0

\* The frame is written whole; on a closed stream it goes nowhere.
Write ==
    /\ MayWrite
    /\ up' = IF shut[conn] THEN up ELSE [up EXCEPT ![conn] = Append(up[conn], want)]
    /\ outstanding' = outstanding + 1
    /\ phase' = "await"
    /\ UNCHANGED <<relayVars, taskVars, down, shut, readerVars, want, again, batch, consumed,
                   shown, conn, torn, bounds>>

\* The write fails, which leaves the connection torn.
WriteFails ==
    /\ MayWrite /\ shut[conn]
    /\ torn' = TRUE
    /\ IoError
    /\ UNCHANGED <<relayVars, taskVars, linkVars, readerVars, conn, outstanding, bounds>>

\* Mutant of AckUpTo: one past the last message fetched.
AckOnePast(r) == r.from + r.count + 1

\* PreparedAcknowledgement::for_fetched
AckUpTo(r) == r.from + r.count

\* The response is taken.  A delivery is decrypted and acknowledged; the batch
\* is returned once the acknowledgement is accepted; an empty one waits.
Take ==
    LET r == Head(queued[conn])
        opened == (r.from + 1 .. r.from + r.count) \ consumed
    IN
    /\ phase = "await" /\ ~overflowed[conn] /\ queued[conn] # <<>>
    /\ queued' = [queued EXCEPT ![conn] = Tail(queued[conn])]
    /\ outstanding' = outstanding - 1
    /\ \/ /\ want.what = "poll" /\ r.what = "delivered"
          /\ batch' = opened
          /\ consumed' = consumed \union opened
          /\ want' = IF r.count = 0 THEN PollRequest ELSE AckRequest(AckUpTo(r))
          /\ phase' = IF r.count = 0 THEN "waiting" ELSE "request"
          /\ UNCHANGED shown
       \/ /\ want.what = "ack" /\ r.what = "acked" /\ r.count = 1
          /\ shown' = shown \union batch
          /\ batch' = {}
          /\ want' = PollRequest
          /\ phase' = IF batch = {} THEN "waiting" ELSE "app"
          /\ UNCHANGED consumed
       \/ /\ \/ r.what # (IF want.what = "poll" THEN "delivered" ELSE "acked")
             \/ want.what = "ack" /\ r.count = 0
          /\ phase' = "app" /\ batch' = {}
          /\ UNCHANGED <<want, consumed, shown>>
    /\ again' = (again /\ phase' = "request")
    /\ UNCHANGED <<relayVars, taskVars, linkVars, reader, overflowed, permit, conn, torn, bounds>>

\* The mail signal: receive polls again.
Wake ==
    /\ phase = "waiting" /\ permit
    /\ permit' = FALSE
    /\ phase' = "request"
    /\ UNCHANGED <<relayVars, taskVars, linkVars, reader, queued, overflowed, want, again, batch,
                   consumed, shown, connVars, bounds>>

\* The caller reconnects without having met an error.
Reconnect ==
    /\ EagerReconnects /\ phase = "app" /\ cancels < MaxCancels
    /\ phase' = "redial"
    /\ cancels' = cancels + 1
    /\ UNCHANGED <<relayVars, taskVars, linkVars, readerVars, want, again, batch, consumed,
                   shown, connVars, faults>>

Free(c) == c # conn /\ task[c] \in {"none", "ended"} /\ ~reader[c]

Dialling == phase \in {"dial", "redial"} /\ (PromptRegistration => task[conn] # "accepted")

\* The handshake completes, and the new connection replaces the old one, which
\* is dropped: what it had written is still the server's to read.
Dial(c) ==
    /\ Dialling /\ Free(c)
    /\ conn' = c
    /\ outstanding' = 0 /\ torn' = FALSE
    /\ task' = [task EXCEPT ![c] = "accepted"]
    /\ shut' = [shut EXCEPT ![conn] = TRUE, ![c] = FALSE]
    /\ up' = [up EXCEPT ![c] = <<>>, ![conn] = Disown(up[conn])]
    /\ down' = [down EXCEPT ![c] = <<>>, ![conn] = <<>>]
    /\ reader' = [reader EXCEPT ![c] = TRUE]
    /\ queued' = [queued EXCEPT ![c] = <<>>, ![conn] = <<>>]
    /\ overflowed' = [overflowed EXCEPT ![c] = FALSE, ![conn] = FALSE]
    /\ IF phase = "dial"
       THEN phase' = "request" /\ want' = PollRequest /\ again' = TRUE
       ELSE phase' = "app" /\ UNCHANGED <<want, again>>
    /\ UNCHANGED <<relayVars, registered, pushes, permit, batch, consumed, shown, bounds>>

\* The dial fails, with nothing at the server or (the accept byte was lost, or
\* the future dropped) with a task serving a stream nobody holds.
DialFails ==
    /\ Dialling /\ faults < MaxFaults
    /\ faults' = faults + 1
    /\ phase' = "app"
    /\ \/ UNCHANGED task
       \/ \E c \in Slots : Free(c) /\ task' = [task EXCEPT ![c] = "accepted"]
    /\ UNCHANGED <<relayVars, registered, pushes, linkVars, readerVars, want, again, batch,
                   consumed, shown, connVars, cancels>>

\* Mutant of Abandoned: the response to come is not remembered.
ForgetsOutstanding == outstanding' = 0

\* A future dropped after its frame was written leaves its response outstanding.
Abandoned == UNCHANGED outstanding

\* The caller drops the future while it waits.
Cancel ==
    /\ cancels < MaxCancels
    /\ Awaiting \/ phase \in {"waiting", "dial"}
    /\ cancels' = cancels + 1
    /\ phase' = "app" /\ batch' = {}
    /\ up' = [up EXCEPT ![conn] = Disown(up[conn])]
    /\ down' = [down EXCEPT ![conn] = Disown(down[conn])]
    /\ queued' = [queued EXCEPT ![conn] = Disown(queued[conn])]
    /\ Abandoned
    /\ UNCHANGED <<relayVars, taskVars, shut, reader, overflowed, permit, want, again, consumed,
                   shown, conn, torn, faults>>

\* Mutant of TornWrite: the flag is cleared although the write was dropped.
WriteLooksWhole == UNCHANGED torn

\* `torn` is set before the write and cleared after it.
TornWrite == torn' = TRUE

\* The caller drops the future while the frame is being written: none of it,
\* part of it, or all of it went out.
CancelWrite ==
    /\ cancels < MaxCancels
    /\ MayWrite
    /\ cancels' = cancels + 1
    /\ phase' = "app" /\ batch' = {}
    /\ \/ UNCHANGED up
       \/ /\ ~shut[conn]
          /\ \E frames \in {<<Half>>, Disown(<<want>>)} :
                up' = [up EXCEPT ![conn] = up[conn] \o frames]
    /\ TornWrite
    /\ UNCHANGED <<relayVars, taskVars, down, shut, readerVars, want, again, consumed, shown,
                   conn, outstanding, faults>>

Step(c) ==
    \/ Register(c) \/ Handle(c) \/ SendPush(c) \/ End(c)
    \/ Read(c) \/ ReaderStops(c)

Call == Receive \/ RequestFails \/ Discard \/ Write \/ WriteFails \/ Take \/ Wake

Next ==
    \/ Send \/ Notify \/ SkipNotify
    \/ \E c \in Slots : Step(c) \/ Break(c) \/ Dial(c)
    \/ Call
    \/ Reconnect \/ DialFails
    \/ Cancel \/ CancelWrite

\* The runtime polls every task, the network delivers while it is up, the
\* caller calls receive again, and a dial that can succeed does in the end.
Fairness ==
    /\ WF_vars(Notify \/ SkipNotify)
    /\ \A c \in Slots :
          /\ WF_vars(Register(c)) /\ WF_vars(Handle(c)) /\ WF_vars(SendPush(c))
          /\ WF_vars(End(c)) /\ WF_vars(Read(c)) /\ WF_vars(ReaderStops(c))
    /\ WF_vars(Call)
    /\ WF_vars(\E c \in Slots : Dial(c))

Spec == Init /\ [][Next]_vars

FairSpec == Spec /\ Fairness

-----------------------------------------------------------------------------
\* Properties

Requests == [what : {"poll", "ack", "half"}, n : 0..MaxMail, mine : BOOLEAN]
Frames == [what : {"delivered", "acked", "push"}, from : 0..MaxMail, count : 0..MaxMail,
           mine : BOOLEAN]

\* Type invariant: the connection counts at most one request it wrote and whose
\* answer it has not taken (Connection.outstanding), and the cursor stays in
\* the queue.
TypeOK ==
    /\ mail \in 0..MaxMail /\ cursor \in 0..mail /\ owed \in 0..mail
    /\ registered \in Slots \union {NoSlot}
    /\ task \in [Slots -> {"none", "accepted", "serving", "ended"}]
    /\ pushes \in [Slots -> 0..MaxMail]
    /\ \A c \in Slots :
          /\ up[c] \in Seq(Requests) /\ down[c] \in Seq(Frames)
          /\ queued[c] \in Seq(Frames) /\ Len(queued[c]) <= MAX_QUEUED_RESPONSES
    /\ {shut, reader, overflowed} \subseteq [Slots -> BOOLEAN]
    /\ {permit, torn, again} \subseteq BOOLEAN
    /\ conn \in Slots /\ outstanding \in 0..1
    /\ phase \in {"app", "request", "await", "waiting", "dial", "redial"}
    /\ want \in Requests
    /\ {batch, consumed, shown} \subseteq SUBSET (1..MaxMail)
    /\ faults \in 0..MaxFaults /\ cancels \in 0..MaxCancels

Responses(frames) == SelectSeq(frames, LAMBDA f : f.what # "push")

\* A response is taken for the request that it answers, whatever futures were
\* dropped before it and although nothing but order pairs the two; never more than
\* one is on its way, so the bounded queue of them never overflows
\* (Connection::request, MAX_QUEUED_RESPONSES; decision 0148).
AnswersArePaired ==
    /\ phase = "await" /\ queued[conn] # <<>> => Head(queued[conn]).mine
    /\ \A c \in Slots : Len(Responses(down[c])) + Len(queued[c]) <= 1 /\ ~overflowed[c]

\* Nothing follows half a frame on a stream: the server never reads the rest of
\* one frame as the start of another (Connection.torn; decision 0148).
NothingAfterHalfAFrame ==
    \A c \in Slots : \A i \in DOMAIN up[c] :
        up[c][i].what = "half" => i = Len(up[c])

\* The relay forgets only what this client has decrypted, with requests still
\* in flight on connections it has left (acknowledge_fetched; Queue::ack).
AcknowledgedWasDecrypted == 1..cursor \subseteq consumed

\* A client that keeps calling receive is brought everything the relay
\* accepted, over broken streams, dropped futures and reconnects (receive,
\* drain and the mail signal).
AllFetched == <>[](cursor = mail)

-----------------------------------------------------------------------------
\* Sentences of the sources that hold only in part; each has a counterexample
\* where the environment assumption it needs is dropped, and the last always.

\* "when a message is routed to a device that has a connected client, that
\* client is notified so it can fetch without polling" (transport, module
\* documentation): a client that waits with mail pending does not wait forever.
WaitingClientIsNotified == (phase = "waiting" /\ cursor < mail) ~> (phase # "waiting")

\* A connection that is up and served is never left without a registration:
\* "that live registration must not be evicted by the stale one's exit"
\* (serve_connection).
LiveRegistrationKept ==
    task[conn] = "serving" /\ ~shut[conn] => registered # NoSlot

\* What drain decrypts it returns: "the messages are already decrypted, so
\* failing here would lose them" (poll_batch).
DecryptedIsReturned == cancels = 0 => consumed \subseteq shown \union batch
=============================================================================
