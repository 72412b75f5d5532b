------------------------------ MODULE Sessions ------------------------------
(***************************************************************************)
(* One session and its slot table: session/sequence.rs, the connection     *)
(* bindings of session/clients.rs, and the way server/transport.rs drives  *)
(* them.  Every RPC call is a task of its own, so copies of one request    *)
(* that arrive on several connections run concurrently and meet only under *)
(* the StateInner guards of prepare_sequence and finish_sequence.          *)
(***************************************************************************)
EXTENDS Naturals, Sequences, Functions

CONSTANTS Slot,             \* slots of the session
          Conn,             \* connections
          Task,             \* RPC tasks
          MaxRequests,      \* bound: requests the client sends on a slot
          SeqSpace,         \* sequence ids count modulo this (2^32 in the code)
          HasBackchannel,   \* the session was created with a callback program
          MayAbandon,       \* the client may give up a call and reuse its slot
          NoRequest, NoConn

SeqId == 0..(SeqSpace - 1)
\* The n-th request of a slot.  A request stands for its replay fingerprint:
\* credential and COMPOUND bytes, the slot and the sequence id among them.
Request == [slot : Slot, n : 1..MaxRequests, seq : SeqId]

ASSUME SessionsAssumption ==
    /\ MaxRequests \in Nat /\ SeqSpace \in Nat /\ SeqSpace > 2
    /\ HasBackchannel \in BOOLEAN /\ MayAbandon \in BOOLEAN
    /\ NoRequest \notin Request /\ NoConn \notin Conn

VARIABLES session,   \* "live", or "gone" once removed from the session map
          lease,     \* "active" or "revoked" (ClientLeaseState)
          slots,     \* SlotState of every slot
          fore,      \* fore_connections
          back,      \* back_connections
          open,      \* connections whose read loop still runs
          task,      \* the RPC tasks
          client,    \* the client's view of its slots
          calls,     \* requests in the network; may be delivered repeatedly
          replies,   \* replies on their way to the client
          log        \* executed COMPOUNDs, in order

server == <<session, lease, slots, fore, back, open>>
vars == <<server, task, client, calls, replies, log>>

Status == {"Executed", "Replay", "StatusOnly", "BadSession", "SeqMisordered",
           "Delay", "SeqFalseRetry", "Serverfault", "ConnNotBoundToSession"}
Reply == [to : Request, status : Status, result : Request \cup {NoRequest}]
SlotState == [sequence_id : SeqId, in_progress : Request \cup {NoRequest},
              cached_reply : Request \cup {NoRequest}]
\* gave_up is history: a call on the slot was abandoned.
ClientSlot == [n : 0..MaxRequests, seq : SeqId, waiting : BOOLEAN, gave_up : BOOLEAN]

TypeOK ==
    /\ session \in {"live", "gone"}
    /\ lease \in {"active", "revoked"}
    /\ slots \in [Slot -> SlotState]
    /\ fore \subseteq Conn /\ back \subseteq Conn /\ open \subseteq Conn
    /\ task \in [Task -> [pc : {"idle", "prepare", "execute", "finish"},
                          request : Request \cup {NoRequest},
                          conn : Conn \cup {NoConn}]]
    /\ client \in [Slot -> ClientSlot]
    /\ calls \subseteq Request
    /\ replies \subseteq Reply
    /\ log \in Seq(Request)

IdleTask == [pc |-> "idle", request |-> NoRequest, conn |-> NoConn]

\* create_session: slots start at sequence id 1; the creating connection is
\* bound to the fore channel, and to the back channel if the client asks for it.
\* The client starts at 1 as well.
Init ==
    /\ session = "live"
    /\ lease = "active"
    /\ slots = [s \in Slot |-> [sequence_id |-> 1, in_progress |-> NoRequest,
                                cached_reply |-> NoRequest]]
    /\ fore \in {{c} : c \in Conn}
    /\ back \in {{}} \cup (IF HasBackchannel THEN {fore} ELSE {})
    /\ open = Conn
    /\ task = [t \in Task |-> IdleTask]
    /\ client = [s \in Slot |-> [n |-> 0, seq |-> 0, waiting |-> FALSE, gave_up |-> FALSE]]
    /\ calls = {}
    /\ replies = {}
    /\ log = <<>>

succ(q) == (q + 1) % SeqSpace           \* u32::wrapping_add(1)
\* Mutant: no wrap below zero.
PredNoWrap(q) == q - 1

pred(q) == (q + SeqSpace - 1) % SeqSpace

-----------------------------------------------------------------------------
(* The client and the network.                                              *)

Current(s) == [slot |-> s, n |-> client[s].n, seq |-> client[s].seq]

\* Copies of a slot's requests that may still reach prepare_sequence.
Lingering(s) == {r \in calls \cup {task[t].request : t \in Task} :
                   r # NoRequest /\ r.slot = s}

\* RFC 8881: one outstanding request per slot, sequence ids without gaps, and no
\* copy of a request survives a whole round of the sequence space.
Send(s) ==
    LET r == [slot |-> s, n |-> client[s].n + 1, seq |-> succ(client[s].seq)] IN
    /\ ~client[s].waiting
    /\ client[s].n < MaxRequests
    /\ \A old \in Lingering(s) : r.n - old.n < SeqSpace - 1
    /\ client' = [client EXCEPT ![s].n = r.n, ![s].seq = r.seq, ![s].waiting = TRUE]
    /\ calls' = calls \cup {r}
    /\ UNCHANGED <<server, task, replies, log>>

Retransmit(s) ==
    /\ client[s].waiting
    /\ calls' = calls \cup {Current(s)}
    /\ UNCHANGED <<server, task, client, replies, log>>

\* An interrupted call: the client sends something else on the slot, with the
\* sequence id of the call it gave up or with the one after.
Abandon(s) ==
    /\ MayAbandon
    /\ client[s].waiting
    /\ \E q \in {client[s].seq, pred(client[s].seq)} :
         client' = [client EXCEPT ![s].waiting = FALSE, ![s].seq = q, ![s].gave_up = TRUE]
    /\ replies' = {p \in replies : p.to # Current(s)}
    /\ UNCHANGED <<server, task, calls, log>>

\* A call vanishes with its connection.
LoseCall(r) ==
    /\ r \in calls
    /\ calls' = calls \ {r}
    /\ UNCHANGED <<server, task, client, replies, log>>

LoseReply(p) ==
    /\ p \in replies
    /\ replies' = replies \ {p}
    /\ UNCHANGED <<server, task, client, calls, log>>

\* The client takes the reply it waits for.
Accept(p) ==
    /\ p \in replies
    /\ replies' = {q \in replies : q.to # p.to}
    /\ client' = [client EXCEPT ![p.to.slot].waiting = FALSE]
    /\ UNCHANGED <<server, task, calls, log>>

-----------------------------------------------------------------------------
(* The server.                                                              *)

\* A reply nobody waits for is discarded on arrival.  After NFS4ERR_DELAY the
\* client asks again, after CONN_NOT_BOUND_TO_SESSION on another connection.
Answer(r, status, result) ==
    replies' = IF /\ client[r.slot].waiting /\ r = Current(r.slot)
                  /\ status \notin {"Delay", "ConnNotBoundToSession"}
               THEN replies \cup {[to |-> r, status |-> status, result |-> result]}
               ELSE replies

\* bind_forechannel_for_sequence refuses a connection bound to the back
\* channel only, and binds any other.
BackOnly(c) == c \in back \ fore

\* How prepare_sequence answers a request that is not the slot's next one.
RetryStatus(slot, r) ==
    CASE r.seq # pred(slot.sequence_id) -> "SeqMisordered"
      [] r.seq = pred(slot.sequence_id) /\ slot.in_progress # NoRequest ->
           IF slot.in_progress = r THEN "Delay" ELSE "SeqFalseRetry"
      [] OTHER ->
           CASE slot.cached_reply = NoRequest -> "Serverfault"
             [] slot.cached_reply = r -> "Replay"
             [] OTHER -> "SeqFalseRetry"

\* Mutant: admitting a request leaves the slot's sequence id where it was.
ClassifyNoAdvance(t, r) ==
    \/ /\ r.seq = slots[r.slot].sequence_id
       /\ slots' = [slots EXCEPT ![r.slot].in_progress = r]
       /\ task' = [task EXCEPT ![t].pc = "execute"]
       /\ UNCHANGED replies
    \/ /\ r.seq # slots[r.slot].sequence_id
       /\ Answer(r, RetryStatus(slots[r.slot], r), NoRequest)
       /\ task' = [task EXCEPT ![t] = IdleTask]
       /\ UNCHANGED slots

\* prepare_sequence on an active client: a new request takes the slot, whether
\* or not the slot is still at work on the one before it.
Classify(t, r) ==
    LET slot == slots[r.slot]
        status == RetryStatus(slot, r) IN
    \/ /\ r.seq = slot.sequence_id
       /\ slots' = [slots EXCEPT ![r.slot] =
                      [sequence_id |-> succ(slot.sequence_id),
                       in_progress |-> r, cached_reply |-> NoRequest]]
       /\ task' = [task EXCEPT ![t].pc = "execute"]
       /\ UNCHANGED replies
    \/ /\ r.seq # slot.sequence_id
       /\ Answer(r, status, IF status = "Replay" THEN slot.cached_reply ELSE NoRequest)
       /\ task' = [task EXCEPT ![t] = IdleTask]
       /\ UNCHANGED slots

\* handle_connection reads a call and spawns process_rpc_message for it.
Receive(t, r, c) ==
    /\ task[t].pc = "idle"
    /\ r \in calls
    /\ c \in open
    /\ task' = [task EXCEPT ![t] = [pc |-> "prepare", request |-> r, conn |-> c]]
    /\ UNCHANGED <<server, client, calls, replies, log>>

\* prepare_sequence, under one write guard.  Slots outside the table (BadSlot)
\* are answered without touching any state and are left out; the lease renewal
\* of an Execute or a Replay is in module Leases.
PrepareSequence(t) ==
    LET r == task[t].request
        c == task[t].conn
        Refuse(status) == /\ Answer(r, status, NoRequest)
                          /\ task' = [task EXCEPT ![t] = IdleTask]
                          /\ UNCHANGED slots
    IN
    /\ task[t].pc = "prepare"
    /\ CASE session = "gone" -> Refuse("BadSession") /\ UNCHANGED fore
         [] session = "live" /\ BackOnly(c) ->
              Refuse("ConnNotBoundToSession") /\ UNCHANGED fore
         [] session = "live" /\ ~BackOnly(c) /\ lease = "revoked" ->
              Refuse("StatusOnly") /\ fore' = fore \cup {c}
         [] OTHER -> Classify(t, r) /\ fore' = fore \cup {c}
    /\ UNCHANGED <<session, lease, back, open, client, calls, log>>

\* handle_compound, whose effects are those of the request.
HandleCompound(t) ==
    /\ task[t].pc = "execute"
    /\ log' = Append(log, task[t].request)
    /\ task' = [task EXCEPT ![t].pc = "finish"]
    /\ UNCHANGED <<server, client, calls, replies>>

\* Mutants: the reply is not kept; the slot stays busy.
FinishUncached(t) ==
    LET r == task[t].request IN
    /\ task[t].pc = "finish"
    /\ slots' = [slots EXCEPT ![r.slot].in_progress = NoRequest]
    /\ Answer(r, "Executed", r)
    /\ task' = [task EXCEPT ![t] = IdleTask]
    /\ UNCHANGED <<session, lease, fore, back, open, client, calls, log>>

FinishBusy(t) ==
    LET r == task[t].request IN
    /\ task[t].pc = "finish"
    /\ slots' = [slots EXCEPT ![r.slot].cached_reply = r]
    /\ Answer(r, "Executed", r)
    /\ task' = [task EXCEPT ![t] = IdleTask]
    /\ UNCHANGED <<session, lease, fore, back, open, client, calls, log>>

\* finish_sequence stores the reply in the slot of the token, whatever the slot
\* is doing by now; the reply is sent even if the session has gone.
FinishSequence(t) ==
    LET r == task[t].request IN
    /\ task[t].pc = "finish"
    /\ slots' = IF session = "live"
                THEN [slots EXCEPT ![r.slot].in_progress = NoRequest,
                                   ![r.slot].cached_reply = r]
                ELSE slots
    /\ Answer(r, "Executed", r)
    /\ task' = [task EXCEPT ![t] = IdleTask]
    /\ UNCHANGED <<session, lease, fore, back, open, client, calls, log>>

\* destroy_session, by a request on a connection bound to the session.  It does
\* not wait for the slots' requests.
DestroySession(c) ==
    /\ session = "live"
    /\ c \in fore \cup back
    /\ session' = "gone"
    /\ UNCHANGED <<lease, slots, fore, back, open, task, client, calls, replies, log>>

\* drop_client_state: the client was replaced or destroyed, or its retention ran
\* out; its sessions go with it.
DropClient ==
    /\ session = "live"
    /\ session' = "gone"
    /\ UNCHANGED <<lease, slots, fore, back, open, task, client, calls, replies, log>>

\* reap_expired_clients_locked, in any handler: the lease ran out.
RevokeLease ==
    /\ session = "live"
    /\ lease = "active"
    /\ lease' = "revoked"
    /\ UNCHANGED <<session, slots, fore, back, open, task, client, calls, replies, log>>

Direction == {"FORE", "BACK", "FORE_OR_BOTH", "BACK_OR_BOTH"}

\* bind_conn_to_session and bind_connection_direction.
BindConnToSession(c, dir) ==
    /\ session = "live"
    /\ c \in open
    /\ HasBackchannel \/ dir \in {"FORE", "FORE_OR_BOTH"}
    /\ fore' = IF dir = "BACK" THEN fore ELSE fore \cup {c}
    /\ back' = IF dir # "FORE" /\ HasBackchannel THEN back \cup {c} ELSE back
    /\ UNCHANGED <<session, lease, slots, open, task, client, calls, replies, log>>

\* handle_connection on its way out: remove_connection.  The tasks it spawned
\* live on.  Bound: one connection stays open.
RemoveConnection(c) ==
    /\ c \in open
    /\ open # {c}
    /\ open' = open \ {c}
    /\ fore' = fore \ {c}
    /\ back' = back \ {c}
    /\ UNCHANGED <<session, lease, slots, task, client, calls, replies, log>>

\* alloc_connection_id never hands out an id twice; an id nothing refers to any
\* more stands for a fresh one.
Accepted(c) ==
    /\ c \notin open \cup fore \cup back \cup {task[t].conn : t \in Task}
    /\ open' = open \cup {c}
    /\ UNCHANGED <<session, lease, slots, fore, back, task, client, calls, replies, log>>

Client(s) == Send(s) \/ Retransmit(s) \/ Abandon(s)
Serve(t) == PrepareSequence(t) \/ HandleCompound(t) \/ FinishSequence(t)

Next ==
    \/ \E s \in Slot : Client(s)
    \/ \E r \in calls : LoseCall(r)
    \/ \E p \in replies : LoseReply(p) \/ Accept(p)
    \/ \E t \in Task, r \in calls, c \in Conn : Receive(t, r, c)
    \/ \E t \in Task : Serve(t)
    \/ \E c \in Conn : DestroySession(c) \/ RemoveConnection(c) \/ Accepted(c)
    \/ \E c \in Conn, dir \in Direction : BindConnToSession(c, dir)
    \/ DropClient
    \/ RevokeLease

Spec == Init /\ [][Next]_vars

Ended == session = "gone" \/ lease = "revoked"

\* A client can shut itself out by binding every connection to the back channel
\* alone, or by sending its requests on such connections.  One that wants replies
\* stops doing either, and from then on has a connection for requests, though not
\* always the same one.
KeepsForeChannel ==
    /\ <>[](\E c \in open : ~BackOnly(c))
    /\ <>[][\A c \in Conn :
             /\ ~BindConnToSession(c, "BACK")
             /\ BackOnly(c) => \A t \in Task, r \in calls : ~Receive(t, r, c)]_vars

\* Spawned tasks run to completion, a closed connection can be replaced.  The
\* client resends what it waits for, on connections that may carry requests; the
\* network does not lose every copy of a call or of a reply to it, and copies of
\* answered requests do not circulate for ever.
Fairness ==
    /\ \A t \in Task : WF_vars(Serve(t))
    /\ \A c \in Conn : WF_vars(Accepted(c))
    /\ \A r \in Request : WF_vars(r # Current(r.slot) /\ LoseCall(r))
    /\ KeepsForeChannel
    /\ \A s \in Slot :
         /\ WF_vars(Retransmit(s))
         /\ SF_vars(\E t \in Task, c \in Conn :
                      ~BackOnly(c) /\ Receive(t, Current(s), c))
         /\ SF_vars(\E p \in replies : p.to.slot = s /\ Accept(p))

FairSpec == Spec /\ Fairness

-----------------------------------------------------------------------------
(* Properties.                                                              *)

\* A request executes at most once however often it is delivered: the slot's
\* sequence id moves past it in the guard that admits it (prepare_sequence).
AtMostOnce == IsInjective(log)

\* A slot is busy only while a task works on the request that keeps it busy, so
\* a client told NFS4ERR_DELAY is never told so for ever.
BusySlotIsServed ==
    session = "live" =>
      \A s \in Slot : slots[s].in_progress # NoRequest =>
        \E t \in Task : /\ task[t].pc \in {"execute", "finish"}
                        /\ task[t].request = slots[s].in_progress

\* The reply to an executed request stays in the slot, or on its way there, for
\* as long as a client that abandons no call may ask for it again.
ReplyIsKept ==
    session = "live" =>
      \A s \in Slot : client[s].waiting /\ ~client[s].gave_up /\ Current(s) \in Range(log) =>
        Current(s) \in {slots[s].in_progress, slots[s].cached_reply}

\* A client that keeps the protocol never sees a sequencing error: a retry of
\* its current request is executed, replayed or put off.
NoSequencingError ==
    \A p \in replies : ~client[p.to.slot].gave_up =>
        p.status \notin {"SeqMisordered", "SeqFalseRetry", "Serverfault"}

\* Slots are a linearizable exactly-once RPC: a request takes effect between
\* its call and its return, and at most once even after the client gave up a call.
Contract == INSTANCE ExactlyOnce WITH
              pending <- [s \in Slot |-> IF client[s].waiting THEN Current(s) ELSE NoRequest],
              ended <- Ended \/ \E s \in Slot : client[s].gave_up
ImplementsExactlyOnce == Contract!Spec

\* A request is answered in the end, unless the session ends first.
EventuallyAnswered ==
    \A s \in Slot : client[s].waiting ~> (~client[s].waiting \/ Ended)
=============================================================================
