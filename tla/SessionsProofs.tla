--------------------------- MODULE SessionsProofs ---------------------------
(***************************************************************************)
(* Proofs about sessions and slots, for any number of slots, connections,  *)
(* tasks and requests and for every size of the sequence space.            *)
(***************************************************************************)
EXTENDS Sessions, TLAPS

-----------------------------------------------------------------------------
(* Sequence ids are points of a circle; Dist is the way forward.            *)

Dist(a, b) == IF b >= a THEN b - a ELSE b + SeqSpace - a

LEMMA SuccPred ==
    ASSUME NEW q \in SeqId
    PROVE  /\ succ(q) = IF q = SeqSpace - 1 THEN 0 ELSE q + 1
           /\ pred(q) = IF q = 0 THEN SeqSpace - 1 ELSE q - 1
           /\ succ(q) \in SeqId /\ pred(q) \in SeqId
           /\ succ(pred(q)) = q /\ pred(succ(q)) = q
           /\ succ(q) # q
<1>1. q \in Nat /\ q < SeqSpace /\ SeqSpace \in Nat /\ SeqSpace > 2
  BY SessionsAssumption DEF SeqId
<1>2. ASSUME NEW k \in SeqId
      PROVE  succ(k) = IF k = SeqSpace - 1 THEN 0 ELSE k + 1
  BY <1>1 DEF succ, SeqId
<1>3. ASSUME NEW k \in SeqId
      PROVE  pred(k) = IF k = 0 THEN SeqSpace - 1 ELSE k - 1
  BY <1>1 DEF pred, SeqId
<1>4. succ(q) \in SeqId /\ pred(q) \in SeqId
  BY <1>1, <1>2, <1>3 DEF SeqId
<1> QED
  BY <1>1, <1>2, <1>3, <1>4 DEF SeqId

LEMMA DistFacts ==
    ASSUME NEW a \in SeqId, NEW b \in SeqId
    PROVE  /\ Dist(a, b) \in 0..(SeqSpace - 1)
           /\ Dist(a, b) = 0 <=> a = b
           /\ a # b => Dist(a, b) + Dist(b, a) = SeqSpace
           /\ Dist(a, succ(b)) = IF Dist(a, b) = SeqSpace - 1 THEN 0 ELSE Dist(a, b) + 1
BY SuccPred, SessionsAssumption DEF Dist, SeqId

\* A sequence id as far back as its request, before and after the next request.
LEMMA DistNext ==
    ASSUME NEW a \in SeqId, NEW b \in SeqId, NEW k \in Nat, NEW n \in Nat, NEW c, NEW m,
           Dist(a, b) = n - k, m = n + 1, c = succ(b), m - k < SeqSpace - 1
    PROVE  Dist(a, c) = m - k
BY DistFacts, SessionsAssumption

LEMMA DistNone ==
    ASSUME NEW a \in SeqId, NEW b \in SeqId, NEW k \in Nat, NEW n \in Nat,
           Dist(a, b) = n - k, a = b
    PROVE  k = n
BY DistFacts

-----------------------------------------------------------------------------
(* The state as the invariants see it.                                      *)

\* A task works on r: it was admitted and its reply is not stored yet.
Busy(t, r) == task[t].pc \in {"execute", "finish"} /\ task[t].request = r

\* The slot's sequence id has moved past r.
Admitted(r) == r \in Range(log) \/ \E t \in Task : Busy(t, r)

\* r may still reach prepare_sequence, or the client may send it again.
Near(r) ==
    \/ r \in calls
    \/ \E t \in Task : task[t].request = r
    \/ client[r.slot].waiting /\ r = Current(r.slot)

TaskState == [pc : {"idle", "prepare", "execute", "finish"},
              request : Request \cup {NoRequest}, conn : Conn \cup {NoConn}]

TaskInv == \A t \in Task : task[t].pc # "idle" => task[t].request \in Request
                                                 /\ task[t].conn \in Conn

WaitInv == \A s \in Slot : client[s].waiting => client[s].n # 0

Types == TypeOK /\ TaskInv /\ WaitInv

LEMMA CurrentIsRequest ==
    ASSUME TypeOK, NEW s \in Slot, client[s].n # 0
    PROVE  /\ Current(s) \in Request
           /\ Current(s).slot = s /\ Current(s).n = client[s].n /\ Current(s).seq = client[s].seq
BY DEF TypeOK, ClientSlot, Current, Request

LEMMA AppendRange ==
    ASSUME NEW l \in Seq(Request), NEW r \in Request
    PROVE  /\ Append(l, r) \in Seq(Request)
           /\ \A q : q \in Range(Append(l, r)) <=> q \in Range(l) \/ q = r
           /\ IsInjective(l) /\ r \notin Range(l) => IsInjective(Append(l, r))
<1>1. /\ Append(l, r) \in Seq(Request) /\ Len(Append(l, r)) = Len(l) + 1
      /\ \A k \in 1..Len(l) : Append(l, r)[k] = l[k]
      /\ Append(l, r)[Len(l) + 1] = r
      /\ Len(l) \in Nat
      /\ DOMAIN l = 1..Len(l) /\ DOMAIN Append(l, r) = 1..(Len(l) + 1)
  OBVIOUS
<1>2. \A k : k \in 1..(Len(l) + 1) <=> k \in 1..Len(l) \/ k = Len(l) + 1
  BY <1>1
<1>3. \A q : q \in Range(Append(l, r)) <=> q \in Range(l) \/ q = r
  BY ZenonT(30), <1>1, <1>2 DEF Range
<1>4. ASSUME IsInjective(l), r \notin Range(l)
      PROVE  IsInjective(Append(l, r))
  BY ZenonT(30), <1>1, <1>2, <1>4 DEF IsInjective, Range
<1> QED
  BY ZenonT(30), <1>1, <1>3, <1>4

-----------------------------------------------------------------------------
(* What the steps do.                                                       *)

\* The session and its lease only ever end.
Wanes ==
    /\ session' \in {"live", "gone"} /\ lease' \in {"active", "revoked"}
    /\ session = "gone" => session' = "gone"
    /\ lease = "revoked" => lease' = "revoked"

\* Nobody but slot s of the client moves.
OthersWait(s) ==
    /\ client' \in [Slot -> ClientSlot]
    /\ \A u \in Slot : u # s => client'[u] = client[u]

\* Nobody but task t moves.
OthersRun(t) ==
    /\ task' \in [Task -> TaskState]
    /\ \A u \in Task : u # t => task'[u] = task[u]

Sends(s) ==
    LET r == [slot |-> s, n |-> client[s].n + 1, seq |-> succ(client[s].seq)] IN
    /\ ~client[s].waiting
    /\ r \in Request
    /\ \A old \in Request : Near(old) /\ old.slot = s => r.n - old.n < SeqSpace - 1
    /\ OthersWait(s)
    /\ client'[s].n = client[s].n + 1 /\ client'[s].seq = succ(client[s].seq)
    /\ client'[s].waiting /\ client'[s].gave_up = client[s].gave_up
    /\ calls' = calls \cup {r}
    /\ UNCHANGED <<server, task, replies, log>>

Abandons(s) ==
    /\ client[s].waiting
    /\ OthersWait(s)
    /\ client'[s].n = client[s].n /\ ~client'[s].waiting /\ client'[s].gave_up
    /\ client'[s].seq \in {client[s].seq, pred(client[s].seq)}
    /\ replies' = {p \in replies : p.to # Current(s)}
    /\ UNCHANGED <<server, task, calls, log>>

Accepts(p) ==
    LET s == p.to.slot IN
    /\ s \in Slot
    /\ OthersWait(s)
    /\ client'[s].n = client[s].n /\ client'[s].seq = client[s].seq
    /\ ~client'[s].waiting /\ client'[s].gave_up = client[s].gave_up
    /\ replies' = {q \in replies : q.to # p.to}
    /\ UNCHANGED <<server, task, calls, log>>

Admits(t) ==
    LET r == task[t].request
        s == r.slot IN
    /\ r \in Request
    /\ task[t].pc = "prepare" /\ ~Ended
    /\ r.seq = slots[s].sequence_id
    /\ OthersRun(t) /\ task'[t].pc = "execute" /\ task'[t].request = r
    /\ task'[t].conn = task[t].conn
    /\ slots' \in [Slot -> SlotState]
    /\ \A u \in Slot : u # s => slots'[u] = slots[u]
    /\ slots'[s].sequence_id = succ(slots[s].sequence_id)
    /\ slots'[s].in_progress = r /\ slots'[s].cached_reply = NoRequest
    /\ fore' \subseteq Conn
    /\ UNCHANGED <<session, lease, back, open, client, calls, replies, log>>

Executes(t) ==
    LET r == task[t].request IN
    /\ r \in Request
    /\ task[t].pc = "execute"
    /\ OthersRun(t) /\ task'[t].pc = "finish" /\ task'[t].request = r
    /\ task'[t].conn = task[t].conn
    /\ log' = Append(log, r)
    /\ UNCHANGED <<server, client, calls, replies>>

\* What a reply tells the client when it is sent.
Answers(p) ==
    /\ p \in Reply
    /\ client[p.to.slot].waiting /\ p.to = Current(p.to.slot)
    /\ p.status \notin {"Delay", "ConnNotBoundToSession"}
    /\ p.status = "StatusOnly" => lease = "revoked"
    /\ p.status = "BadSession" => session = "gone"

Finishes(t) ==
    LET r == task[t].request
        s == r.slot IN
    /\ r \in Request
    /\ task[t].pc = "finish"
    /\ OthersRun(t) /\ task'[t] = IdleTask
    /\ slots' \in [Slot -> SlotState]
    /\ \A u \in Slot : u # s => slots'[u] = slots[u]
    /\ slots'[s].sequence_id = slots[s].sequence_id
    /\ session = "live" => slots'[s].in_progress = NoRequest /\ slots'[s].cached_reply = r
    /\ session = "gone" => slots'[s] = slots[s]
    /\ \A p \in replies' : p \in replies \/ (Answers(p) /\ p.to = r /\ p.status = "Executed")
    /\ UNCHANGED <<session, lease, fore, back, open, client, calls, log>>

\* A reply to a request that is not admitted, as prepare_sequence words it.
Declines(t, p) ==
    LET r == task[t].request
        slot == slots[r.slot] IN
    /\ r \in Request
    /\ p.to = r
    /\ \/ p.status \in {"StatusOnly", "BadSession"}
       \/ /\ ~Ended /\ r.seq # slot.sequence_id
          /\ p.status = RetryStatus(slot, r)
          /\ task[t].pc = "prepare"

\* The slots, the requests at work and the log stay as they are.
Quiet ==
    /\ Wanes
    /\ UNCHANGED <<slots, client, log>>
    /\ fore' \subseteq Conn /\ back' \subseteq Conn /\ open' \subseteq Conn
    /\ calls' \subseteq Request
    /\ task' \in [Task -> TaskState] /\ TaskInv'
    /\ \A t \in Task : \/ task'[t] = task[t]
                       \/ /\ task[t].pc \in {"idle", "prepare"}
                          /\ task'[t].pc \in {"idle", "prepare"}
    /\ \A r \in Request : Near(r)' => Near(r)
    /\ \A p \in replies' : p \in replies \/ (Answers(p) /\ \E t \in Task : Declines(t, p))

LEMMA SendStep ==
    ASSUME Types, NEW s \in Slot, Send(s)
    PROVE  Sends(s)
<1> DEFINE c == client[s]
           r == [slot |-> s, n |-> c.n + 1, seq |-> succ(c.seq)]
           c2 == [c EXCEPT !.n = r.n, !.seq = r.seq, !.waiting = TRUE]
<1>1. /\ ~c.waiting /\ c.n < MaxRequests
      /\ \A old \in Lingering(s) : r.n - old.n < SeqSpace - 1
      /\ client' = [client EXCEPT ![s].n = r.n, ![s].seq = r.seq, ![s].waiting = TRUE]
      /\ calls' = calls \cup {r}
      /\ UNCHANGED <<server, task, replies, log>>
  BY ZenonT(30) DEF Send
<1>2. c \in ClientSlot /\ client \in [Slot -> ClientSlot]
  BY ZenonT(30) DEF Types, TypeOK
<1>3. succ(c.seq) \in SeqId /\ c.n + 1 \in 1..MaxRequests
  BY <1>1, <1>2, SuccPred, SessionsAssumption DEF ClientSlot
<1>4. r \in Request
  BY ZenonT(30), <1>3 DEF Request
<1>5. client' = [client EXCEPT ![s] = c2]
  BY ZenonT(30), <1>1, <1>2
<1>6. /\ c2 \in ClientSlot /\ c2.n = c.n + 1 /\ c2.seq = succ(c.seq) /\ c2.waiting
      /\ c2.gave_up = c.gave_up
  <2> DEFINE k == c.n + 1
             q == succ(c.seq)
  <2>1. k \in 0..MaxRequests /\ q \in SeqId
    BY <1>3
  <2>2. c2 = [c EXCEPT !.n = k, !.seq = q, !.waiting = TRUE]
    BY ZenonT(30)
  <2> HIDE DEF c2, k, q
  <2>3. c2 \in ClientSlot /\ c2.n = k /\ c2.seq = q /\ c2.waiting /\ c2.gave_up = c.gave_up
    BY ZenonT(30), <1>2, <2>1, <2>2 DEF ClientSlot
  <2> QED
    BY ZenonT(30), <2>3 DEF k, q
<1> HIDE DEF c2
<1>7. OthersWait(s) /\ client'[s] = c2
  BY ZenonT(30), <1>2, <1>5, <1>6 DEF OthersWait
<1>8. ASSUME NEW old \in Request, Near(old), old.slot = s
      PROVE  old \in Lingering(s)
  BY ZenonT(30), <1>1, <1>8, SessionsAssumption DEF Near, Lingering
<1> QED
  BY ZenonT(30), <1>1, <1>4, <1>6, <1>7, <1>8 DEF Sends

LEMMA AbandonStep ==
    ASSUME Types, NEW s \in Slot, Abandon(s)
    PROVE  Abandons(s)
<1> DEFINE c == client[s]
<1>1. PICK q \in {c.seq, pred(c.seq)} :
         client' = [client EXCEPT ![s].waiting = FALSE, ![s].seq = q, ![s].gave_up = TRUE]
  BY ZenonT(30) DEF Abandon
<1> DEFINE c2 == [c EXCEPT !.waiting = FALSE, !.seq = q, !.gave_up = TRUE]
<1>2. c \in ClientSlot /\ client \in [Slot -> ClientSlot]
  BY ZenonT(30) DEF Types, TypeOK
<1>3. q \in SeqId
  BY ZenonT(30), <1>2, SuccPred DEF ClientSlot
<1>4. client' = [client EXCEPT ![s] = c2]
  BY ZenonT(30), <1>1, <1>2
<1>5. c2 \in ClientSlot /\ c2.n = c.n /\ c2.seq = q /\ ~c2.waiting /\ c2.gave_up
  BY ZenonT(30), <1>2, <1>3 DEF ClientSlot
<1> HIDE DEF c2
<1>6. OthersWait(s) /\ client'[s] = c2
  BY ZenonT(30), <1>2, <1>4, <1>5 DEF OthersWait
<1> QED
  BY ZenonT(30), <1>5, <1>6 DEF Abandon, Abandons

LEMMA AcceptStep ==
    ASSUME Types, NEW p \in replies, Accept(p)
    PROVE  Accepts(p)
<1> DEFINE s == p.to.slot
           c == client[s]
           c2 == [c EXCEPT !.waiting = FALSE]
<1>1. s \in Slot
  BY ZenonT(30) DEF Types, TypeOK, Reply, Request
<1>2. c \in ClientSlot /\ client \in [Slot -> ClientSlot]
  BY ZenonT(30), <1>1 DEF Types, TypeOK
<1>3. client' = [client EXCEPT ![s] = c2]
  BY ZenonT(30), <1>2 DEF Accept
<1>4. /\ c2 \in ClientSlot /\ c2.n = c.n /\ c2.seq = c.seq /\ ~c2.waiting
      /\ c2.gave_up = c.gave_up
  BY ZenonT(30), <1>2 DEF ClientSlot
<1> HIDE DEF c2
<1>5. OthersWait(s) /\ client'[s] = c2
  BY ZenonT(30), <1>1, <1>2, <1>3, <1>4 DEF OthersWait
<1> QED
  BY ZenonT(30), <1>1, <1>4, <1>5 DEF Accept, Accepts

LEMMA IdleFacts ==
    /\ IdleTask \in TaskState /\ IdleTask.pc = "idle" /\ IdleTask.request = NoRequest
    /\ NoRequest \notin Request
BY ZenonT(30), SessionsAssumption DEF IdleTask, TaskState

\* A task that is set to a new state.
LEMMA TaskMoves ==
    ASSUME Types, NEW t \in Task, NEW q \in TaskState, task' = [task EXCEPT ![t] = q]
    PROVE  OthersRun(t) /\ task'[t] = q
BY ZenonT(30) DEF OthersRun, Types, TypeOK, TaskState

LEMMA TaskAdvances ==
    ASSUME Types, NEW t \in Task, NEW p \in {"execute", "finish"},
           task' = [task EXCEPT ![t].pc = p]
    PROVE  /\ OthersRun(t) /\ task'[t].pc = p
           /\ task'[t].request = task[t].request /\ task'[t].conn = task[t].conn
<1> DEFINE q == [task[t] EXCEPT !.pc = p]
<1>1. task[t] \in TaskState /\ task \in [Task -> TaskState]
  BY ZenonT(30) DEF Types, TypeOK, TaskState
<1>2. q \in TaskState /\ q.pc = p /\ q.request = task[t].request /\ q.conn = task[t].conn
  BY ZenonT(30), <1>1 DEF TaskState
<1>3. task' = [task EXCEPT ![t] = q]
  BY ZenonT(30), <1>1
<1> HIDE DEF q
<1> QED
  BY ZenonT(30), <1>2, <1>3, TaskMoves

LEMMA ExecuteStep ==
    ASSUME Types, NEW t \in Task, HandleCompound(t)
    PROVE  Executes(t)
<1>1. task[t].pc = "execute" /\ task[t].request \in Request
  BY ZenonT(30) DEF HandleCompound, Types, TaskInv
<1>2. /\ OthersRun(t) /\ task'[t].pc = "finish"
      /\ task'[t].request = task[t].request /\ task'[t].conn = task[t].conn
  BY ZenonT(30), TaskAdvances DEF HandleCompound
<1> QED
  BY ZenonT(30), <1>1, <1>2 DEF HandleCompound, Executes

\* Answer sends at most one reply, and only one the client waits for.
LEMMA AnswerReplies ==
    ASSUME NEW r \in Request, NEW st \in Status, NEW res \in Request \cup {NoRequest},
           Answer(r, st, res), NEW p \in replies', p \notin replies
    PROVE  /\ p \in Reply /\ p.to = r /\ p.status = st
           /\ client[r.slot].waiting /\ r = Current(r.slot)
           /\ st \notin {"Delay", "ConnNotBoundToSession"}
<1>1. /\ p = [to |-> r, status |-> st, result |-> res]
      /\ client[r.slot].waiting /\ r = Current(r.slot)
      /\ st \notin {"Delay", "ConnNotBoundToSession"}
  BY ZenonT(30) DEF Answer
<1> QED
  BY ZenonT(30), <1>1 DEF Reply

LEMMA FinishStep ==
    ASSUME Types, NEW t \in Task, FinishSequence(t)
    PROVE  Finishes(t)
<1> DEFINE r == task[t].request
           s == r.slot
           o == slots[s]
           o2 == [o EXCEPT !.in_progress = NoRequest, !.cached_reply = r]
<1>1. task[t].pc = "finish" /\ r \in Request
  BY ZenonT(30) DEF FinishSequence, Types, TaskInv
<1>2. OthersRun(t) /\ task'[t] = IdleTask
  BY ZenonT(30), TaskMoves, IdleFacts DEF FinishSequence
<1>3. s \in Slot /\ slots \in [Slot -> SlotState] /\ o \in SlotState
  BY ZenonT(30), <1>1 DEF Request, Types, TypeOK
<1>4. /\ o2 \in SlotState /\ o2.sequence_id = o.sequence_id
      /\ o2.in_progress = NoRequest /\ o2.cached_reply = r
  BY ZenonT(30), <1>1, <1>3 DEF SlotState
<1>5. session = "live" => slots' = [slots EXCEPT ![s] = o2]
  BY ZenonT(30), <1>3 DEF FinishSequence
<1>6. session = "gone" => slots' = slots
  BY ZenonT(30) DEF FinishSequence
<1> HIDE DEF o2
<1>7. /\ slots' \in [Slot -> SlotState]
      /\ \A u \in Slot : u # s => slots'[u] = slots[u]
      /\ slots'[s].sequence_id = slots[s].sequence_id
      /\ session = "live" => slots'[s].in_progress = NoRequest /\ slots'[s].cached_reply = r
      /\ session = "gone" => slots'[s] = slots[s]
  <2>1. CASE session = "live"
    BY ZenonT(30), <1>3, <1>4, <1>5, <2>1
  <2>2. CASE session = "gone"
    BY ZenonT(30), <1>3, <1>6, <2>2
  <2> QED
    BY ZenonT(30), <2>1, <2>2 DEF Types, TypeOK
<1>8. \A p \in replies' : p \in replies \/ (Answers(p) /\ p.to = r /\ p.status = "Executed")
  <2>1. Answer(r, "Executed", r) /\ "Executed" \in Status
    BY ZenonT(30) DEF FinishSequence, Status
  <2> SUFFICES ASSUME NEW p \in replies', p \notin replies
               PROVE  Answers(p) /\ p.to = r /\ p.status = "Executed"
    BY ZenonT(30)
  <2>2. /\ p \in Reply /\ p.to = r /\ p.status = "Executed"
        /\ client[r.slot].waiting /\ r = Current(r.slot)
    BY ZenonT(30), <1>1, <2>1, AnswerReplies
  <2> QED
    BY ZenonT(30), <2>2 DEF Answers
<1> QED
  BY ZenonT(30), <1>1, <1>2, <1>7, <1>8 DEF FinishSequence, Finishes

LEMMA PrepareStep ==
    ASSUME Types, NEW t \in Task, PrepareSequence(t)
    PROVE  Admits(t) \/ Quiet
<1> DEFINE r == task[t].request
           s == r.slot
           o == slots[s]
<1>1. task[t].pc = "prepare" /\ r \in Request /\ task[t].conn \in Conn
  BY ZenonT(30) DEF PrepareSequence, Types, TaskInv, TypeOK
<1>2. s \in Slot /\ slots \in [Slot -> SlotState] /\ o \in SlotState
  BY ZenonT(30), <1>1 DEF Request, Types, TypeOK
<1>3. UNCHANGED <<session, lease, back, open, client, calls, log>>
  BY ZenonT(30) DEF PrepareSequence
<1>4. \/ /\ \E st \in Status, res \in Request \cup {NoRequest} :
                /\ Answer(r, st, res)
                /\ \/ st \in {"StatusOnly", "BadSession", "ConnNotBoundToSession"}
                   \/ ~Ended /\ r.seq # o.sequence_id /\ st = RetryStatus(o, r)
                /\ st = "StatusOnly" => lease = "revoked"
                /\ st = "BadSession" => session = "gone"
         /\ task' = [task EXCEPT ![t] = IdleTask]
         /\ UNCHANGED slots
      \/ /\ ~Ended
         /\ r.seq = o.sequence_id
         /\ slots' = [slots EXCEPT ![s] = [sequence_id |-> succ(o.sequence_id),
                                          in_progress |-> r, cached_reply |-> NoRequest]]
         /\ task' = [task EXCEPT ![t].pc = "execute"]
         /\ UNCHANGED replies
  <2>1. RetryStatus(o, r) \in Status /\ RetryStatus(o, r) \notin {"StatusOnly", "BadSession"}
    BY ZenonT(30) DEF RetryStatus, Status
  <2>2. CASE session = "gone"
    BY ZenonT(30), <2>2 DEF PrepareSequence, Status
  <2>3. CASE session = "live" /\ BackOnly(task[t].conn)
    BY ZenonT(30), <2>3 DEF PrepareSequence, Status
  <2>4. CASE session = "live" /\ ~BackOnly(task[t].conn) /\ lease = "revoked"
    BY ZenonT(30), <2>4 DEF PrepareSequence, Status
  <2>5. CASE session = "live" /\ ~BackOnly(task[t].conn) /\ lease = "active"
    <3>1. Classify(t, r) /\ ~Ended
      BY ZenonT(30), <2>5 DEF PrepareSequence, Ended
    <3>2. CASE r.seq = o.sequence_id
      BY ZenonT(30), <3>1, <3>2 DEF Classify
    <3>3. CASE r.seq # o.sequence_id
      <4>1. /\ Answer(r, RetryStatus(o, r),
                      IF RetryStatus(o, r) = "Replay" THEN o.cached_reply ELSE NoRequest)
            /\ task' = [task EXCEPT ![t] = IdleTask]
            /\ UNCHANGED slots
        BY ZenonT(30), <3>1, <3>3 DEF Classify
      <4>2. (IF RetryStatus(o, r) = "Replay" THEN o.cached_reply ELSE NoRequest)
              \in Request \cup {NoRequest}
        BY ZenonT(30), <1>2 DEF SlotState
      <4> QED
        BY ZenonT(30), <2>1, <3>1, <3>3, <4>1, <4>2
    <3> QED
      BY ZenonT(30), <3>2, <3>3
  <2> QED
    BY ZenonT(30), <2>2, <2>3, <2>4, <2>5 DEF Types, TypeOK
<1>5. fore' \subseteq Conn
  <2>1. fore' = fore \/ fore' = fore \cup {task[t].conn}
    BY ZenonT(30) DEF PrepareSequence, Types, TypeOK
  <2> QED
    BY ZenonT(30), <1>1, <2>1 DEF Types, TypeOK
<1>6. ASSUME NEW st \in Status, NEW res \in Request \cup {NoRequest}, Answer(r, st, res),
             \/ st \in {"StatusOnly", "BadSession", "ConnNotBoundToSession"}
             \/ ~Ended /\ r.seq # o.sequence_id /\ st = RetryStatus(o, r),
             st = "StatusOnly" => lease = "revoked",
             st = "BadSession" => session = "gone",
             task' = [task EXCEPT ![t] = IdleTask],
             UNCHANGED slots
      PROVE  Quiet
  <2>1. OthersRun(t) /\ task'[t] = IdleTask
    BY ZenonT(30), <1>6, TaskMoves, IdleFacts
  <2>2. task' \in [Task -> TaskState] /\ TaskInv'
    BY ZenonT(30), <2>1, IdleFacts DEF OthersRun, TaskInv, Types
  <2>3. \A u \in Task : \/ task'[u] = task[u]
                        \/ /\ task[u].pc \in {"idle", "prepare"}
                           /\ task'[u].pc \in {"idle", "prepare"}
    BY ZenonT(30), <1>1, <2>1, IdleFacts DEF OthersRun
  <2>4. \A q \in Request : Near(q)' => Near(q)
    BY ZenonT(30), <1>3, <2>1, IdleFacts DEF Near, Current, OthersRun
  <2>5. ASSUME NEW p \in replies', p \notin replies
        PROVE  Answers(p) /\ Declines(t, p)
    <3>1. /\ p \in Reply /\ p.to = r /\ p.status = st
          /\ client[r.slot].waiting /\ r = Current(r.slot)
          /\ st \notin {"Delay", "ConnNotBoundToSession"}
      BY ZenonT(30), <1>1, <1>6, <2>5, AnswerReplies
    <3> QED
      BY ZenonT(30), <1>1, <1>6, <3>1 DEF Answers, Declines
  <2>6. Wanes /\ back' \subseteq Conn /\ open' \subseteq Conn /\ calls' \subseteq Request
    BY ZenonT(30), <1>3 DEF Wanes, Types, TypeOK
  <2> QED
    BY ZenonT(30), <1>3, <1>5, <1>6, <2>2, <2>3, <2>4, <2>5, <2>6 DEF Quiet
<1>7. ASSUME ~Ended, r.seq = o.sequence_id,
             slots' = [slots EXCEPT ![s] = [sequence_id |-> succ(o.sequence_id),
                                            in_progress |-> r, cached_reply |-> NoRequest]],
             task' = [task EXCEPT ![t].pc = "execute"],
             UNCHANGED replies
      PROVE  Admits(t)
  <2> DEFINE o2 == [sequence_id |-> succ(o.sequence_id), in_progress |-> r,
                    cached_reply |-> NoRequest]
  <2>1. succ(o.sequence_id) \in SeqId
    BY ZenonT(30), <1>2, SuccPred DEF SlotState
  <2>2. /\ o2 \in SlotState /\ o2.sequence_id = succ(o.sequence_id) /\ o2.in_progress = r
        /\ o2.cached_reply = NoRequest
    BY ZenonT(30), <1>1, <2>1 DEF SlotState
  <2>3. slots' = [slots EXCEPT ![s] = o2]
    BY ZenonT(30), <1>7
  <2> HIDE DEF o2
  <2>4. /\ slots' \in [Slot -> SlotState] /\ slots'[s] = o2
        /\ \A u \in Slot : u # s => slots'[u] = slots[u]
    BY ZenonT(30), <1>2, <2>2, <2>3
  <2>5. /\ OthersRun(t) /\ task'[t].pc = "execute" /\ task'[t].request = r
        /\ task'[t].conn = task[t].conn
    BY ZenonT(30), <1>7, TaskAdvances
  <2> QED
    BY ZenonT(30), <1>1, <1>3, <1>5, <1>7, <2>2, <2>4, <2>5 DEF Admits
<1> QED
  BY ZenonT(30), <1>4, <1>6, <1>7

\* What the network, the connections and the end of the session do.
LEMMA QuietStep ==
    ASSUME Types, UNCHANGED <<slots, client, log>>, Wanes,
           fore' \subseteq Conn, back' \subseteq Conn, open' \subseteq Conn,
           replies' \subseteq replies,
           \/ task' = task /\ \A r \in calls' : r \in calls
                                \/ \E s \in Slot : client[s].waiting /\ r = Current(s)
           \/ \E t \in Task, r \in calls, c \in Conn : Receive(t, r, c)
    PROVE  Quiet
<1>1. CASE task' = task /\ \A r \in calls' : r \in calls
                                \/ \E s \in Slot : client[s].waiting /\ r = Current(s)
  <2>1. \A s \in Slot : client[s].waiting => Current(s) \in Request /\ Current(s).slot = s
    BY ZenonT(30), CurrentIsRequest DEF Types, WaitInv
  <2>2. calls' \subseteq Request /\ \A r \in calls' : Near(r)
    BY ZenonT(30), <1>1, <2>1 DEF Near, Types, TypeOK
  <2>3. \A r \in Request : Near(r)' => Near(r)
    BY ZenonT(30), <1>1, <2>2 DEF Near, Current
  <2>4. task' \in [Task -> TaskState] /\ TaskInv'
    BY ZenonT(30), <1>1 DEF TaskInv, TaskState, Types, TypeOK
  <2> QED
    BY ZenonT(30), <1>1, <2>2, <2>3, <2>4 DEF Quiet
<1>2. ASSUME NEW t \in Task, NEW r \in calls, NEW c \in Conn, Receive(t, r, c)
      PROVE  Quiet
  <2> DEFINE q == [pc |-> "prepare", request |-> r, conn |-> c]
  <2>1. r \in Request /\ task[t].pc = "idle" /\ UNCHANGED calls
    BY ZenonT(30), <1>2 DEF Receive, Types, TypeOK
  <2>2. q \in TaskState /\ q.pc = "prepare" /\ q.request = r /\ q.conn = c
    BY ZenonT(30), <2>1 DEF TaskState
  <2>3. task' = [task EXCEPT ![t] = q]
    BY ZenonT(30), <1>2 DEF Receive
  <2> HIDE DEF q
  <2>4. OthersRun(t) /\ task'[t] = q
    BY ZenonT(30), <2>2, <2>3, TaskMoves
  <2>5. task' \in [Task -> TaskState] /\ TaskInv'
    BY ZenonT(30), <2>1, <2>2, <2>4 DEF TaskInv, OthersRun, Types
  <2>6. \A k \in Request : Near(k)' => Near(k)
    BY ZenonT(30), <2>1, <2>2, <2>4 DEF Near, Current, OthersRun
  <2>7. \A u \in Task : \/ task'[u] = task[u]
                        \/ /\ task[u].pc \in {"idle", "prepare"}
                           /\ task'[u].pc \in {"idle", "prepare"}
    BY ZenonT(30), <2>1, <2>2, <2>4 DEF OthersRun
  <2>8. calls' \subseteq Request
    BY ZenonT(30), <2>1 DEF Types, TypeOK
  <2> QED
    BY ZenonT(30), <2>5, <2>6, <2>7, <2>8 DEF Quiet
<1> QED
  BY ZenonT(30), <1>1, <1>2

\* Every step is of one of seven kinds.
LEMMA StepKinds ==
    ASSUME Types, [Next]_vars
    PROVE  \/ Quiet
           \/ \E s \in Slot : Sends(s) \/ Abandons(s)
           \/ \E p \in replies : Accepts(p)
           \/ \E t \in Task : Admits(t) \/ Executes(t) \/ Finishes(t)
<1>1. CASE UNCHANGED vars
  BY ZenonT(30), <1>1, QuietStep DEF vars, server, Wanes, Types, TypeOK
<1>2. ASSUME NEW s \in Slot, Client(s)
      PROVE  Quiet \/ Sends(s) \/ Abandons(s)
  <2>1. CASE Retransmit(s)
    BY ZenonT(30), <2>1, QuietStep DEF Retransmit, server, Wanes, Types, TypeOK
  <2> QED
    BY ZenonT(30), <1>2, <2>1, SendStep, AbandonStep DEF Client
<1>3. ASSUME NEW r \in calls, LoseCall(r)
      PROVE  Quiet
  BY ZenonT(30), <1>3, QuietStep DEF LoseCall, server, Wanes, Types, TypeOK
<1>4. ASSUME NEW p \in replies, LoseReply(p)
      PROVE  Quiet
  BY ZenonT(30), <1>4, QuietStep DEF LoseReply, server, Wanes, Types, TypeOK
<1>5. ASSUME NEW t \in Task, NEW r \in calls, NEW c \in Conn, Receive(t, r, c)
      PROVE  Quiet
  <2>1. UNCHANGED <<server, client, replies, log>>
    BY ZenonT(30), <1>5 DEF Receive
  <2> QED
    BY ZenonT(30), <1>5, <2>1, QuietStep DEF server, Wanes, Types, TypeOK
<1>6. ASSUME NEW t \in Task, Serve(t)
      PROVE  Quiet \/ Admits(t) \/ Executes(t) \/ Finishes(t)
  BY ZenonT(30), <1>6, PrepareStep, ExecuteStep, FinishStep DEF Serve
<1>7. ASSUME NEW c \in Conn, DestroySession(c) \/ RemoveConnection(c) \/ Accepted(c)
      PROVE  Quiet
  <2>1. UNCHANGED <<slots, task, client, calls, replies, log>>
    BY ZenonT(30), <1>7 DEF DestroySession, RemoveConnection, Accepted
  <2>2. Wanes /\ fore' \subseteq Conn /\ back' \subseteq Conn /\ open' \subseteq Conn
    BY ZenonT(30), <1>7 DEF DestroySession, RemoveConnection, Accepted, Wanes, Types, TypeOK
  <2> QED
    BY ZenonT(30), <2>1, <2>2, QuietStep
<1>8. ASSUME NEW c \in Conn, NEW dir \in Direction, BindConnToSession(c, dir)
      PROVE  Quiet
  <2>1. UNCHANGED <<session, lease, slots, open, task, client, calls, replies, log>>
    BY ZenonT(30), <1>8 DEF BindConnToSession
  <2>2. fore' \subseteq Conn /\ back' \subseteq Conn
    BY ZenonT(30), <1>8 DEF BindConnToSession, Types, TypeOK
  <2> QED
    BY ZenonT(30), <2>1, <2>2, QuietStep DEF Wanes, Types, TypeOK
<1>9. CASE DropClient
  BY ZenonT(30), <1>9, QuietStep DEF DropClient, Wanes, Types, TypeOK
<1>10. CASE RevokeLease
  BY ZenonT(30), <1>10, QuietStep DEF RevokeLease, Wanes, Types, TypeOK
<1> QED
  BY ZenonT(30), <1>1, <1>2, <1>3, <1>4, <1>5, <1>6, <1>7, <1>8, <1>9, <1>10, AcceptStep DEF Next

-----------------------------------------------------------------------------
(* The inductive invariant.                                                 *)

\* No copy that is still about is a whole round of sequence ids behind.
Window ==
    \A r \in Request : Near(r) =>
      r.n <= client[r.slot].n /\ client[r.slot].n - r.n <= SeqSpace - 2

\* Sequence ids do not run ahead of the requests; they may fall behind, when a call
\* is given up and its sequence id used again.
Order ==
    \A r, q \in Request : Near(r) /\ Near(q) /\ r.slot = q.slot /\ r.n <= q.n =>
      Dist(r.seq, q.seq) <= q.n - r.n

\* ... and so will the next request's.
NextOrder ==
    \A r \in Request : Near(r) /\ ~client[r.slot].waiting =>
      Dist(r.seq, succ(client[r.slot].seq)) <= client[r.slot].n + 1 - r.n

\* A slot has moved past what it admitted, and not all the way round.
Past ==
    \A r \in Request : Near(r) /\ Admitted(r) =>
      /\ Dist(r.seq, slots[r.slot].sequence_id) >= 1
      /\ Dist(r.seq, slots[r.slot].sequence_id) <= client[r.slot].n - r.n + 1

LogOld == \A r \in Request : r \in Range(log) => r.n <= client[r.slot].n

\* One task works on a request, and executes it before it is in the log.
Once ==
    /\ \A t, u \in Task, r \in Request : Busy(t, r) /\ Busy(u, r) => t = u
    /\ \A t \in Task : /\ task[t].pc = "execute" => task[t].request \notin Range(log)
                       /\ task[t].pc = "finish" => task[t].request \in Range(log)

Done(r) == r \in Range(log) /\ \A t \in Task : ~Busy(t, r)

SlotInv ==
    \A s \in Slot :
      /\ slots[s].in_progress # NoRequest =>
           slots[s].in_progress.slot = s /\ slots[s].cached_reply = NoRequest
      /\ slots[s].cached_reply # NoRequest => Done(slots[s].cached_reply)

RepliesInv ==
    \A p \in replies :
      /\ Answers(p)
      /\ p.status \in {"Executed", "Replay"} => Done(p.to)

-----------------------------------------------------------------------------
(* ... and what more holds on a slot on which no call was given up.         *)

\* Sequence ids keep step with the requests.
InStep ==
    \A r \in Request : Near(r) /\ ~client[r.slot].gave_up =>
      Dist(r.seq, client[r.slot].seq) = client[r.slot].n - r.n

\* The server expects the client's current request, or has admitted it and expects
\* the next one; what it works on is the current request.
Expects(s) ==
    /\ IF client[s].waiting /\ ~Admitted(Current(s))
       THEN slots[s].sequence_id = client[s].seq
       ELSE slots[s].sequence_id = succ(client[s].seq)
    /\ \A t \in Task, r \in Request : Busy(t, r) /\ r.slot = s =>
         client[s].waiting /\ r = Current(s)

\* The slot holds the request it has admitted, or its reply.
Holds(s) ==
    client[s].waiting /\ Admitted(Current(s)) =>
      /\ \A t \in Task, r \in Request : Busy(t, r) /\ r.slot = s => r = Current(s)
      /\ session = "live" => Current(s) \in {slots[s].in_progress, slots[s].cached_reply}

Straight ==
    \A s \in Slot : ~client[s].gave_up => (~Ended => Expects(s)) /\ Holds(s)

Inv ==
    /\ Types /\ Window /\ Order /\ NextOrder /\ Past /\ LogOld /\ Once /\ AtMostOnce
    /\ SlotInv /\ RepliesInv /\ BusySlotIsServed /\ InStep /\ Straight /\ NoSequencingError

-----------------------------------------------------------------------------
(* How the steps move requests.                                             *)

LEMMA TypesInit == Init => Types
<1> SUFFICES ASSUME Init PROVE Types
  BY ZenonT(30)
<1>1. 1 \in SeqId /\ 0 \in SeqId /\ 0 \in 0..MaxRequests
  BY SessionsAssumption DEF SeqId
<1>2. slots \in [Slot -> SlotState]
  BY ZenonT(30), <1>1 DEF Init, SlotState
<1>3. client \in [Slot -> ClientSlot]
  BY ZenonT(30), <1>1 DEF Init, ClientSlot
<1>4. task \in [Task -> TaskState] /\ TaskInv /\ WaitInv
  BY ZenonT(30), IdleFacts DEF Init, TaskInv, WaitInv
<1>5. fore \subseteq Conn /\ back \subseteq Conn /\ open \subseteq Conn
  BY DEF Init
<1> QED
  BY <1>2, <1>3, <1>4, <1>5 DEF Init, Types, TypeOK, TaskState

LEMMA TypesNext ==
    ASSUME Types, [Next]_vars
    PROVE  Types'
<1>1. CASE Quiet
  BY ZenonT(30), <1>1 DEF Quiet, Wanes, Answers, Types, TypeOK, TaskState, WaitInv
<1>2. ASSUME NEW s \in Slot, Sends(s) \/ Abandons(s)
      PROVE  Types'
  <2>1. client' \in [Slot -> ClientSlot] /\ WaitInv'
    <3>1. client[s].n \in Nat
      BY DEF Types, TypeOK, ClientSlot
    <3> QED
      BY <1>2, <3>1 DEF Sends, Abandons, OthersWait, Types, WaitInv
  <2>2. calls' \subseteq Request /\ replies' \subseteq replies
    BY ZenonT(30), <1>2 DEF Sends, Abandons, Types, TypeOK
  <2>3. UNCHANGED <<server, task, log>>
    BY ZenonT(30), <1>2 DEF Sends, Abandons
  <2> QED
    BY ZenonT(30), <2>1, <2>2, <2>3 DEF server, Types, TypeOK, TaskInv
<1>3. ASSUME NEW p \in replies, Accepts(p)
      PROVE  Types'
  BY ZenonT(30), <1>3 DEF Accepts, OthersWait, server, Types, TypeOK, TaskInv, WaitInv
<1>4. ASSUME NEW t \in Task, Admits(t)
      PROVE  Types'
  <2>1. task' \in [Task -> TaskState] /\ TaskInv'
    BY ZenonT(30), <1>4 DEF Admits, OthersRun, Types, TaskInv
  <2> QED
    BY ZenonT(30), <1>4, <2>1 DEF Admits, Types, TypeOK, TaskState, WaitInv
<1>5. ASSUME NEW t \in Task, Executes(t)
      PROVE  Types'
  <2>1. task' \in [Task -> TaskState] /\ TaskInv'
    BY ZenonT(30), <1>5 DEF Executes, OthersRun, Types, TaskInv
  <2>2. log' \in Seq(Request)
    BY ZenonT(30), <1>5, AppendRange DEF Executes, Types, TypeOK
  <2> QED
    BY ZenonT(30), <1>5, <2>1, <2>2 DEF Executes, server, Types, TypeOK, TaskState, WaitInv
<1>6. ASSUME NEW t \in Task, Finishes(t)
      PROVE  Types'
  <2>1. task' \in [Task -> TaskState] /\ TaskInv'
    BY ZenonT(30), <1>6, IdleFacts DEF Finishes, OthersRun, Types, TaskInv
  <2>2. replies' \subseteq Reply
    BY ZenonT(30), <1>6 DEF Finishes, Answers, Types, TypeOK
  <2> QED
    BY ZenonT(30), <1>6, <2>1, <2>2 DEF Finishes, Types, TypeOK, TaskState, WaitInv
<1> QED
  BY ZenonT(30), <1>1, <1>2, <1>3, <1>4, <1>5, <1>6, StepKinds

LEMMA BusyIsNear ==
    ASSUME NEW r \in Request, NEW t \in Task, Busy(t, r)
    PROVE  Near(r)
BY ZenonT(30) DEF Busy, Near

\* Quiet steps leave the requests at work alone.
LEMMA QuietMoves ==
    ASSUME Types, Quiet
    PROVE  /\ client' = client /\ slots' = slots /\ log' = log
           /\ \A r \in Request : Near(r)' => Near(r)
           /\ \A r \in Request, t \in Task : Busy(t, r)' <=> Busy(t, r)
           /\ \A r \in Request : Admitted(r)' <=> Admitted(r)
           /\ \A r \in Request : Done(r)' <=> Done(r)
<1>1. client' = client /\ slots' = slots /\ log' = log
  BY ZenonT(30) DEF Quiet
<1>2. \A r \in Request : Near(r)' => Near(r)
  BY ZenonT(30) DEF Quiet
<1>3. \A r \in Request, t \in Task : Busy(t, r)' <=> Busy(t, r)
  BY ZenonT(30) DEF Quiet, Busy
<1> QED
  BY ZenonT(30), <1>1, <1>2, <1>3 DEF Admitted, Done

LEMMA SendMoves ==
    ASSUME Types, Window, LogOld, NEW s \in Slot, Sends(s)
    PROVE  \E r \in Request :
             /\ r.slot = s /\ r.n = client[s].n + 1 /\ r.seq = succ(client[s].seq)
             /\ r = Current(s)'
             /\ ~Admitted(r)
             /\ \A q \in Request : Near(q)' => Near(q) \/ q = r
             /\ \A q \in Request, t \in Task : Busy(t, q)' <=> Busy(t, q)
             /\ \A q \in Request : Admitted(q)' <=> Admitted(q)
             /\ \A q \in Request : Done(q)' <=> Done(q)
             /\ \A q \in Request : Near(q) /\ q.slot = s => r.n - q.n < SeqSpace - 1
<1> DEFINE r == [slot |-> s, n |-> client[s].n + 1, seq |-> succ(client[s].seq)]
<1>1. /\ r \in Request
      /\ r.slot = s /\ r.n = client[s].n + 1 /\ r.seq = succ(client[s].seq)
      /\ \A q \in Request : Near(q) /\ q.slot = s => r.n - q.n < SeqSpace - 1
      /\ calls' = calls \cup {r}
      /\ UNCHANGED <<task, log, slots>>
  BY ZenonT(30) DEF Sends, server
<1>2. r = Current(s)'
  BY ZenonT(30) DEF Sends, Current
<1>3. \A u \in Slot : u # s => client'[u] = client[u]
  BY ZenonT(30) DEF Sends, OthersWait
<1> HIDE DEF r
<1>4. \A q \in Request : Near(q)' => Near(q) \/ q = r
  <2> SUFFICES ASSUME NEW q \in Request, Near(q)', q # r
               PROVE  Near(q)
    BY ZenonT(30)
  <2>1. q.slot \in Slot
    BY ZenonT(30) DEF Request
  <2>2. CASE q \in calls' \/ \E t \in Task : task'[t].request = q
    BY ZenonT(30), <1>1, <2>2 DEF Near
  <2>3. CASE client'[q.slot].waiting /\ q = Current(q.slot)'
    <3>1. q.slot # s
      BY ZenonT(30), <1>2, <2>3
    <3> QED
      BY ZenonT(30), <1>3, <2>1, <2>3, <3>1 DEF Near, Current
  <2> QED
    BY ZenonT(30), <2>2, <2>3 DEF Near
<1>5. /\ \A q \in Request, t \in Task : Busy(t, q)' <=> Busy(t, q)
      /\ \A q \in Request : Admitted(q)' <=> Admitted(q)
      /\ \A q \in Request : Done(q)' <=> Done(q)
  BY ZenonT(30), <1>1 DEF Busy, Admitted, Done
<1>6. ~Admitted(r)
  <2>1. client[s].n \in Nat
    BY DEF Types, TypeOK, ClientSlot
  <2>2. ~(r.n <= client[s].n)
    BY <1>1, <2>1
  <2> QED
    BY ZenonT(30), <1>1, <2>2, BusyIsNear DEF Admitted, LogOld, Window
<1> QED
  BY ZenonT(30), <1>1, <1>2, <1>4, <1>5, <1>6

\* The slot of the client comes to rest: its call was answered or given up.
Rests(s) ==
    /\ OthersWait(s)
    /\ client[s].waiting
    /\ client'[s].n = client[s].n /\ ~client'[s].waiting
    /\ client'[s].seq \in {client[s].seq, pred(client[s].seq)}
    /\ UNCHANGED <<server, task, calls, log>>

LEMMA RestMoves ==
    ASSUME Types, NEW s \in Slot, Rests(s)
    PROVE  /\ slots' = slots
           /\ \A q \in Request : Near(q)' => Near(q)
           /\ \A q \in Request, t \in Task : Busy(t, q)' <=> Busy(t, q)
           /\ \A q \in Request : Admitted(q)' <=> Admitted(q)
           /\ \A q \in Request : Done(q)' <=> Done(q)
<1>1. UNCHANGED <<slots, task, calls, log>>
  BY ZenonT(30) DEF Rests, server
<1>2. \A q \in Request : Near(q)' => Near(q)
  <2> SUFFICES ASSUME NEW q \in Request, Near(q)'
               PROVE  Near(q)
    BY ZenonT(30)
  <2>1. q.slot \in Slot
    BY ZenonT(30) DEF Request
  <2>2. CASE client'[q.slot].waiting /\ q = Current(q.slot)'
    <3>1. q.slot # s
      BY ZenonT(30), <2>2 DEF Rests
    <3> QED
      BY ZenonT(30), <2>1, <2>2, <3>1 DEF Near, Current, Rests, OthersWait
  <2> QED
    BY ZenonT(30), <1>1, <2>2 DEF Near
<1> QED
  BY ZenonT(30), <1>1, <1>2 DEF Busy, Admitted, Done

LEMMA AdmitMoves ==
    ASSUME Types, Past, NEW t \in Task, Admits(t)
    PROVE  \E r \in Request :
             /\ r = task[t].request
             /\ Near(r) /\ ~Admitted(r)
             /\ r.seq = slots[r.slot].sequence_id
             /\ \A q \in Request : Near(q)' => Near(q)
             /\ \A q \in Request, u \in Task : Busy(u, q)' <=> Busy(u, q) \/ (u = t /\ q = r)
             /\ \A q \in Request : Admitted(q)' <=> Admitted(q) \/ q = r
             /\ \A q \in Request : Done(q) => Done(q)'
<1> DEFINE r == task[t].request
<1>1. /\ r \in Request /\ task[t].pc = "prepare" /\ r.seq = slots[r.slot].sequence_id
      /\ task'[t].pc = "execute" /\ task'[t].request = r
      /\ \A u \in Task : u # t => task'[u] = task[u]
      /\ UNCHANGED <<client, calls, log>>
  BY ZenonT(30) DEF Admits, OthersRun
<1>2. Near(r)
  BY ZenonT(30) DEF Near
<1> HIDE DEF r
<1>3. ~Admitted(r)
  <2>1. r.seq \in SeqId /\ r.slot \in Slot
    BY ZenonT(30), <1>1 DEF Request
  <2>2. slots[r.slot].sequence_id \in SeqId
    BY ZenonT(30), <2>1 DEF Types, TypeOK, SlotState
  <2>3. Dist(r.seq, slots[r.slot].sequence_id) = 0
    BY ZenonT(30), <1>1, <2>1, <2>2, DistFacts
  <2> QED
    BY <1>1, <1>2, <2>3 DEF Past
<1>4. \A q \in Request : Near(q)' => Near(q)
  BY ZenonT(30), <1>1 DEF Near, Current, r
<1>5. \A q \in Request, u \in Task : Busy(u, q)' <=> Busy(u, q) \/ (u = t /\ q = r)
  BY ZenonT(30), <1>1 DEF Busy
<1>6. \A q \in Request : Admitted(q)' <=> Admitted(q) \/ q = r
  BY ZenonT(30), <1>1, <1>5 DEF Admitted
<1>7. \A q \in Request : Done(q) => Done(q)'
  BY ZenonT(30), <1>1, <1>3, <1>5 DEF Admitted, Done
<1> QED
  BY ZenonT(30), <1>1, <1>2, <1>3, <1>4, <1>5, <1>6, <1>7 DEF r

LEMMA ExecuteMoves ==
    ASSUME Types, NEW t \in Task, Executes(t)
    PROVE  \E r \in Request :
             /\ r = task[t].request /\ Busy(t, r)
             /\ client' = client /\ slots' = slots
             /\ \A q \in Request : Near(q)' => Near(q)
             /\ \A q \in Request, u \in Task : Busy(u, q)' <=> Busy(u, q)
             /\ \A q \in Request : q \in Range(log') <=> q \in Range(log) \/ q = r
             /\ \A q \in Request : Admitted(q)' <=> Admitted(q)
             /\ \A q \in Request : Done(q) => Done(q)'
<1> DEFINE r == task[t].request
<1>1. /\ r \in Request /\ task[t].pc = "execute"
      /\ task'[t].pc = "finish" /\ task'[t].request = r
      /\ \A u \in Task : u # t => task'[u] = task[u]
      /\ log' = Append(log, r)
      /\ UNCHANGED <<client, calls, slots>>
  BY ZenonT(30) DEF Executes, OthersRun, server
<1>2. Busy(t, r)
  BY ZenonT(30), <1>1 DEF Busy
<1> HIDE DEF r
<1>3. \A q \in Request : q \in Range(log') <=> q \in Range(log) \/ q = r
  BY ZenonT(30), <1>1, AppendRange DEF Types, TypeOK
<1>4. \A q \in Request : Near(q)' => Near(q)
  BY ZenonT(30), <1>1 DEF Near, Current, r
<1>5. \A q \in Request, u \in Task : Busy(u, q)' <=> Busy(u, q)
  BY ZenonT(30), <1>1 DEF Busy, r
<1>6. \A q \in Request : Admitted(q)' <=> Admitted(q)
  BY ZenonT(30), <1>2, <1>3, <1>5 DEF Admitted
<1>7. \A q \in Request : Done(q) => Done(q)'
  BY ZenonT(30), <1>3, <1>5 DEF Done
<1> QED
  BY ZenonT(30), <1>1, <1>2, <1>3, <1>4, <1>5, <1>6, <1>7 DEF r

LEMMA FinishMoves ==
    ASSUME Types, Once, NEW t \in Task, Finishes(t)
    PROVE  \E r \in Request :
             /\ r = task[t].request /\ Busy(t, r)
             /\ client' = client /\ log' = log
             /\ \A s \in Slot : slots'[s].sequence_id = slots[s].sequence_id
             /\ \A q \in Request : Near(q)' => Near(q)
             /\ \A q \in Request, u \in Task : Busy(u, q)' <=> Busy(u, q) /\ u # t
             /\ \A q \in Request : Admitted(q)' <=> Admitted(q)
             /\ \A q \in Request : Done(q) => Done(q)'
             /\ \A q \in Request : q = r => Done(q)'
<1> DEFINE r == task[t].request
<1>1. /\ r \in Request /\ task[t].pc = "finish"
      /\ task'[t] = IdleTask
      /\ \A u \in Task : u # t => task'[u] = task[u]
      /\ UNCHANGED <<client, calls, log>>
  BY ZenonT(30) DEF Finishes, OthersRun
<1>2. Busy(t, r) /\ r \in Range(log)
  BY ZenonT(30), <1>1 DEF Busy, Once
<1>3. \A s \in Slot : slots'[s].sequence_id = slots[s].sequence_id
  BY ZenonT(30) DEF Finishes
<1> HIDE DEF r
<1>4. \A q \in Request : Near(q)' => Near(q)
  BY ZenonT(30), <1>1, IdleFacts DEF Near, Current
<1>5. \A q \in Request, u \in Task : Busy(u, q)' <=> Busy(u, q) /\ u # t
  BY ZenonT(30), <1>1, IdleFacts DEF Busy
<1>6. \A q \in Request : Admitted(q)' <=> Admitted(q)
  BY <1>1, <1>2, <1>5 DEF Admitted, Busy, r
<1>7. \A q \in Request : Done(q) => Done(q)'
  BY ZenonT(30), <1>1, <1>5 DEF Done
<1>8. r \in Range(log') /\ \A u \in Task : Busy(u, r) => u = t
  BY ZenonT(30), <1>1, <1>2 DEF Once
<1>9. \A q \in Request : q = r => Done(q)'
  BY ZenonT(30), <1>5, <1>8 DEF Done
<1> QED
  BY ZenonT(30), <1>1, <1>2, <1>3, <1>4, <1>5, <1>6, <1>7, <1>9 DEF r

-----------------------------------------------------------------------------
(* Sequence ids stay within the window: a request is admitted once.         *)

Ordered == Window /\ Order /\ NextOrder /\ Past

LEMMA RequestTypes ==
    ASSUME Types, NEW r \in Request
    PROVE  /\ r.slot \in Slot /\ r.n \in Nat /\ r.n # 0 /\ r.seq \in SeqId
           /\ client[r.slot].n \in Nat /\ client[r.slot].seq \in SeqId
           /\ succ(client[r.slot].seq) \in SeqId
           /\ slots[r.slot].sequence_id \in SeqId
           /\ SeqSpace \in Nat /\ SeqSpace > 2
<1>1. r.slot \in Slot /\ r.n \in Nat /\ r.n # 0 /\ r.seq \in SeqId
  BY DEF Request
<1>2. client[r.slot] \in ClientSlot /\ slots[r.slot] \in SlotState
  BY ZenonT(30), <1>1 DEF Types, TypeOK
<1> QED
  BY <1>1, <1>2, SuccPred, SessionsAssumption DEF ClientSlot, SlotState

\* Steps that move neither the client nor a sequence id.
LEMMA OrderedTame ==
    ASSUME Types, Ordered, client' = client,
           \A s \in Slot : slots'[s].sequence_id = slots[s].sequence_id,
           \A r \in Request : Near(r)' => Near(r),
           \A r \in Request : Admitted(r)' => Admitted(r)
    PROVE  Ordered'
<1>1. \A r \in Request : r.slot \in Slot
  BY ZenonT(30) DEF Request
<1>2. Window'
  BY ZenonT(30) DEF Ordered, Window
<1>3. Order'
  BY ZenonT(30) DEF Ordered, Order
<1>4. NextOrder'
  BY ZenonT(30) DEF Ordered, NextOrder
<1>5. Past'
  BY ZenonT(30), <1>1 DEF Ordered, Past
<1> QED
  BY ZenonT(30), <1>2, <1>3, <1>4, <1>5 DEF Ordered

LEMMA OrderedSend ==
    ASSUME Types, Ordered, LogOld, NEW s \in Slot, Sends(s)
    PROVE  Ordered'
<1>1. PICK r \in Request :
         /\ r.slot = s /\ r.n = client[s].n + 1 /\ r.seq = succ(client[s].seq)
         /\ r = Current(s)'
         /\ ~Admitted(r)
         /\ \A q \in Request : Near(q)' => Near(q) \/ q = r
         /\ \A q \in Request, t \in Task : Busy(t, q)' <=> Busy(t, q)
         /\ \A q \in Request : Admitted(q)' <=> Admitted(q)
         /\ \A q \in Request : Done(q)' <=> Done(q)
         /\ \A q \in Request : Near(q) /\ q.slot = s => r.n - q.n < SeqSpace - 1
  BY ZenonT(30), SendMoves DEF Ordered
<1>2. /\ ~client[s].waiting /\ client'[s].n = r.n /\ client'[s].seq = r.seq /\ client'[s].waiting
      /\ \A u \in Slot : u # s => client'[u] = client[u]
      /\ slots' = slots
  BY ZenonT(30), <1>1 DEF Sends, OthersWait, server
<1>3. Window'
  <2> SUFFICES ASSUME NEW q \in Request, Near(q)'
               PROVE  q.n <= client'[q.slot].n /\ client'[q.slot].n - q.n <= SeqSpace - 2
    BY ZenonT(30) DEF Window
  <2>1. CASE q = r
    BY <1>1, <1>2, <2>1, RequestTypes
  <2>2. CASE q # r /\ q.slot # s
    BY ZenonT(30), <1>1, <1>2, <2>2, RequestTypes DEF Ordered, Window
  <2>3. CASE q # r /\ q.slot = s
    <3>1. q.n <= client[s].n /\ r.n - q.n < SeqSpace - 1
      BY ZenonT(30), <1>1, <2>3 DEF Ordered, Window
    <3> QED
      BY <1>1, <1>2, <2>3, <3>1, RequestTypes
  <2> QED
    BY ZenonT(30), <2>1, <2>2, <2>3
<1>4. \A q \in Request : Near(q) /\ q.slot = s => Dist(q.seq, r.seq) <= r.n - q.n /\ q.n < r.n
  <2> SUFFICES ASSUME NEW q \in Request, Near(q), q.slot = s
               PROVE  Dist(q.seq, r.seq) <= r.n - q.n /\ q.n < r.n
    BY ZenonT(30)
  <2>1. Dist(q.seq, succ(client[s].seq)) <= client[s].n + 1 - q.n
    BY ZenonT(30), <1>2 DEF Ordered, NextOrder
  <2>2. q.n <= client[s].n
    BY ZenonT(30) DEF Ordered, Window
  <2>3. /\ r.seq = succ(client[s].seq) /\ r.n = client[s].n + 1
        /\ client[s].n \in Nat /\ q.n \in Nat
    BY ZenonT(30), <1>1, RequestTypes
  <2>4. q.n < r.n
    BY <2>2, <2>3
  <2>5. Dist(q.seq, r.seq) <= r.n - q.n
    BY SMTT(30), <2>1, <2>3
  <2> QED
    BY ZenonT(30), <2>4, <2>5
<1>5. Order'
  <2> SUFFICES ASSUME NEW q \in Request, NEW k \in Request, Near(q)', Near(k)',
                      q.slot = k.slot, q.n <= k.n
               PROVE  Dist(q.seq, k.seq) <= k.n - q.n
    BY ZenonT(30) DEF Order
  <2>1. CASE Near(q) /\ Near(k)
    BY ZenonT(30), <2>1 DEF Ordered, Order
  <2>2. CASE q = r /\ k = r
    BY <2>2, RequestTypes, DistFacts
  <2>3. CASE Near(q) /\ k = r
    BY ZenonT(30), <1>1, <1>4, <2>3
  <2>4. CASE q = r /\ Near(k)
    BY <1>1, <1>4, <2>4, RequestTypes
  <2> QED
    BY ZenonT(30), <1>1, <2>1, <2>2, <2>3, <2>4
<1>6. NextOrder'
  BY ZenonT(30), <1>1, <1>2, RequestTypes DEF Ordered, NextOrder
<1>7. Past'
  <2> SUFFICES ASSUME NEW q \in Request, Near(q)', Admitted(q)'
               PROVE  /\ Dist(q.seq, slots[q.slot].sequence_id) >= 1
                      /\ Dist(q.seq, slots[q.slot].sequence_id) <= client'[q.slot].n - q.n + 1
    BY ZenonT(30), <1>2 DEF Past
  <2>1. Near(q) /\ Admitted(q)
    BY ZenonT(30), <1>1
  <2>2. /\ Dist(q.seq, slots[q.slot].sequence_id) >= 1
        /\ Dist(q.seq, slots[q.slot].sequence_id) <= client[q.slot].n - q.n + 1
    BY ZenonT(30), <2>1 DEF Ordered, Past
  <2>3. client'[q.slot].n \in {client[q.slot].n, client[q.slot].n + 1}
    BY ZenonT(30), <1>1, <1>2, RequestTypes
  <2>4. Dist(q.seq, slots[q.slot].sequence_id) \in Nat
    BY RequestTypes, DistFacts
  <2> QED
    BY <2>2, <2>3, <2>4, RequestTypes
<1> QED
  BY ZenonT(30), <1>3, <1>5, <1>6, <1>7 DEF Ordered

LEMMA OrderedRest ==
    ASSUME Types, Ordered, NEW s \in Slot, Rests(s)
    PROVE  Ordered'
<1>1. /\ slots' = slots
      /\ \A q \in Request : Near(q)' => Near(q)
      /\ \A q \in Request : Admitted(q)' <=> Admitted(q)
  BY ZenonT(30), RestMoves
<1>2. /\ client[s].waiting /\ client'[s].n = client[s].n /\ ~client'[s].waiting
      /\ client'[s].seq \in {client[s].seq, pred(client[s].seq)}
      /\ \A u \in Slot : u # s => client'[u] = client[u]
  BY ZenonT(30) DEF Rests, OthersWait
<1>3. \A u \in Slot : client'[u].n = client[u].n
  BY ZenonT(30), <1>2
<1>4. Window'
  BY ZenonT(30), <1>1, <1>3, RequestTypes DEF Ordered, Window
<1>5. Order'
  BY ZenonT(30), <1>1 DEF Ordered, Order
<1>6. Past'
  BY ZenonT(30), <1>1, <1>3, RequestTypes DEF Ordered, Past
<1>7. NextOrder'
  <2> SUFFICES ASSUME NEW q \in Request, Near(q)', ~client'[q.slot].waiting
               PROVE  Dist(q.seq, succ(client'[q.slot].seq)) <= client'[q.slot].n + 1 - q.n
    BY ZenonT(30) DEF NextOrder, succ
  <2>1. CASE q.slot # s
    BY ZenonT(30), <1>1, <1>2, <2>1, RequestTypes DEF Ordered, NextOrder
  <2>2. CASE q.slot = s
    <3> DEFINE c == Current(s)
    <3>1. c \in Request /\ c.slot = s /\ c.n = client[s].n /\ c.seq = client[s].seq /\ Near(c)
      BY ZenonT(30), <1>2, CurrentIsRequest DEF Types, WaitInv, Near
    <3>2. Near(q) /\ q.n <= client[s].n
      BY ZenonT(30), <1>1, <2>2 DEF Ordered, Window
    <3> HIDE DEF c
    <3>3. Dist(q.seq, client[s].seq) <= client[s].n - q.n
      BY ZenonT(30), <2>2, <3>1, <3>2 DEF Ordered, Order
    <3>4. CASE client'[s].seq = client[s].seq
      BY <1>2, <2>2, <3>2, <3>3, <3>4, RequestTypes, DistFacts
    <3>5. CASE client'[s].seq = pred(client[s].seq)
      <4>1. succ(client'[s].seq) = client[s].seq
        BY ZenonT(30), <2>2, <3>5, RequestTypes, SuccPred
      <4> QED
        BY <1>2, <2>2, <3>2, <3>3, <4>1, RequestTypes, DistFacts
    <3> QED
      BY ZenonT(30), <1>2, <3>4, <3>5
  <2> QED
    BY ZenonT(30), <2>1, <2>2
<1> QED
  BY ZenonT(30), <1>4, <1>5, <1>6, <1>7 DEF Ordered

LEMMA OrderedAdmit ==
    ASSUME Types, Ordered, NEW t \in Task, Admits(t)
    PROVE  Ordered'
<1>1. PICK r \in Request :
         /\ r = task[t].request
         /\ Near(r) /\ ~Admitted(r)
         /\ r.seq = slots[r.slot].sequence_id
         /\ \A q \in Request : Near(q)' => Near(q)
         /\ \A q \in Request : Admitted(q)' <=> Admitted(q) \/ q = r
  BY ZenonT(30), AdmitMoves DEF Ordered
<1>2. /\ client' = client
      /\ slots'[r.slot].sequence_id = succ(r.seq)
      /\ \A u \in Slot : u # r.slot => slots'[u] = slots[u]
  BY ZenonT(30), <1>1 DEF Admits
<1>3. Window' /\ Order' /\ NextOrder'
  BY ZenonT(30), <1>1, <1>2 DEF Ordered, Window, Order, NextOrder
<1>4. Past'
  <2> SUFFICES ASSUME NEW q \in Request, Near(q)', Admitted(q)'
               PROVE  /\ Dist(q.seq, slots'[q.slot].sequence_id) >= 1
                      /\ Dist(q.seq, slots'[q.slot].sequence_id) <= client[q.slot].n - q.n + 1
    BY ZenonT(30), <1>2 DEF Past
  <2>1. Near(q) /\ q.n <= client[q.slot].n /\ client[q.slot].n - q.n <= SeqSpace - 2
    BY ZenonT(30), <1>1 DEF Ordered, Window
  <2>2. CASE q = r
    <3>1. Dist(r.seq, r.seq) = 0 /\ Dist(r.seq, succ(r.seq)) = 1
      BY RequestTypes, DistFacts
    <3> QED
      BY <1>2, <2>1, <2>2, <3>1, RequestTypes
  <2>3. CASE q # r /\ q.slot # r.slot
    BY ZenonT(30), <1>1, <1>2, <2>1, <2>3, RequestTypes DEF Ordered, Past
  <2>4. CASE q # r /\ q.slot = r.slot
    <3> DEFINE n == client[r.slot].n
               d == Dist(q.seq, r.seq)
    <3>1. d >= 1 /\ d <= n - q.n + 1
      BY ZenonT(30), <1>1, <2>1, <2>4 DEF Ordered, Past
    <3>2. r.n <= n /\ n - r.n <= SeqSpace - 2
      BY ZenonT(30), <1>1 DEF Ordered, Window
    <3>3. /\ d \in 0..(SeqSpace - 1)
          /\ d = 0 <=> q.seq = r.seq
          /\ q.seq # r.seq => d + Dist(r.seq, q.seq) = SeqSpace
          /\ Dist(q.seq, succ(r.seq)) = IF d = SeqSpace - 1 THEN 0 ELSE d + 1
      BY ZenonT(30), RequestTypes, DistFacts
    <3>4. Dist(r.seq, q.seq) \in 0..(SeqSpace - 1)
      BY ZenonT(30), RequestTypes, DistFacts
    <3>5. n \in Nat /\ q.n \in Nat /\ r.n \in Nat /\ SeqSpace \in Nat /\ SeqSpace > 2
      BY ZenonT(30), RequestTypes
    <3>6. r.n < q.n => Dist(r.seq, q.seq) <= q.n - r.n
      BY <1>1, <2>1, <2>4, <3>5 DEF Ordered, Order
    <3>7. q.n <= r.n => d <= r.n - q.n
      BY ZenonT(30), <1>1, <2>1, <2>4 DEF Ordered, Order
    <3>8. q.n <= n /\ n - q.n <= SeqSpace - 2
      BY ZenonT(30), <2>1, <2>4
    <3> HIDE DEF n, d
    <3>9. ~(r.n < q.n)
      BY <3>1, <3>2, <3>3, <3>4, <3>5, <3>6
    <3>10. Dist(q.seq, succ(r.seq)) = d + 1 /\ d + 1 <= n - q.n + 1
      BY <3>2, <3>3, <3>5, <3>7, <3>8, <3>9
    <3> QED
      BY <1>2, <2>4, <3>1, <3>3, <3>10 DEF n
  <2> QED
    BY ZenonT(30), <2>2, <2>3, <2>4
<1> QED
  BY ZenonT(30), <1>3, <1>4 DEF Ordered

LEMMA AbandonRests ==
    ASSUME NEW s \in Slot, Abandons(s)
    PROVE  Rests(s)
BY ZenonT(30) DEF Abandons, Rests

LEMMA AcceptRests ==
    ASSUME RepliesInv, NEW p \in replies, Accepts(p)
    PROVE  /\ p.to.slot \in Slot /\ Rests(p.to.slot)
           /\ p.to = Current(p.to.slot)
           /\ client'[p.to.slot].seq = client[p.to.slot].seq
           /\ client'[p.to.slot].gave_up = client[p.to.slot].gave_up
BY ZenonT(30) DEF Accepts, Rests, RepliesInv, Answers

LEMMA OnceNext ==
    ASSUME Types, Ordered, LogOld, Once, AtMostOnce, RepliesInv, [Next]_vars
    PROVE  Ordered' /\ LogOld' /\ Once' /\ AtMostOnce'
<1> DEFINE Goal == Ordered' /\ LogOld' /\ Once' /\ AtMostOnce'
\* Steps that leave the log and the work of the tasks alone.
<1>1. ASSUME log' = log, \A u \in Slot : client[u].n <= client'[u].n,
             \A t \in Task : \/ task'[t] = task[t]
                             \/ /\ task[t].pc \in {"idle", "prepare"}
                                /\ task'[t].pc \in {"idle", "prepare"},
             \A u \in Slot : client'[u].n \in Nat
      PROVE  LogOld' /\ Once' /\ AtMostOnce'
  <2>1. AtMostOnce'
    BY ZenonT(30), <1>1 DEF AtMostOnce
  <2>2. LogOld'
    <3> SUFFICES ASSUME NEW r \in Request, r \in Range(log')
                 PROVE  r.n <= client'[r.slot].n
      BY ZenonT(30) DEF LogOld
    <3>1. r.n <= client[r.slot].n /\ client[r.slot].n <= client'[r.slot].n
      BY ZenonT(30), <1>1, RequestTypes DEF LogOld
    <3> QED
      BY <1>1, <3>1, RequestTypes
  <2>3. Once'
    BY ZenonT(30), <1>1 DEF Once, Busy
  <2> QED
    BY ZenonT(30), <2>1, <2>2, <2>3
<1>2. \A u \in Slot : client[u].n \in Nat
  BY DEF Types, TypeOK, ClientSlot
<1>3. ASSUME Quiet
      PROVE  Goal
  <2>1. Ordered'
    BY ZenonT(30), <1>3, QuietMoves, OrderedTame
  <2>2. client' = client /\ log' = log
    BY ZenonT(30), <1>3 DEF Quiet
  <2> QED
    BY <1>1, <1>2, <1>3, <2>1, <2>2 DEF Quiet
<1>4. ASSUME NEW s \in Slot, Sends(s)
      PROVE  Goal
  <2>1. UNCHANGED <<task, log>> /\ \A u \in Slot : client'[u].n \in {client[u].n, client[u].n + 1}
    BY ZenonT(30), <1>4 DEF Sends, OthersWait
  <2> QED
    BY <1>1, <1>2, <1>4, <2>1, OrderedSend
<1>5. ASSUME NEW s \in Slot, Rests(s)
      PROVE  Goal
  <2>1. UNCHANGED <<task, log>> /\ \A u \in Slot : client'[u].n = client[u].n
    BY ZenonT(30), <1>5 DEF Rests, OthersWait
  <2> QED
    BY <1>1, <1>2, <1>5, <2>1, OrderedRest
<1>6. ASSUME NEW t \in Task, Admits(t)
      PROVE  Goal
  <2>1. PICK r \in Request :
           /\ r = task[t].request
           /\ ~Admitted(r)
           /\ \A q \in Request, u \in Task : Busy(u, q)' <=> Busy(u, q) \/ (u = t /\ q = r)
    BY ZenonT(30), <1>6, AdmitMoves DEF Ordered
  <2>2. client' = client /\ log' = log
    BY ZenonT(30), <1>6 DEF Admits
  <2>3. LogOld' /\ AtMostOnce'
    BY ZenonT(30), <2>2 DEF LogOld, AtMostOnce
  <2>4. \A v, u \in Task, q \in Request : Busy(v, q)' /\ Busy(u, q)' => v = u
    BY <2>1 DEF Once, Admitted
  <2>5. \A u \in Task : /\ task'[u].pc = "execute" => task'[u].request \notin Range(log')
                        /\ task'[u].pc = "finish" => task'[u].request \in Range(log')
    <3> TAKE u \in Task
    <3>1. CASE u = t
      BY ZenonT(30), <1>6, <2>1, <2>2, <3>1 DEF Admits, Admitted
    <3>2. CASE u # t
      BY ZenonT(30), <1>6, <2>2, <3>2 DEF Admits, OthersRun, Once
    <3> QED
      BY ZenonT(30), <3>1, <3>2
  <2>6. Once'
    BY ZenonT(30), <2>4, <2>5 DEF Once
  <2> QED
    BY ZenonT(30), <1>6, <2>3, <2>6, OrderedAdmit
<1>7. ASSUME NEW t \in Task, Executes(t)
      PROVE  Goal
  <2>1. PICK r \in Request :
           /\ r = task[t].request /\ Busy(t, r)
           /\ client' = client /\ slots' = slots
           /\ \A q \in Request : Near(q)' => Near(q)
           /\ \A q \in Request, u \in Task : Busy(u, q)' <=> Busy(u, q)
           /\ \A q \in Request : q \in Range(log') <=> q \in Range(log) \/ q = r
           /\ \A q \in Request : Admitted(q)' <=> Admitted(q)
    BY ZenonT(30), <1>7, ExecuteMoves
  <2>2. Ordered'
    BY ZenonT(30), <2>1, OrderedTame
  <2>3. r \notin Range(log) /\ log' = Append(log, r)
    BY ZenonT(30), <1>7, <2>1 DEF Executes, Once
  <2>4. AtMostOnce'
    BY ZenonT(30), <2>3, AppendRange DEF AtMostOnce, Types, TypeOK
  <2>5. LogOld'
    <3>1. r.n <= client[r.slot].n
      BY ZenonT(30), <2>1, BusyIsNear DEF Ordered, Window
    <3> QED
      BY ZenonT(30), <2>1, <3>1 DEF LogOld
  <2>6. \A v, u \in Task, q \in Request : Busy(v, q)' /\ Busy(u, q)' => v = u
    BY ZenonT(30), <2>1 DEF Once
  <2>7. ASSUME NEW u \in Task
        PROVE  /\ task'[u].pc = "execute" => task'[u].request \notin Range(log')
               /\ task'[u].pc = "finish" => task'[u].request \in Range(log')
    <3>1. CASE u = t
      BY ZenonT(30), <1>7, <2>1, <3>1 DEF Executes
    <3>2. CASE u # t /\ task[u].pc \in {"execute", "finish"}
      <4>1. task[u].request \in Request /\ task'[u] = task[u]
        BY ZenonT(30), <1>7, <3>2 DEF Types, TaskInv, Executes, OthersRun
      <4>2. task[u].request # r
        BY ZenonT(30), <2>1, <3>2, <4>1 DEF Once, Busy
      <4> QED
        BY ZenonT(30), <2>1, <4>1, <4>2 DEF Once
    <3>3. CASE u # t /\ task[u].pc \notin {"execute", "finish"}
      BY ZenonT(30), <1>7, <3>3 DEF Executes, OthersRun
    <3> QED
      BY ZenonT(30), <3>1, <3>2, <3>3
  <2>8. Once'
    BY ZenonT(30), <2>6, <2>7 DEF Once
  <2> QED
    BY ZenonT(30), <2>2, <2>4, <2>5, <2>8
<1>8. ASSUME NEW t \in Task, Finishes(t)
      PROVE  Goal
  <2>1. PICK r \in Request :
           /\ r = task[t].request /\ Busy(t, r)
           /\ client' = client /\ log' = log
           /\ \A s \in Slot : slots'[s].sequence_id = slots[s].sequence_id
           /\ \A q \in Request : Near(q)' => Near(q)
           /\ \A q \in Request, u \in Task : Busy(u, q)' <=> Busy(u, q) /\ u # t
           /\ \A q \in Request : Admitted(q)' <=> Admitted(q)
    BY ZenonT(30), <1>8, FinishMoves
  <2>2. Ordered'
    BY ZenonT(30), <2>1, OrderedTame
  <2>3. LogOld' /\ AtMostOnce'
    BY ZenonT(30), <2>1 DEF LogOld, AtMostOnce
  <2>4. \A v, u \in Task, q \in Request : Busy(v, q)' /\ Busy(u, q)' => v = u
    BY ZenonT(30), <2>1 DEF Once
  <2>5. \A u \in Task : /\ task'[u].pc = "execute" => task'[u].request \notin Range(log')
                        /\ task'[u].pc = "finish" => task'[u].request \in Range(log')
    <3>1. /\ log' = log /\ task'[t].pc = "idle"
          /\ \A u \in Task : u # t => task'[u] = task[u]
      BY ZenonT(30), <1>8, IdleFacts DEF Finishes, OthersRun
    <3> QED
      BY ZenonT(30), <3>1 DEF Once
  <2>6. Once'
    BY ZenonT(30), <2>4, <2>5 DEF Once
  <2> QED
    BY ZenonT(30), <2>2, <2>3, <2>6
<1> HIDE DEF Goal
<1>9. Goal
  BY ZenonT(30), <1>3, <1>4, <1>5, <1>6, <1>7, <1>8, StepKinds, AbandonRests, AcceptRests
<1> QED
  BY ZenonT(30), <1>9 DEF Goal

-----------------------------------------------------------------------------
(* Replies are those of requests that are done.                             *)

\* The session and its lease only end, in every step.
LEMMA StepsWane ==
    ASSUME Types, [Next]_vars
    PROVE  Wanes
<1>1. session \in {"live", "gone"} /\ lease \in {"active", "revoked"}
  BY ZenonT(30) DEF Types, TypeOK
<1> QED
  BY ZenonT(30), <1>1, StepKinds DEF Quiet, Sends, Abandons, Accepts, Admits, Executes, Finishes, Wanes, server

LEMMA DonePersists ==
    ASSUME Types, Ordered, LogOld, Once, RepliesInv, [Next]_vars
    PROVE  \A r \in Request : Done(r) => Done(r)'
BY ZenonT(30), StepKinds, QuietMoves, SendMoves, RestMoves, AdmitMoves, ExecuteMoves, FinishMoves,
   AbandonRests, AcceptRests
   DEF Ordered

LEMMA SlotNext ==
    ASSUME Types, Ordered, LogOld, Once, RepliesInv, SlotInv, [Next]_vars
    PROVE  SlotInv'
<1>1. \A r \in Request : Done(r) => Done(r)'
  BY ZenonT(30), DonePersists
<1>2. \A s \in Slot : /\ slots[s].in_progress \in Request \cup {NoRequest}
                      /\ slots[s].cached_reply \in Request \cup {NoRequest}
  BY ZenonT(30) DEF Types, TypeOK, SlotState
<1>3. CASE slots' = slots
  BY ZenonT(30), <1>1, <1>2, <1>3 DEF SlotInv
<1>4. ASSUME NEW t \in Task, Admits(t)
      PROVE  SlotInv'
  <2> DEFINE r == task[t].request
  <2>1. /\ r \in Request /\ r.slot \in Slot
        /\ \A u \in Slot : u # r.slot => slots'[u] = slots[u]
        /\ slots'[r.slot].in_progress = r /\ slots'[r.slot].cached_reply = NoRequest
    BY ZenonT(30), <1>4 DEF Admits, Request
  <2> HIDE DEF r
  <2> QED
    BY <1>1, <1>2, <2>1 DEF SlotInv
<1>5. ASSUME NEW t \in Task, Finishes(t)
      PROVE  SlotInv'
  <2>1. PICK r \in Request : /\ r = task[t].request
                             /\ \A q \in Request : q = r => Done(q)'
    BY ZenonT(30), <1>5, FinishMoves
  <2>2. /\ r.slot \in Slot
        /\ \A u \in Slot : u # r.slot => slots'[u] = slots[u]
        /\ session = "live" => /\ slots'[r.slot].in_progress = NoRequest
                               /\ slots'[r.slot].cached_reply = r
        /\ session = "gone" => slots'[r.slot] = slots[r.slot]
        /\ session \in {"live", "gone"}
    BY ZenonT(30), <1>5, <2>1 DEF Finishes, Request, Types, TypeOK
  <2>3. \A u \in Slot : slots'[u] = slots[u] \/ (u = r.slot /\ slots'[u].in_progress = NoRequest
                                                           /\ slots'[u].cached_reply = r)
    BY ZenonT(30), <2>2
  <2> QED
    BY ZenonT(30), <1>1, <1>2, <2>1, <2>3 DEF SlotInv
<1> HIDE DEF SlotInv
<1> QED
  BY ZenonT(30), <1>3, <1>4, <1>5, StepKinds DEF Quiet, Sends, Abandons, Accepts, Executes, server

LEMMA AnswersStay ==
    ASSUME Wanes, NEW p, Answers(p), client'[p.to.slot] = client[p.to.slot]
    PROVE  Answers(p)'
BY ZenonT(30) DEF Wanes, Answers, Current

LEMMA RepliesNext ==
    ASSUME Types, Ordered, LogOld, Once, SlotInv, RepliesInv, [Next]_vars
    PROVE  RepliesInv'
<1>1. Wanes /\ \A r \in Request : Done(r) => Done(r)'
  BY ZenonT(30), StepsWane, DonePersists
<1>2. \A p : Answers(p) => p \in Reply /\ p.to \in Request /\ p.to.slot \in Slot
  BY ZenonT(30) DEF Answers, Reply, Request
<1>3. ASSUME client' = client, replies' = replies
      PROVE  RepliesInv'
  BY ZenonT(30), <1>1, <1>2, <1>3, AnswersStay DEF RepliesInv
<1>4. ASSUME NEW s \in Slot, OthersWait(s), replies' \subseteq replies,
             \A p \in replies' : p.to.slot # s
      PROVE  RepliesInv'
  BY ZenonT(30), <1>1, <1>2, <1>4, AnswersStay DEF RepliesInv, OthersWait
<1>5. CASE Quiet
  <2> SUFFICES ASSUME NEW p \in replies'
               PROVE  Answers(p)' /\ (p.status \in {"Executed", "Replay"} => Done(p.to)')
    BY ZenonT(30) DEF RepliesInv
  <2>1. client' = client
    BY ZenonT(30), <1>5 DEF Quiet
  <2>2. CASE p \in replies
    BY ZenonT(30), <1>1, <1>2, <2>1, <2>2, AnswersStay DEF RepliesInv
  <2>3. ASSUME Answers(p), NEW t \in Task, Declines(t, p), p.status \in {"Executed", "Replay"}
        PROVE  Done(p.to)
    <3> DEFINE r == task[t].request
               slot == slots[r.slot]
    <3>1. r \in Request /\ r.slot \in Slot /\ p.to = r /\ p.status = RetryStatus(slot, r)
      BY ZenonT(30), <2>3 DEF Declines, Request
    <3> HIDE DEF r, slot
    <3>2. slot.cached_reply = r
      BY ZenonT(30), <2>3, <3>1 DEF RetryStatus
    <3> QED
      BY ZenonT(30), <3>1, <3>2, SessionsAssumption DEF SlotInv, slot
  <2> QED
    BY ZenonT(30), <1>1, <1>2, <1>5, <2>1, <2>2, <2>3, AnswersStay DEF Quiet
<1>6. ASSUME NEW s \in Slot, Sends(s)
      PROVE  RepliesInv'
  BY ZenonT(30), <1>4, <1>6 DEF Sends, RepliesInv, Answers
<1>7. ASSUME NEW s \in Slot, Abandons(s)
      PROVE  RepliesInv'
  BY ZenonT(30), <1>4, <1>7 DEF Abandons, RepliesInv, Answers
<1>8. ASSUME NEW p \in replies, Accepts(p)
      PROVE  RepliesInv'
  BY SMTT(30), <1>4, <1>8 DEF Accepts, RepliesInv, Answers
<1>9. ASSUME NEW t \in Task, Finishes(t)
      PROVE  RepliesInv'
  <2>1. PICK r \in Request : /\ r = task[t].request
                             /\ \A q \in Request : q = r => Done(q)'
    BY ZenonT(30), <1>9, FinishMoves
  <2>2. /\ client' = client
        /\ \A p \in replies' : p \in replies \/ (Answers(p) /\ p.to = r)
    BY ZenonT(30), <1>9, <2>1 DEF Finishes
  <2> QED
    BY ZenonT(30), <1>1, <1>2, <2>1, <2>2, AnswersStay DEF RepliesInv
<1> HIDE DEF RepliesInv
<1> QED
  BY ZenonT(30), <1>3, <1>5, <1>6, <1>7, <1>8, <1>9, StepKinds DEF Admits, Executes

\* A busy slot keeps its task: the task that finishes frees the slot.
LEMMA ServedNext ==
    ASSUME Types, Ordered, LogOld, Once, RepliesInv, SlotInv, BusySlotIsServed, [Next]_vars
    PROVE  BusySlotIsServed'
<1> SUFFICES ASSUME session' = "live", NEW s \in Slot, slots'[s].in_progress # NoRequest
             PROVE  \E t \in Task : /\ task'[t].pc \in {"execute", "finish"}
                                    /\ task'[t].request = slots'[s].in_progress
  BY ZenonT(30) DEF BusySlotIsServed
<1>1. session = "live"
  BY ZenonT(30), StepsWane DEF Wanes, Types, TypeOK
<1>2. slots[s].in_progress # NoRequest => slots[s].in_progress.slot = s
  BY ZenonT(30) DEF SlotInv
<1>3. CASE slots'[s] = slots[s]
  <2>1. PICK t \in Task : /\ task[t].pc \in {"execute", "finish"}
                          /\ task[t].request = slots[s].in_progress
    BY ZenonT(30), <1>1, <1>3 DEF BusySlotIsServed
  <2>2. task[t].request.slot = s
    BY ZenonT(30), <1>2, <1>3, <2>1
  <2>3. CASE Quiet \/ \E u \in Slot : Sends(u) \/ Abandons(u)
    BY ZenonT(30), <1>3, <2>1, <2>3 DEF Quiet, Sends, Abandons
  <2>4. CASE \E p \in replies : Accepts(p)
    BY ZenonT(30), <1>3, <2>1, <2>4 DEF Accepts
  <2>5. ASSUME NEW u \in Task, Admits(u) \/ Executes(u)
        PROVE  task'[t].pc \in {"execute", "finish"} /\ task'[t].request = task[t].request
    BY ZenonT(30), <2>1, <2>5 DEF Admits, Executes, OthersRun
  <2>6. ASSUME NEW u \in Task, Finishes(u)
        PROVE  task'[t] = task[t]
    <3>1. CASE u = t
      BY ZenonT(30), <1>1, <1>3, <2>2, <2>6, <3>1 DEF Finishes
    <3>2. CASE u # t
      BY ZenonT(30), <2>6, <3>2 DEF Finishes, OthersRun
    <3> QED
      BY ZenonT(30), <3>1, <3>2
  <2> QED
    BY ZenonT(30), <1>3, <2>1, <2>3, <2>4, <2>5, <2>6, StepKinds
<1>4. CASE slots'[s] # slots[s]
  <2>1. \E t \in Task : (Admits(t) \/ Finishes(t)) /\ task[t].request.slot = s
    BY ZenonT(30), <1>4, StepKinds DEF Quiet, Sends, Abandons, Accepts, Executes, Admits, Finishes, server
  <2>2. PICK t \in Task : Admits(t) /\ task[t].request.slot = s
    BY ZenonT(30), <1>1, <2>1 DEF Finishes
  <2> QED
    BY ZenonT(30), <2>2 DEF Admits
<1> QED
  BY ZenonT(30), <1>3, <1>4

-----------------------------------------------------------------------------
(* A client that gives up no call stays in step with its slot.              *)

\* What a step does to the client's slots and to the requests it may see again.
LEMMA ClientMoves ==
    ASSUME Types, Ordered, LogOld, Once, RepliesInv, [Next]_vars, NEW s \in Slot
    PROVE  /\ client[s].gave_up => client'[s].gave_up
           /\ \/ /\ client'[s].n = client[s].n
                 /\ client'[s].seq = client[s].seq \/ client'[s].gave_up
                 /\ \A q \in Request : Near(q)' /\ q.slot = s => Near(q)
              \/ Sends(s)
<1>1. CASE client' = client
  BY ZenonT(30), <1>1, StepKinds, QuietMoves, SendMoves, RestMoves, AdmitMoves, ExecuteMoves, FinishMoves,
     AbandonRests, AcceptRests
     DEF Ordered
<1>2. ASSUME NEW u \in Slot, Sends(u)
      PROVE  \/ Sends(s)
             \/ client'[s] = client[s] /\ \A q \in Request : Near(q)' /\ q.slot = s => Near(q)
  <2>1. PICK r \in Request : r.slot = u /\ \A q \in Request : Near(q)' => Near(q) \/ q = r
    BY ZenonT(30), <1>2, SendMoves DEF Ordered
  <2> QED
    BY ZenonT(30), <1>2, <2>1 DEF Sends, OthersWait
<1>3. \A u \in Slot : Sends(u) => client'[s].gave_up = client[s].gave_up
  BY ZenonT(30) DEF Sends, OthersWait
<1>4. ASSUME NEW u \in Slot, Abandons(u)
      PROVE  /\ client'[s].n = client[s].n
             /\ client[s].gave_up => client'[s].gave_up
             /\ client'[s].seq = client[s].seq \/ client'[s].gave_up
             /\ \A q \in Request : Near(q)' => Near(q)
  BY ZenonT(30), <1>4, AbandonRests, RestMoves DEF Abandons, OthersWait
<1>5. ASSUME NEW p \in replies, Accepts(p)
      PROVE  /\ client'[s].n = client[s].n /\ client'[s].gave_up = client[s].gave_up
             /\ client'[s].seq = client[s].seq
             /\ \A q \in Request : Near(q)' => Near(q)
  BY ZenonT(30), <1>5, AcceptRests, RestMoves DEF Accepts, OthersWait
<1> QED
  BY ZenonT(30), <1>1, <1>2, <1>3, <1>4, <1>5, StepKinds DEF Quiet, Admits, Executes, Finishes

LEMMA InStepNext ==
    ASSUME Types, Ordered, LogOld, Once, RepliesInv, InStep, [Next]_vars
    PROVE  InStep'
<1> SUFFICES ASSUME NEW q \in Request, Near(q)', ~client'[q.slot].gave_up
             PROVE  Dist(q.seq, client'[q.slot].seq) = client'[q.slot].n - q.n
  BY ZenonT(30) DEF InStep, Dist
<1> DEFINE s == q.slot
<1>1. /\ s \in Slot /\ q.n \in Nat /\ q.seq \in SeqId
      /\ client[s].n \in Nat /\ client[s].seq \in SeqId
      /\ SeqSpace \in Nat /\ SeqSpace > 2
  BY ZenonT(30), RequestTypes
<1>2. ~client[s].gave_up
  BY ZenonT(30), <1>1, ClientMoves
<1>3. CASE /\ client'[s].n = client[s].n /\ client'[s].seq = client[s].seq
           /\ Near(q)
  BY ZenonT(30), <1>2, <1>3 DEF InStep
<1>4. CASE Sends(s)
  <2>1. PICK r \in Request :
           /\ r.slot = s /\ r.n = client[s].n + 1 /\ r.seq = succ(client[s].seq)
           /\ \A k \in Request : Near(k)' => Near(k) \/ k = r
           /\ \A k \in Request : Near(k) /\ k.slot = s => r.n - k.n < SeqSpace - 1
    BY ZenonT(30), <1>1, <1>4, SendMoves DEF Ordered
  <2>2. client'[s].n = client[s].n + 1 /\ client'[s].seq = succ(client[s].seq)
    BY ZenonT(30), <1>4 DEF Sends
  <2>3. CASE q = r
    BY SMTT(30), <1>1, <2>1, <2>2, <2>3, DistFacts
  <2>4. CASE Near(q)
    <3>1. Dist(q.seq, client[s].seq) = client[s].n - q.n
      BY ZenonT(30), <1>2, <2>4 DEF InStep
    <3>2. r.n - q.n < SeqSpace - 1
      BY ZenonT(30), <2>1, <2>4
    <3>3. Dist(q.seq, r.seq) = r.n - q.n
      <4>1. r.n = client[s].n + 1 /\ r.seq = succ(client[s].seq)
        BY ZenonT(30), <2>1
      <4> HIDE DEF s
      <4> QED
        BY <1>1, <3>1, <3>2, <4>1, DistNext
    <3>4. client'[s].n = r.n /\ client'[s].seq = r.seq
      BY ZenonT(30), <2>1, <2>2
    <3> QED
      BY ZenonT(30), <3>3, <3>4
  <2> QED
    BY ZenonT(30), <2>1, <2>3, <2>4
<1> QED
  BY ZenonT(30), <1>1, <1>3, <1>4, ClientMoves

\* The request a slot admits is the one its client waits for.
LEMMA AdmitsCurrent ==
    ASSUME Types, Ordered, InStep, Straight, NEW t \in Task, Admits(t),
           ~client[task[t].request.slot].gave_up
    PROVE  LET r == task[t].request IN
           /\ client[r.slot].waiting /\ r = Current(r.slot)
           /\ \A u \in Task, q \in Request : Busy(u, q) => q.slot # r.slot
<1>1. PICK r \in Request : /\ r = task[t].request /\ Near(r) /\ ~Admitted(r)
                           /\ r.seq = slots[r.slot].sequence_id
  BY ZenonT(30), AdmitMoves DEF Ordered
<1> DEFINE s == r.slot
<1>2. /\ s \in Slot /\ r.n \in Nat /\ r.seq \in SeqId
      /\ client[s].n \in Nat /\ client[s].seq \in SeqId
      /\ SeqSpace \in Nat /\ SeqSpace > 2
  BY ZenonT(30), <1>1, RequestTypes
<1>3. Expects(s) /\ ~client[s].gave_up
  BY ZenonT(30), <1>1, <1>2 DEF Admits, Straight
<1>4. /\ Dist(r.seq, client[s].seq) = client[s].n - r.n
      /\ client[s].n - r.n <= SeqSpace - 2
  BY ZenonT(30), <1>1, <1>3 DEF InStep, Ordered, Window
<1>5. ~(r.seq = succ(client[s].seq))
  <2> SUFFICES ASSUME r.seq = succ(client[s].seq) PROVE FALSE
    BY ZenonT(30)
  <2>1. Dist(client[s].seq, succ(client[s].seq)) = 1 /\ succ(client[s].seq) # client[s].seq
    BY <1>2, DistFacts, SuccPred
  <2>2. Dist(client[s].seq, r.seq) + Dist(r.seq, client[s].seq) = SeqSpace
    BY ZenonT(30), <1>2, <2>1, DistFacts
  <2> QED
    BY <1>2, <1>4, <2>1, <2>2
<1>6. client[s].waiting /\ r.seq = client[s].seq
  BY ZenonT(30), <1>1, <1>3, <1>5 DEF Expects
<1>7. r.n = client[s].n
  BY <1>2, <1>4, <1>6, DistNone, Zenon
<1>8. r = Current(s)
  BY ZenonT(30), <1>6, <1>7 DEF Current, Request
<1> QED
  BY ZenonT(30), <1>1, <1>3, <1>6, <1>8 DEF Expects, Admitted

LEMMA SameRequest ==
    ASSUME NEW s \in Slot, NEW c, c = Current(s)'
    PROVE  Admitted(Current(s))' <=> Admitted(c)'
BY ZenonT(30) DEF Admitted, Busy

\* What keeps a slot as the client sees it.
LEMMA StraightStays ==
    ASSUME Types, Wanes, NEW s \in Slot, client'[s] = client[s],
           slots'[s].sequence_id = slots[s].sequence_id,
           \A q \in Request : q.slot = s => (Admitted(q)' <=> Admitted(q)),
           \A q \in Request, u \in Task : q.slot = s /\ Busy(u, q)' => Busy(u, q)
    PROVE  /\ ~Ended /\ Expects(s) => Expects(s)'
           /\ slots'[s] = slots[s] /\ Holds(s) => Holds(s)'
<1>1. Current(s)' = Current(s)
  BY ZenonT(30) DEF Current
<1>2. client[s].waiting => Current(s) \in Request /\ Current(s).slot = s
  BY ZenonT(30), CurrentIsRequest DEF Types, WaitInv
<1>3. ASSUME NEW c \in Request, c = Current(s), c.slot = s
      PROVE  Admitted(Current(s))' <=> Admitted(Current(s))
  BY ZenonT(30), <1>1, <1>3, SameRequest
<1>4. session' = "live" => session = "live"
  BY ZenonT(30) DEF Wanes, Types, TypeOK
<1>5. client[s].waiting => (Admitted(Current(s))' <=> Admitted(Current(s)))
  BY ZenonT(30), <1>2, <1>3
<1> QED
  BY ZenonT(30), <1>1, <1>4, <1>5 DEF Expects, Holds

LEMMA StraightNext ==
    ASSUME Types, Ordered, LogOld, Once, SlotInv, RepliesInv, InStep, Straight,
           NoSequencingError, [Next]_vars
    PROVE  Straight'
<1> SUFFICES ASSUME NEW s \in Slot, ~client'[s].gave_up
             PROVE  (~Ended' => Expects(s)') /\ Holds(s)'
  BY ZenonT(30) DEF Straight
<1> DEFINE Goal == (~Ended' => Expects(s)') /\ Holds(s)'
<1>1. Wanes /\ (~Ended' => ~Ended)
  BY ZenonT(30), StepsWane DEF Wanes, Ended, Types, TypeOK
<1>2. ~client[s].gave_up /\ (~Ended => Expects(s)) /\ Holds(s)
  BY ZenonT(30), ClientMoves DEF Straight
<1>3. client[s].waiting => Current(s) \in Request /\ Current(s).slot = s
  BY ZenonT(30), CurrentIsRequest DEF Types, WaitInv
<1> HIDE DEF Goal
<1>4. ASSUME client'[s] = client[s], slots'[s] = slots[s],
             \A q \in Request : q.slot = s => (Admitted(q)' <=> Admitted(q)),
             \A q \in Request, u \in Task : q.slot = s /\ Busy(u, q)' => Busy(u, q)
      PROVE  Goal
  BY ZenonT(30), <1>1, <1>2, <1>4, StraightStays DEF Goal
<1>5. ASSUME Quiet
      PROVE  Goal
  BY ZenonT(30), <1>4, <1>5, QuietMoves
<1>6. ASSUME NEW u \in Slot, Sends(u)
      PROVE  Goal
  <2>1. PICK r \in Request :
           /\ r.slot = u /\ r.seq = succ(client[u].seq)
           /\ r = Current(u)'
           /\ ~Admitted(r)
           /\ \A q \in Request, t \in Task : Busy(t, q)' <=> Busy(t, q)
           /\ \A q \in Request : Admitted(q)' <=> Admitted(q)
    BY ZenonT(30), <1>6, SendMoves DEF Ordered
  <2>2. /\ ~client[u].waiting /\ client'[u].seq = succ(client[u].seq) /\ slots' = slots
        /\ \A v \in Slot : v # u => client'[v] = client[v]
    BY ZenonT(30), <1>6 DEF Sends, OthersWait, server
  <2>3. CASE u # s
    BY ZenonT(30), <1>4, <2>1, <2>2, <2>3
  <2>4. CASE u = s
    <3>1. ~Admitted(Current(s))'
      <4>1. ~Admitted(r)'
        BY ZenonT(30), <2>1
      <4>2. r = Current(s)'
        BY ZenonT(30), <2>1, <2>4
      <4> QED
        BY ZenonT(30), <4>1, <4>2, SameRequest
    <3>2. Holds(s)'
      BY ZenonT(30), <3>1 DEF Holds
    <3>3. ASSUME ~Ended
          PROVE  Expects(s)'
      <4>1. /\ slots[s].sequence_id = succ(client[s].seq)
            /\ \A t \in Task, q \in Request : Busy(t, q) => q.slot # s
        BY ZenonT(30), <1>2, <2>2, <2>4, <3>3 DEF Expects
      <4>2. \A t \in Task, q \in Request : Busy(t, q)' => q.slot # s
        BY ZenonT(30), <2>1, <4>1
      <4>3. slots'[s].sequence_id = client'[s].seq
        BY ZenonT(30), <2>2, <2>4, <4>1
      <4>4. client'[s].waiting
        BY ZenonT(30), <1>6, <2>4 DEF Sends
      <4> QED
        BY ZenonT(30), <3>1, <4>2, <4>3, <4>4 DEF Expects
    <3> QED
      BY ZenonT(30), <1>1, <3>2, <3>3 DEF Goal
  <2> QED
    BY ZenonT(30), <2>3, <2>4
<1>7. ASSUME NEW u \in Slot, Abandons(u)
      PROVE  Goal
  <2>1. u # s /\ client'[s] = client[s] /\ slots' = slots
    BY ZenonT(30), <1>7 DEF Abandons, OthersWait, server
  <2> QED
    BY ZenonT(30), <1>4, <1>7, <2>1, AbandonRests, RestMoves
<1>8. ASSUME NEW p \in replies, Accepts(p)
      PROVE  Goal
  <2> DEFINE u == p.to.slot
  <2>1. u \in Slot /\ Rests(u) /\ p.to = Current(u) /\ client'[u].seq = client[u].seq
    BY ZenonT(30), <1>8, AcceptRests
  <2>2. /\ slots' = slots
        /\ \A q \in Request, t \in Task : Busy(t, q)' <=> Busy(t, q)
        /\ \A q \in Request : Admitted(q)' <=> Admitted(q)
    BY ZenonT(30), <2>1, RestMoves
  <2>3. CASE u # s
    BY ZenonT(30), <1>4, <2>1, <2>2, <2>3 DEF Rests, OthersWait
  <2>4. CASE u = s
    <3>1. client[s].waiting /\ ~client'[s].waiting
      BY ZenonT(30), <2>1, <2>4 DEF Rests
    <3>2. ASSUME ~Ended
          PROVE  Expects(s)'
      <4>1. p.status \in {"Executed", "Replay"}
        BY ZenonT(30), <1>2, <2>4, <3>2 DEF RepliesInv, Answers, Reply, Status, NoSequencingError, Ended
      <4>2. Done(Current(s))
        BY ZenonT(30), <2>1, <2>4, <4>1 DEF RepliesInv
      <4>3. /\ slots[s].sequence_id = succ(client[s].seq)
            /\ \A t \in Task, r \in Request : Busy(t, r) => r.slot # s
        BY ZenonT(30), <1>2, <3>2, <4>2 DEF Expects, Done, Admitted
      <4> QED
        BY ZenonT(30), <2>1, <2>2, <2>4, <3>1, <4>3 DEF Expects
    <3> QED
      BY ZenonT(30), <1>1, <3>1, <3>2 DEF Goal, Holds
  <2> QED
    BY ZenonT(30), <2>3, <2>4
<1>9. ASSUME NEW t \in Task, Admits(t)
      PROVE  Goal
  <2>1. PICK r \in Request :
           /\ r = task[t].request
           /\ \A q \in Request, u \in Task : Busy(u, q)' <=> Busy(u, q) \/ (u = t /\ q = r)
           /\ \A q \in Request : Admitted(q)' <=> Admitted(q) \/ q = r
    BY ZenonT(30), <1>9, AdmitMoves DEF Ordered
  <2>2. /\ client' = client
        /\ \A u \in Slot : u # r.slot => slots'[u] = slots[u]
        /\ slots'[r.slot].sequence_id = succ(slots[r.slot].sequence_id)
        /\ slots'[r.slot].in_progress = r /\ r.seq = slots[r.slot].sequence_id
    BY ZenonT(30), <1>9, <2>1 DEF Admits
  <2>3. CASE r.slot # s
    BY ZenonT(30), <1>4, <2>1, <2>2, <2>3
  <2>4. CASE r.slot = s
    <3>1. /\ client[s].waiting /\ r = Current(s)
          /\ \A u \in Task, q \in Request : Busy(u, q) => q.slot # s
      BY ZenonT(30), <1>2, <1>9, <2>1, <2>4, AdmitsCurrent
    <3>2. Current(s)' = r /\ r.seq = client[s].seq
      BY ZenonT(30), <2>2, <3>1 DEF Current
    <3>3. Admitted(Current(s))'
      <4>1. Admitted(r)'
        BY ZenonT(30), <2>1
      <4> QED
        BY ZenonT(30), <3>2, <4>1, SameRequest
    <3>4. \A u \in Task, q \in Request : Busy(u, q)' /\ q.slot = s => q = r
      BY ZenonT(30), <2>1, <3>1
    <3>5. Expects(s)'
      BY ZenonT(30), <2>2, <2>4, <3>1, <3>2, <3>3, <3>4 DEF Expects
    <3>6. Holds(s)'
      BY ZenonT(30), <2>2, <2>4, <3>2, <3>4 DEF Holds
    <3> QED
      BY ZenonT(30), <3>5, <3>6 DEF Goal
  <2> QED
    BY ZenonT(30), <2>3, <2>4
<1>10. ASSUME NEW t \in Task, Executes(t)
       PROVE  Goal
  BY ZenonT(30), <1>4, <1>10, ExecuteMoves
<1>11. ASSUME NEW t \in Task, Finishes(t)
       PROVE  Goal
  <2>1. PICK r \in Request :
           /\ r = task[t].request /\ Busy(t, r)
           /\ client' = client
           /\ \A u \in Slot : slots'[u].sequence_id = slots[u].sequence_id
           /\ \A q \in Request, u \in Task : Busy(u, q)' <=> Busy(u, q) /\ u # t
           /\ \A q \in Request : Admitted(q)' <=> Admitted(q)
    BY ZenonT(30), <1>11, FinishMoves
  <2>2. /\ \A u \in Slot : u # r.slot => slots'[u] = slots[u]
        /\ session = "live" => slots'[r.slot].cached_reply = r
        /\ session' = session
    BY ZenonT(30), <1>11, <2>1 DEF Finishes
  <2>3. CASE r.slot # s
    BY ZenonT(30), <1>4, <2>1, <2>2, <2>3
  <2>4. CASE r.slot = s
    <3>1. ~Ended => Expects(s)'
      BY ZenonT(30), <1>1, <1>2, <2>1, StraightStays
    <3>2. Current(s)' = Current(s)
      BY ZenonT(30), <2>1 DEF Current
    <3>3. client[s].waiting => (Admitted(Current(s))' <=> Admitted(Current(s)))
      <4>1. ASSUME NEW c \in Request, c = Current(s)
            PROVE  Admitted(Current(s))' <=> Admitted(Current(s))
        BY ZenonT(30), <2>1, <3>2, <4>1, SameRequest
      <4> QED
        BY ZenonT(30), <1>3, <4>1
    <3>4. Holds(s)'
      BY ZenonT(30), <1>2, <2>1, <2>2, <2>4, <3>2, <3>3 DEF Holds
    <3> QED
      BY ZenonT(30), <1>1, <3>1, <3>4 DEF Goal
  <2> QED
    BY ZenonT(30), <2>3, <2>4
<1>12. Goal
  BY ZenonT(30), <1>5, <1>6, <1>7, <1>8, <1>9, <1>10, <1>11, StepKinds
<1> QED
  BY ZenonT(30), <1>12 DEF Goal

\* What prepare_sequence tells a client that waits for r, and has given up no call.
LEMMA RetryIsServed ==
    ASSUME Types, SlotInv, Straight, ~Ended, NEW s \in Slot, client[s].waiting,
           ~client[s].gave_up, Current(s).seq # slots[s].sequence_id
    PROVE  RetryStatus(slots[s], Current(s)) \in {"Delay", "Replay"}
<1> DEFINE c == Current(s)
           o == slots[s]
<1>1. c \in Request /\ c.seq = client[s].seq /\ client[s].seq \in SeqId
  BY ZenonT(30), CurrentIsRequest DEF Types, WaitInv, TypeOK, ClientSlot
<1>2. Expects(s) /\ Holds(s) /\ session = "live"
  BY ZenonT(30) DEF Straight, Ended, Types, TypeOK
<1>3. o.sequence_id = succ(client[s].seq) /\ Admitted(c)
  BY ZenonT(30), <1>1, <1>2 DEF Expects
<1>4. c.seq = pred(o.sequence_id)
  BY ZenonT(30), <1>1, <1>3, SuccPred
<1>5. c \in {o.in_progress, o.cached_reply}
  BY ZenonT(30), <1>2, <1>3 DEF Holds
<1>6. o.in_progress # NoRequest => o.cached_reply = NoRequest
  BY ZenonT(30) DEF SlotInv
<1>7. c # NoRequest
  BY ZenonT(30), <1>1, SessionsAssumption
<1> HIDE DEF c, o
<1> QED
  BY <1>4, <1>5, <1>6, <1>7 DEF RetryStatus, c, o

LEMMA SequencingNext ==
    ASSUME Types, Ordered, LogOld, Once, SlotInv, RepliesInv, Straight,
           NoSequencingError, [Next]_vars
    PROVE  NoSequencingError'
<1> SUFFICES ASSUME NEW p \in replies', ~client'[p.to.slot].gave_up
             PROVE  p.status \notin {"SeqMisordered", "SeqFalseRetry", "Serverfault"}
  BY ZenonT(30) DEF NoSequencingError
<1>1. CASE p \in replies
  <2>1. p.to.slot \in Slot
    BY ZenonT(30), <1>1 DEF Types, TypeOK, Reply, Request
  <2>2. ~client[p.to.slot].gave_up
    BY ZenonT(30), <2>1, ClientMoves
  <2> QED
    BY ZenonT(30), <1>1, <2>2 DEF NoSequencingError
<1>2. CASE p \notin replies
  <2>1. \/ \E t \in Task : Answers(p) /\ Declines(t, p) /\ client' = client
        \/ p.status = "Executed"
    BY ZenonT(30), <1>2, StepKinds DEF Quiet, Sends, Abandons, Accepts, Admits, Executes, Finishes
  <2>2. ASSUME NEW t \in Task, Answers(p), Declines(t, p), client' = client,
               p.status \notin {"StatusOnly", "BadSession"}
        PROVE  p.status \in {"Delay", "Replay"}
    <3> DEFINE s == p.to.slot
    <3>1. s \in Slot /\ client[s].waiting /\ p.to = Current(s) /\ ~client[s].gave_up
      BY ZenonT(30), <2>2 DEF Answers, Reply, Request
    <3>2. /\ ~Ended /\ p.to.seq # slots[s].sequence_id
          /\ p.status = RetryStatus(slots[s], p.to)
      BY ZenonT(30), <2>2 DEF Declines
    <3> HIDE DEF s
    <3> QED
      BY ZenonT(30), <3>1, <3>2, RetryIsServed
  <2> QED
    BY ZenonT(30), <2>1, <2>2
<1> QED
  BY ZenonT(30), <1>1, <1>2

-----------------------------------------------------------------------------
(* The theorems.                                                            *)

LEMMA InvInit == Init => Inv
<1> SUFFICES ASSUME Init PROVE Inv
  BY ZenonT(30)
<1>1. Types
  BY ZenonT(30), TypesInit
<1>2. \A r \in Request : ~Near(r) /\ \A t \in Task : ~Busy(t, r)
  BY ZenonT(30), IdleFacts DEF Init, Near, Busy, Request
<1>3. \A r : r \notin Range(log)
  BY DEF Init, Range
<1>4. Window /\ Order /\ NextOrder /\ Past /\ LogOld /\ InStep
  BY ZenonT(30), <1>2, <1>3 DEF Window, Order, NextOrder, Past, LogOld, InStep
<1>5. Once /\ AtMostOnce
  BY <1>2, IdleFacts DEF Init, Once, AtMostOnce, IsInjective
<1>6. SlotInv /\ RepliesInv /\ BusySlotIsServed /\ NoSequencingError
  BY ZenonT(30) DEF Init, SlotInv, RepliesInv, BusySlotIsServed, NoSequencingError
<1>7. Straight
  <2> SUFFICES ASSUME NEW s \in Slot
               PROVE  Expects(s) /\ Holds(s)
    BY ZenonT(30) DEF Straight
  <2>1. ~client[s].waiting /\ client[s].seq = 0 /\ slots[s].sequence_id = 1
    BY ZenonT(30) DEF Init
  <2>2. succ(0) = 1
    BY SuccPred, SessionsAssumption DEF SeqId
  <2> QED
    BY ZenonT(30), <1>2, <2>1, <2>2 DEF Expects, Holds
<1> QED
  BY ZenonT(30), <1>1, <1>4, <1>5, <1>6, <1>7 DEF Inv

LEMMA InvNext == Inv /\ [Next]_vars => Inv'
<1> SUFFICES ASSUME Inv, [Next]_vars PROVE Inv'
  BY ZenonT(30)
<1>1. /\ Types /\ Ordered /\ LogOld /\ Once /\ AtMostOnce /\ SlotInv /\ RepliesInv
      /\ BusySlotIsServed /\ InStep /\ Straight /\ NoSequencingError
  BY ZenonT(30) DEF Inv, Ordered
<1>2. Types'
  BY ZenonT(30), <1>1, TypesNext
<1>3. Ordered' /\ LogOld' /\ Once' /\ AtMostOnce'
  BY ZenonT(30), <1>1, OnceNext
<1>4. SlotInv' /\ RepliesInv' /\ BusySlotIsServed'
  BY ZenonT(30), <1>1, SlotNext, RepliesNext, ServedNext
<1>5. InStep' /\ Straight' /\ NoSequencingError'
  BY ZenonT(30), <1>1, InStepNext, StraightNext, SequencingNext
<1> QED
  BY ZenonT(30), <1>2, <1>3, <1>4, <1>5 DEF Inv, Ordered

\* prepare_sequence, finish_sequence and the client's use of its slots keep the
\* inductive invariant.
THEOREM InvAlways == Spec => []Inv
BY InvInit, InvNext, PTL DEF Spec

\* A request executes at most once, however often and on however many connections it
\* is delivered, also when sequence ids wrap around and calls are given up: the guard
\* of prepare_sequence that admits it moves the slot's sequence id past it.
THEOREM RequestsExecuteOnce == Spec => [](TypeOK /\ AtMostOnce)
<1>1. Inv => TypeOK /\ AtMostOnce
  BY ZenonT(30) DEF Inv, Types
<1> QED
  BY <1>1, InvAlways, PTL

\* A slot that prepare_sequence answers with NFS4ERR_DELAY has a task that will call
\* finish_sequence for the request it is busy with.
THEOREM BusySlotsAreServed == Spec => []BusySlotIsServed
<1>1. Inv => BusySlotIsServed
  BY ZenonT(30) DEF Inv
<1> QED
  BY <1>1, InvAlways, PTL

\* The reply cache of a slot holds the reply to the executed request of a client that
\* still waits for it, from finish_sequence until the client sends the next request.
THEOREM RepliesAreKept == Spec => []ReplyIsKept
<1>1. ASSUME Inv
      PROVE  ReplyIsKept
  BY ZenonT(30), <1>1 DEF Inv, Straight, Holds, ReplyIsKept, Admitted
<1> QED
  BY <1>1, InvAlways, PTL

\* prepare_sequence never answers the current request of a client that keeps the
\* protocol with SEQ_MISORDERED, SEQ_FALSE_RETRY or SERVERFAULT.
THEOREM RetriesAreServed == Spec => []NoSequencingError
<1>1. Inv => NoSequencingError
  BY ZenonT(30) DEF Inv
<1> QED
  BY <1>1, InvAlways, PTL

-----------------------------------------------------------------------------
(* The session implements exactly-once calls.                               *)

\* The mapping of Contract: the call each slot waits for, and whether it may be lost.
Pending == [s \in Slot |-> IF client[s].waiting THEN Current(s) ELSE NoRequest]
Lossy == Ended \/ \E s \in Slot : client[s].gave_up

LEMMA PendingMoves ==
    ASSUME Types, NEW s \in Slot, OthersWait(s)
    PROVE  /\ client[s].waiting => Pending[s] = Current(s) /\ Pending[s] # NoRequest
           /\ ~client[s].waiting => Pending[s] = NoRequest
           /\ ~client'[s].waiting => Pending' = [Pending EXCEPT ![s] = NoRequest]
           /\ \A r : client'[s].waiting /\ r = Current(s)' => Pending' = [Pending EXCEPT ![s] = r]
<1>1. client[s].waiting => Current(s) \in Request
  BY ZenonT(30), CurrentIsRequest DEF Types, WaitInv
<1>2. \A u \in Slot : u # s => client'[u] = client[u] /\ Current(u)' = Current(u)
  BY ZenonT(30) DEF OthersWait, Current
<1> QED
  BY ZenonT(30), <1>1, <1>2, SessionsAssumption DEF Pending

\* ExactlyOnce has its own copy of the library's Range.
LEMMA ContractRange == \A r : r \in Contract!Range(log) <=> r \in Range(log)
BY ZenonT(30) DEF Contract!Range, Range

LEMMA ContractInit == Init => Contract!Init
BY DEF Init, Contract!Init, Ended

LEMMA ContractNext ==
    ASSUME Inv, [Next]_vars
    PROVE  Contract!Next \/ UNCHANGED <<Pending, log, Lossy>>
<1> DEFINE Goal == Contract!Next \/ UNCHANGED <<Pending, log, Lossy>>
<1>1. /\ Types /\ Ordered /\ LogOld /\ Once /\ RepliesInv /\ Straight /\ NoSequencingError
  BY ZenonT(30) DEF Inv, Ordered
<1>2. ASSUME client' = client
      PROVE  Pending' = Pending
  BY ZenonT(30), <1>2 DEF Pending, Current
<1> HIDE DEF Goal
<1>3. ASSUME Quiet \/ \E t \in Task : Admits(t) \/ Finishes(t)
      PROVE  Goal
  <2>1. client' = client /\ log' = log /\ Pending' = Pending
    BY ZenonT(30), <1>2, <1>3 DEF Quiet, Admits, Finishes
  <2>2. CASE Lossy' <=> Lossy
    BY ZenonT(30), <2>1, <2>2 DEF Goal
  <2>3. CASE ~(Lossy' <=> Lossy)
    <3>1. Wanes
      BY ZenonT(30), <1>1, StepsWane
    <3>2. Lossy'
      BY ZenonT(30), <1>1, <2>1, <2>3, <3>1 DEF Lossy, Ended, Wanes, Types, TypeOK
    <3>3. Contract!End
      BY ZenonT(30), <2>1, <3>2 DEF Contract!End, Lossy, Pending
    <3> QED
      BY ZenonT(30), <3>3 DEF Goal, Contract!Next
  <2> QED
    BY ZenonT(30), <2>2, <2>3
<1>4. ASSUME NEW s \in Slot, Sends(s)
      PROVE  Goal
  <2>1. PICK r \in Request : r.slot = s /\ r = Current(s)' /\ ~Admitted(r)
    BY ZenonT(30), <1>1, <1>4, SendMoves DEF Ordered
  <2>2. Pending[s] = NoRequest /\ Pending' = [Pending EXCEPT ![s] = r]
    BY ZenonT(30), <1>1, <1>4, <2>1, PendingMoves DEF Sends
  <2>3. log' = log /\ (Lossy' <=> Lossy)
    BY ZenonT(30), <1>4 DEF Sends, OthersWait, Lossy, Ended, server
  <2>4. r \notin Range(log)
    BY ZenonT(30), <2>1 DEF Admitted
  <2>5. Contract!Call(s)
    BY ZenonT(30), <2>1, <2>2, <2>3, <2>4, ContractRange DEF Contract!Call, Lossy, Pending
  <2> QED
    BY ZenonT(30), <2>5 DEF Goal, Contract!Next
<1>5. ASSUME NEW s \in Slot, Abandons(s)
      PROVE  Goal
  <2>1. Pending[s] # NoRequest /\ Pending' = [Pending EXCEPT ![s] = NoRequest]
    BY ZenonT(30), <1>1, <1>5, PendingMoves DEF Abandons
  <2>2. log' = log /\ Lossy'
    BY ZenonT(30), <1>5 DEF Abandons, Lossy
  <2>3. Contract!GiveUp(s)
    BY ZenonT(30), <2>1, <2>2 DEF Contract!GiveUp, Lossy, Pending
  <2> QED
    BY ZenonT(30), <2>3 DEF Goal, Contract!Next
<1>6. ASSUME NEW p \in replies, Accepts(p)
      PROVE  Goal
  <2> DEFINE s == p.to.slot
  <2>1. s \in Slot /\ Rests(s) /\ p.to = Current(s)
    BY ZenonT(30), <1>1, <1>6, AcceptRests
  <2>2. /\ Pending[s] = Current(s) /\ Pending[s] # NoRequest
        /\ Pending' = [Pending EXCEPT ![s] = NoRequest]
    BY ZenonT(30), <1>1, <2>1, PendingMoves DEF Rests
  <2>3. log' = log /\ (Lossy' <=> Lossy)
    BY ZenonT(30), <1>6 DEF Accepts, OthersWait, Lossy, Ended, server
  <2>4. Lossy \/ Pending[s] \in Range(log)
    <3> SUFFICES ASSUME ~Ended, ~client[s].gave_up
                 PROVE  Pending[s] \in Range(log)
      BY ZenonT(30), <2>1 DEF Lossy
    <3>1. p.status \in {"Executed", "Replay"}
      BY ZenonT(30), <1>1 DEF RepliesInv, Answers, Reply, Status, NoSequencingError, Ended
    <3> QED
      BY ZenonT(30), <1>1, <2>1, <2>2, <3>1 DEF RepliesInv, Done
  <2> HIDE DEF s
  <2>5. Contract!Return(s)
    BY ZenonT(30), <2>1, <2>2, <2>3, <2>4, ContractRange DEF Contract!Return, Lossy, Pending
  <2> QED
    BY ZenonT(30), <2>1, <2>5 DEF Goal, Contract!Next
<1>7. ASSUME NEW t \in Task, Executes(t)
      PROVE  Goal
  <2> DEFINE r == task[t].request
             s == r.slot
  <2>1. /\ r \in Request /\ s \in Slot /\ Busy(t, r)
        /\ client' = client /\ log' = Append(log, r) /\ Pending' = Pending
    BY ZenonT(30), <1>2, <1>7 DEF Executes, Request, Busy
  <2>2. r \notin Range(log) /\ (Lossy' <=> Lossy)
    BY ZenonT(30), <1>1, <1>7 DEF Executes, Once, Lossy, Ended, server
  <2> HIDE DEF r, s
  <2>3. CASE client[s].waiting /\ r = Current(s)
    <3>1. Pending[s] = r /\ Pending[s] # NoRequest
      BY ZenonT(30), <2>1, <2>3, SessionsAssumption DEF Pending
    <3>2. Contract!TakeEffect(s)
      BY ZenonT(30), <2>1, <2>2, <3>1, ContractRange DEF Contract!TakeEffect, Lossy, Pending
    <3> QED
      BY ZenonT(30), <2>1, <3>2 DEF Goal, Contract!Next
  <2>4. CASE ~(client[s].waiting /\ r = Current(s))
    <3>1. Lossy
      BY ZenonT(30), <1>1, <2>1, <2>4 DEF Straight, Expects, Lossy, s
    <3>2. Contract!TakeEffectLate
      BY ZenonT(30), <2>1, <2>2, <3>1, ContractRange DEF Contract!TakeEffectLate, Lossy, Pending
    <3> QED
      BY ZenonT(30), <3>2 DEF Goal, Contract!Next
  <2> QED
    BY ZenonT(30), <2>3, <2>4
<1>8. Goal
  BY ZenonT(30), <1>1, <1>3, <1>4, <1>5, <1>6, <1>7, StepKinds
<1> QED
  BY ZenonT(30), <1>8 DEF Goal

\* Slots are exactly-once calls: a request takes effect after the client sends it and
\* before the client accepts its reply, unless the session ends or a call is given up,
\* and never takes effect twice.
THEOREM SlotsImplementExactlyOnce == Spec => ImplementsExactlyOnce
<1>1. Inv /\ [Next]_vars => [Contract!Next]_<<Pending, log, Lossy>>
  BY ZenonT(30), ContractNext
<1> QED
  BY <1>1, ContractInit, InvAlways, PTL DEF Spec, ImplementsExactlyOnce, Contract!Spec, Pending, Lossy
=============================================================================
