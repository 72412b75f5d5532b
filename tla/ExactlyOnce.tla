----------------------------- MODULE ExactlyOnce -----------------------------
(***************************************************************************)
(* What a session promises its client (NFSv4.1 exactly-once semantics):    *)
(* a request takes effect once, after it was sent and before its reply is  *)
(* accepted.  Only the end of the session, or the client giving up a call, *)
(* may leave a request unanswered; such a request takes effect at most     *)
(* once, now or later.                                                     *)
(***************************************************************************)
EXTENDS Sequences, Functions

CONSTANTS Slot, Request, NoRequest

VARIABLES pending,   \* the request each slot's owner is waiting for
          log,       \* the requests that took effect, in order
          ended      \* the session was destroyed or its lease revoked, or a call
                     \* was given up

Init == /\ pending = [s \in Slot |-> NoRequest]
        /\ log = <<>>
        /\ ended = FALSE

Call(s) == /\ pending[s] = NoRequest
           /\ \E r \in Request :
                /\ r.slot = s
                /\ r \notin Range(log)
                /\ pending' = [pending EXCEPT ![s] = r]
           /\ UNCHANGED <<log, ended>>

TakeEffect(s) == /\ pending[s] # NoRequest
                 /\ pending[s] \notin Range(log)
                 /\ log' = Append(log, pending[s])
                 /\ UNCHANGED <<pending, ended>>

Return(s) == /\ pending[s] # NoRequest
             /\ ended \/ pending[s] \in Range(log)
             /\ pending' = [pending EXCEPT ![s] = NoRequest]
             /\ UNCHANGED <<log, ended>>

\* A request the end of the session overtook.
TakeEffectLate == /\ ended
                  /\ \E r \in Request : /\ r \notin Range(log)
                                        /\ log' = Append(log, r)
                  /\ UNCHANGED <<pending, ended>>

End == ended' = TRUE /\ UNCHANGED <<pending, log>>

GiveUp(s) == /\ pending[s] # NoRequest
             /\ pending' = [pending EXCEPT ![s] = NoRequest]
             /\ ended' = TRUE
             /\ UNCHANGED log

Next == \/ End \/ TakeEffectLate
        \/ \E s \in Slot : Call(s) \/ TakeEffect(s) \/ Return(s) \/ GiveUp(s)

Spec == Init /\ [][Next]_<<pending, log, ended>>
=============================================================================
