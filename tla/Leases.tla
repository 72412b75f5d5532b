------------------------------- MODULE Leases -------------------------------
(***************************************************************************)
(* Client identities and their leases: session/clients.rs, with the lease  *)
(* half of prepare_sequence (the slots are in Sessions) and, as one flag   *)
(* per client, the opens, locks and delegations a client holds (FileState, *)
(* DirDelegations).  Every handler runs under one guard of StateInner and  *)
(* reaps expired clients first; a handler that then refuses the request    *)
(* leaves just that (Reap).                                                *)
(***************************************************************************)
EXTENDS Naturals, FiniteSets, Sequences

CONSTANTS Owner, Verifier,
          Minor,           \* minor versions an owner speaks: 0 uses SETCLIENTID, 1 sessions
          Lease, Retention,\* lease_duration, revoked_retention
          MaxClientId, MaxSeq, MaxTokens,             \* bounds
          NoClient

Id == 1..MaxClientId

VARIABLES inner,          \* StateInner: clients, sessions, and who holds state
          next_clientid,
          tokens          \* history: confirm tokens given to each owner

lease_vars == <<inner, next_clientid, tokens>>

\* Instants as the time left to the deadline, and the time since the revocation;
\* 0 left is a deadline that has come, Retention a retention that is over.
LeaseState == [kind : {"Active"}, left : 0..Lease] \cup [kind : {"Revoked"}, age : 0..Retention]
ClientState ==
    [owner : Owner, verifier : Verifier, confirmed : BOOLEAN, reclaim_complete : BOOLEAN,
     sequence_id : Nat, replaced : Id \cup {NoClient}, lease : LeaseState,
     v40_confirm : Id \cup {NoClient}]
SessionId == Id \X Nat    \* clientid and the client's sequence_id

\* Both durations are 90 seconds (StateConfig).
ASSUME LeasesAssumption ==
    /\ Minor \in [Owner -> SUBSET {0, 1}]
    /\ Lease \in Nat \ {0} /\ Retention \in Nat \ {0}
    /\ MaxClientId \in Nat /\ MaxSeq \in Nat /\ MaxTokens \in Nat
    /\ NoClient \notin Id /\ NoClient \notin ClientState

LeasesTypeOK ==
    /\ inner.clients \in [Id -> ClientState \cup {NoClient}]
    /\ inner.sessions \subseteq SessionId
    /\ inner.holders \subseteq Id
    /\ next_clientid \in 1..(MaxClientId + 1)
    /\ tokens \in [Owner -> Seq(Id)]

LeasesInit ==
    /\ inner = [clients |-> [i \in Id |-> NoClient], sessions |-> {}, holders |-> {}]
    /\ next_clientid = 1
    /\ tokens = [o \in Owner |-> <<>>]

-----------------------------------------------------------------------------
Known(s) == {i \in Id : s.clients[i] # NoClient}
Active(s) == {i \in Known(s) : s.clients[i].lease.kind = "Active"}
Revoked(s) == Known(s) \ Active(s)
OwnedBy(s, o) == {i \in Known(s) : s.clients[i].owner = o}
WithVerifier(s, v) == {i \in Known(s) : s.clients[i].verifier = v}
Confirmed(s) == {i \in Known(s) : s.clients[i].confirmed}
HasSession(s) == {x[1] : x \in s.sessions}

\* A known client whose owner speaks minor version m.
Speaks(c, m) == c \in Known(inner) /\ m \in Minor[inner.clients[c].owner]

Renewed == [kind |-> "Active", left |-> Lease]
Expired(s) == {i \in Active(s) : s.clients[i].lease.left = 0}

\* drop_client_state, for every client of C.
Drop(s, C) ==
    [clients |-> [i \in Id |-> IF i \in C THEN NoClient ELSE s.clients[i]],
     sessions |-> {x \in s.sessions : x[1] \notin C},
     holders |-> s.holders \ C]

\* Mutant: the expired are forgotten at once.
ReapedForgetting(s) == Drop(s, Expired(s))

\* The expired lose their state and become Revoked; a Revoked client is forgotten
\* after the retention, or at once if no session could tell it.
Reaped(s) ==
    LET expired == Expired(s)
        revoked == [s EXCEPT
                      !.clients = [i \in Id |-> IF i \in expired
                                    THEN [@[i] EXCEPT !.lease = [kind |-> "Revoked", age |-> 0]]
                                    ELSE @[i]],
                      !.holders = @ \ expired]
    IN  Drop(revoked, {i \in Revoked(revoked) :
                         revoked.clients[i].lease.age = Retention
                         \/ i \notin HasSession(revoked)})

NewClient(o, v, replaced, confirm) ==
    [owner |-> o, verifier |-> v, confirmed |-> FALSE, reclaim_complete |-> FALSE,
     sequence_id |-> 1, replaced |-> replaced, lease |-> Renewed, v40_confirm |-> confirm]

\* Some member of S, or NoClient: HashMap values().find().
Find(S) == IF S = {} THEN {NoClient} ELSE S

Reap ==
    /\ inner' = Reaped(inner)
    /\ UNCHANGED <<next_clientid, tokens>>

-----------------------------------------------------------------------------
(* NFSv4.1.                                                                  *)

\* Mutant: the predecessor goes before the newcomer is confirmed.
ExchangeIdReplacing(o, v) ==
    LET s == Reaped(inner)
        own == OwnedBy(s, o) IN
    /\ 1 \in Minor[o] /\ next_clientid \in Id
    /\ own \cap WithVerifier(s, v) \cap Active(s) = {}
    /\ inner' = [Drop(s, own) EXCEPT !.clients[next_clientid] = NewClient(o, v, NoClient, NoClient)]
    /\ next_clientid' = next_clientid + 1
    /\ UNCHANGED tokens

\* A client with the same owner and verifier is returned as it is (Reap).
ExchangeId(o, v) ==
    LET s == Reaped(inner)
        own == OwnedBy(s, o)
        other == own \ WithVerifier(s, v)
        predecessors == other \cap (Confirmed(s) \cup Revoked(s))
    IN
    /\ 1 \in Minor[o] /\ next_clientid \in Id
    /\ own \cap WithVerifier(s, v) \cap Active(s) = {}
    /\ \E old \in IF predecessors # {} THEN predecessors
                  ELSE Find(own \cap WithVerifier(s, v) \cap Revoked(s)) :
         inner' = [Drop(s, (other \ Confirmed(s)) \cap Active(s)) EXCEPT
                     !.clients[next_clientid] = NewClient(o, v, old, NoClient)]
    /\ next_clientid' = next_clientid + 1
    /\ UNCHANGED tokens

\* Mutant: the predecessor stays.
CreateSessionKeeping(c) ==
    LET s == Reaped(inner)
        client == s.clients[c] IN
    /\ Speaks(c, 1) /\ c \in Active(s) /\ client.sequence_id < MaxSeq
    /\ inner' = [s EXCEPT !.clients[c] = [client EXCEPT !.sequence_id = @ + 1, !.confirmed = TRUE,
                                                        !.lease = Renewed, !.replaced = NoClient],
                          !.sessions = @ \cup {<<c, client.sequence_id + 1>>}]
    /\ UNCHANGED <<next_clientid, tokens>>

\* The sequence number in the request is the client's current one.
CreateSession(c) ==
    LET s == Reaped(inner)
        client == s.clients[c] IN
    /\ Speaks(c, 1)
    /\ c \in Active(s)
    /\ client.sequence_id < MaxSeq
    /\ inner' = LET confirmed == [s EXCEPT !.clients[c] =
                                    [client EXCEPT !.sequence_id = @ + 1, !.confirmed = TRUE,
                                                   !.lease = Renewed, !.replaced = NoClient]]
                IN  [Drop(confirmed, {client.replaced} \ {NoClient}) EXCEPT
                       !.sessions = @ \cup {<<c, client.sequence_id + 1>>}]
    /\ UNCHANGED <<next_clientid, tokens>>

\* The request came over one of the session's connections.
DestroySession(x) ==
    LET s == Reaped(inner) IN
    /\ x \in s.sessions
    /\ inner' = [s EXCEPT !.sessions = @ \ {x}]
    /\ UNCHANGED <<next_clientid, tokens>>

DestroyClientid(c) ==
    LET s == Reaped(inner) IN
    /\ c \in Known(s) \ (s.holders \cup HasSession(s))
    /\ inner' = Drop(s, {c})
    /\ UNCHANGED <<next_clientid, tokens>>

\* prepare_sequence, where it answers Execute or Replay; a Revoked client gets its
\* status flags and nothing else (Reap).
PrepareSequence(x) ==
    LET s == Reaped(inner) IN
    /\ x \in s.sessions
    /\ x[1] \in Active(s)
    /\ inner' = [s EXCEPT !.clients[x[1]].lease = Renewed]
    /\ UNCHANGED <<next_clientid, tokens>>

\* RECLAIM_COMPLETE, global.
ReclaimComplete(c) ==
    LET s == Reaped(inner) IN
    /\ Speaks(c, 1)
    /\ c \in Known(s) /\ ~s.clients[c].reclaim_complete
    /\ inner' = [s EXCEPT !.clients[c].reclaim_complete = TRUE]
    /\ UNCHANGED <<next_clientid, tokens>>

-----------------------------------------------------------------------------
(* NFSv4.0.                                                                  *)

\* The token is the boot verifier mixed with the clientid: the clientid says it all.
next_v40_confirm_verifier(c) == c

SetClientId(o, v) ==
    LET s == Reaped(inner)
        own == OwnedBy(s, o)
        kept == Drop(s, own \ Confirmed(s))
        issue(c) == tokens' = [tokens EXCEPT ![o] = Append(@, next_v40_confirm_verifier(c))]
    IN
    /\ 0 \in Minor[o] /\ Len(tokens[o]) < MaxTokens
    /\ \/ \E c \in own \cap WithVerifier(s, v) \cap Confirmed(s) :
            /\ inner' = [kept EXCEPT !.clients[c].v40_confirm = next_v40_confirm_verifier(c),
                                     !.clients[c].lease = Renewed]
            /\ issue(c)
            /\ UNCHANGED next_clientid
       \/ /\ own \cap WithVerifier(s, v) \cap Confirmed(s) = {}
          /\ next_clientid \in Id
          /\ inner' = [kept EXCEPT !.clients[next_clientid] =
                         NewClient(o, v, NoClient, next_v40_confirm_verifier(next_clientid))]
          /\ issue(next_clientid)
          /\ next_clientid' = next_clientid + 1

SetClientIdConfirm(c, verifier) ==
    LET s == Reaped(inner) IN
    /\ Speaks(c, 0)
    /\ c \in Known(s)
    /\ s.clients[c].v40_confirm = verifier
    /\ inner' = [s EXCEPT !.clients[c] = [@ EXCEPT !.v40_confirm = NoClient, !.confirmed = TRUE,
                                                   !.lease = Renewed]]
    /\ UNCHANGED <<next_clientid, tokens>>

\* RENEW does not reap: a lease nobody has found expired is extended.
Renew(c) ==
    /\ Speaks(c, 0)
    /\ c \in Confirmed(inner) \cap Active(inner)
    /\ inner' = [inner EXCEPT !.clients[c].lease = Renewed]
    /\ UNCHANGED <<next_clientid, tokens>>

-----------------------------------------------------------------------------
(* What the client holds.  The request may have been validated while its     *)
(* client was still known: nothing is checked again under this guard, and    *)
(* the reaping that comes first has a guard of its own (Reap).               *)

AcquireState(c) ==
    /\ c < next_clientid
    /\ inner' = [inner EXCEPT !.holders = @ \cup {c}]
    /\ UNCHANGED <<next_clientid, tokens>>

ReleaseState(c) ==
    /\ c \in inner.holders
    /\ inner' = [inner EXCEPT !.holders = @ \ {c}]
    /\ UNCHANGED <<next_clientid, tokens>>

Later(lease) ==
    IF lease.kind = "Active" THEN [lease EXCEPT !.left = IF @ = 0 THEN 0 ELSE @ - 1]
    ELSE [lease EXCEPT !.age = IF @ = Retention THEN @ ELSE @ + 1]

Tick ==
    /\ inner' = [inner EXCEPT !.clients = [i \in Id |-> IF @[i] = NoClient THEN NoClient
                                                        ELSE [@[i] EXCEPT !.lease =
                                                                Later(inner.clients[i].lease)]]]
    /\ UNCHANGED <<next_clientid, tokens>>

LeasesNext ==
    \/ Reap \/ Tick
    \/ \E o \in Owner, v \in Verifier : ExchangeId(o, v) \/ SetClientId(o, v)
    \/ \E c \in Id : \/ CreateSession(c) \/ DestroyClientid(c) \/ ReclaimComplete(c) \/ Renew(c)
                     \/ AcquireState(c) \/ ReleaseState(c)
                     \/ \E verifier \in Id : SetClientIdConfirm(c, verifier)
    \/ \E x \in inner.sessions : DestroySession(x) \/ PrepareSequence(x)

LeasesSpec == LeasesInit /\ [][LeasesNext]_lease_vars

-----------------------------------------------------------------------------
(* Properties.                                                              *)

\* Two incarnations of an NFSv4.1 client are never confirmed side by side: confirming a
\* successor (create_session) drops its predecessor, whatever EXCHANGE_IDs, lost
\* incarnations and expiries came between.
OneConfirmedPerOwner ==
    \A i, j \in Confirmed(inner) :
      /\ inner.clients[i].owner = inner.clients[j].owner
      /\ Minor[inner.clients[i].owner] = {1}
      => i = j

\* A confirmed client loses what it holds only when it gives it back, when its
\* lease is over, or when a successor of the same owner has been confirmed: never
\* because someone else, or an unconfirmed newcomer, sent a request
\* (reap_expired_clients_locked, exchange_id, create_session).
LeaseIsRespected ==
    [][\A c \in (inner.holders \cap Confirmed(inner) \cap Active(inner)) \ inner'.holders :
         \/ c \in Expired(inner)
         \/ inner'.clients[c] = inner.clients[c]
         \/ \E n \in Confirmed(inner') \ Confirmed(inner) :
              inner.clients[n].owner = inner.clients[c].owner]_lease_vars

\* A client whose lease ran out is told: its sessions stay, for SEQUENCE to report
\* the loss, until it destroys them, the retention is over or a successor of the
\* same owner is confirmed (reap_expired_clients_locked).
ExpiredClientsAreTold ==
    [][\A x \in inner.sessions \ inner'.sessions :
         \/ x[1] \in Known(inner')
         \/ x[1] \in Revoked(inner) /\ inner.clients[x[1]].lease.age = Retention
         \/ \E n \in Confirmed(inner') \ Confirmed(inner) :
              inner.clients[n].owner = inner.clients[x[1]].owner]_lease_vars

\* Every SETCLIENTID of an owner is answered with a token of its own.
TokensAreDistinct ==
    \A o \in Owner : \A m, n \in DOMAIN tokens[o] : tokens[o][m] = tokens[o][n] => m = n
=============================================================================
