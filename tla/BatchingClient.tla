--------------------------- MODULE BatchingClient ---------------------------
(***************************************************************************)
(* The batching service of the HAL: BatchingAPIClient over the session     *)
(* queue of LocationAPIClientBase over the batching adapter.  Each client  *)
(* has one session at a time, of a fixed id of its own, and matches the    *)
(* responses of the adapter with its requests by their order.              *)
(***************************************************************************)
EXTENDS Batching

VARIABLES
    state,          \* mState of each client
    session,        \* mSessionBiDict: the session of the client's own id, or 0
    requests,       \* mRequestQueues[REQUEST_SESSION]
    flushThreads,   \* threads that report an empty batch
    overlap,        \* did a client call while it waited: for a start, for more
    mixedUp         \* did a response meet the request of another command

clientVars == <<state, session, requests, flushThreads, overlap, mixedUp>>
vars == <<adapterVars, clientVars>>

Init ==
    /\ AdapterInit
    /\ state = [c \in Clients |-> "STOPPED"]
    /\ session = [c \in Clients |-> 0]
    /\ requests = [c \in Clients |-> <<>>]
    /\ flushThreads = [c \in Clients |-> 0]
    /\ overlap = {}
    /\ mixedUp = FALSE

\* A client that is not being destroyed.
Active(c) ==
    /\ c \in clients
    /\ \A k \in 1..Len(adapterQ) : adapterQ[k] # [type |-> "removeClient", client |-> c]

\* A client calls, maybe before what it asked for was answered.
Call(c, newOwner, commands, newRequests) ==
    /\ Active(c)
    /\ Post(c, newOwner, commands)
    /\ requests' = [requests EXCEPT ![c] = @ \o newRequests]
    /\ overlap' = overlap \cup (ToSet(requests[c]) \ {"get"})

StartSession ==
    \E c \in Clients, mode \in Modes :
        /\ state' = [state EXCEPT ![c] = "STARTED"]
        /\ IF session[c] # 0
           THEN /\ Call(c, owner, <<>>, <<>>)
                /\ UNCHANGED session
           ELSE /\ Len(owner) < MaxSessions
                /\ Call(c, Append(owner, c), <<Command("start", Len(owner) + 1, mode)>>, <<"start">>)
                /\ session' = [session EXCEPT ![c] = Len(owner) + 1]
        /\ UNCHANGED <<flushThreads, mixedUp>>

UpdateSessionOptions ==
    \E c \in Clients, mode \in Modes :
        /\ session[c] # 0
        /\ Call(c, owner, <<Command("update", session[c], mode)>>, <<"update">>)
        /\ UNCHANGED <<state, session, flushThreads, mixedUp>>

\* What was batched is fetched first.
StopSession ==
    \E c \in Clients :
        /\ state' = [state EXCEPT ![c] = "STOPPING"]
        /\ IF session[c] # 0
           THEN Call(c, owner, <<Command("get", session[c], "none"),
                                 Command("stop", session[c], "routine")>>, <<"get", "stop">>)
           ELSE Call(c, owner, <<>>, <<>>)
        /\ UNCHANGED <<session, flushThreads, mixedUp>>

\* Without a session a thread of its own reports an empty batch.
FlushBatchedLocations ==
    \E c \in Clients :
        /\ IF session[c] # 0
           THEN /\ Call(c, owner, <<Command("get", session[c], "none")>>, <<"get">>)
                /\ UNCHANGED flushThreads
           ELSE /\ Call(c, owner, <<>>, <<>>)
                /\ flushThreads' = [flushThreads EXCEPT ![c] = @ + 1]
        /\ UNCHANGED <<state, session, mixedUp>>

\* LocationAPIClientBase::destroy
Destroy ==
    \E c \in Clients :
        /\ Active(c)
        /\ Post(c, owner, <<[type |-> "removeClient", client |-> c]>>)
        /\ requests' = [requests EXCEPT ![c] = <<>>]
        /\ UNCHANGED <<state, session, flushThreads, overlap, mixedUp>>

\* Mutant: a refused start leaves the session in the dictionary.
SessionKept(c, request, err) == session[c]

\* What the request at the head of the queue does with a response.
SessionAfter(c, request, err) ==
    IF (request = "start" /\ err # "ok") \/ (request = "stop" /\ err = "ok")
    THEN 0 ELSE session[c]

\* onResponseCb: a response for a session in the dictionary is matched with the
\* oldest request.
OnResponse ==
    /\ replies # <<>> /\ Head(replies).type = "response"
    /\ LET r == Head(replies)
           c == r.client
       IN  IF session[c] = r.id /\ requests[c] # <<>>
           THEN /\ session' = [session EXCEPT ![c] = SessionAfter(c, Head(requests[c]), r.err)]
                /\ requests' = [requests EXCEPT ![c] = Tail(@)]
                /\ mixedUp' = (mixedUp \/ Head(requests[c]) # r.op)
           ELSE UNCHANGED <<session, requests, mixedUp>>
    /\ replies' = Tail(replies)
    /\ UNCHANGED <<sessions, clients, owner, batchFull, pendingStarts, adapterQ, apiQ, engine,
                   used, state, flushThreads, overlap>>

\* onBatchingCb: the first batch after a stop goes to the cache.
Batch(c) ==
    state' = [state EXCEPT ![c] = IF @ = "STOPPING" THEN "STOPPED" ELSE @]

OnBatching ==
    /\ replies # <<>> /\ Head(replies).type = "locations"
    /\ Batch(Head(replies).client)
    /\ replies' = Tail(replies)
    /\ UNCHANGED <<sessions, clients, owner, batchFull, pendingStarts, adapterQ, apiQ, engine,
                   used, session, requests, flushThreads, overlap, mixedUp>>

FlushThread ==
    \E c \in Clients :
        /\ flushThreads[c] > 0
        /\ flushThreads' = [flushThreads EXCEPT ![c] = @ - 1]
        /\ Batch(c)
        /\ UNCHANGED <<adapterVars, session, requests, overlap, mixedUp>>

Next ==
    \/ StartSession \/ UpdateSessionOptions \/ StopSession \/ FlushBatchedLocations \/ Destroy
    \/ OnResponse \/ OnBatching \/ FlushThread
    \/ (AdapterThread \/ EngineSide) /\ UNCHANGED clientVars

Spec == Init /\ [][Next]_vars

-----------------------------------------------------------------------------
\* The adapter's state, and LocationAPIClientBase's: its session and the requests it awaits
\* responses to.
TypeOK ==
    /\ AdapterTypeOK
    /\ state \in [Clients -> {"STARTED", "STOPPING", "STOPPED"}]
    /\ session \in [Clients -> 0..MaxSessions]
    /\ \A c \in Clients : requests[c] \in Seq({"start", "update", "stop", "get"})

Rest == Quiet /\ \A c \in Clients : flushThreads[c] = 0

\* No client called before its updates and stops were answered, nor before a start
\* that could be refused; and what the adapter does not make up for was left out: a
\* second update, or an update or a refusal together with a lock.
Orderly ==
    /\ overlap \subseteq (IF used.refusals + used.locks = 0 THEN {"start"} ELSE {})
    /\ \/ used.updates <= 1 /\ used.refusals + used.locks = 0
       \/ used.updates = 0 /\ (used.refusals = 0 \/ used.locks = 0)

\* At rest every session that the adapter runs for a client is the one that the
\* client can still name: it can be stopped, unless it was started under a lock.
SessionsAreReachable ==
    Rest /\ Orderly /\ used.locks = 0 => \A id \in 1..Len(owner) :
        sessions[id] # "none" /\ owner[id] \in clients => session[owner[id]] = id

\* No request is left at rest: the next response would be matched with it.
NoRequestIsLeft == Rest /\ Orderly => \A c \in clients : requests[c] = <<>>

\* Responses are matched with the requests they answer, unless a session was
\* updated: an update is answered twice.
ResponsesMatch == Orderly /\ used.updates = 0 => ~mixedUp

\* The client keeps track of its sessions by the order of responses alone
\* (LocationAPIClientBase::onResponseCb, getRequestBySession).
ClientAgrees == SessionsAreReachable /\ NoRequestIsLeft /\ ResponsesMatch
=============================================================================
