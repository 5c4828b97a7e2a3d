------------------------------ MODULE Batching ------------------------------
(***************************************************************************)
(* BatchingAdapter without trips: commands start, update and stop sessions *)
(* and fetch what was batched.  The adapter changes its map of sessions    *)
(* when it sends a request and repairs it when the engine refuses, counts  *)
(* the sessions that need the batch full event, keeps starts that a locked *)
(* engine refused, and starts its sessions again after a restart.          *)
(*                                                                         *)
(* The engine and the queue of its thread are external (LocApiBase only    *)
(* declares the requests): it serves requests in order and answers all.    *)
(* What the adapter tells its clients waits in replies, which a client     *)
(* takes before the thread of the adapter goes on.                         *)
(***************************************************************************)
EXTENDS Naturals, Sequences, SequencesExt, FiniteSets

CONSTANTS
    Clients,        \* LocationAPI objects with a batchingCb
    MaxSessions,    \* ids that are handed out
    MaxCalls,       \* bounds the commands
    MaxWaiting,     \* bounds the messages waiting when a client calls
    MaxReports,     \* bounds the batches that fill up
    MaxFaults       \* bounds refusals, restarts and changes of the lock together

ASSUME BatchingAssumption ==
    {MaxSessions, MaxCalls, MaxWaiting, MaxReports, MaxFaults} \subseteq Nat

VARIABLES
    sessions,       \* mBatchingSessions: the mode of a session
    clients,        \* mClientData
    owner,          \* whose the ids handed out are
    batchFull,      \* is the batch full event registered
    pendingStarts,  \* mPendingGnssEnabledMsgs
    adapterQ,       \* messages to the adapter thread
    apiQ,           \* requests to the engine
    engine,         \* the engine: lock and sessions
    replies,        \* what was just told to clients
    used            \* calls, updates, reports, refusals, restarts, lock changes so far

adapterVars == <<sessions, clients, owner, batchFull, pendingStarts, adapterQ, apiQ, engine,
                 replies, used>>

Ids == 1..MaxSessions
Modes == {"routine", "noauto"}
Errors == {"ok", "failure", "disabled", "unknown"}

AdapterInit ==
    /\ sessions = [id \in Ids |-> "none"]
    /\ clients = Clients
    /\ owner = <<>>
    /\ batchFull = FALSE
    /\ pendingStarts = <<>>
    /\ adapterQ = <<>>
    /\ apiQ = <<>>
    /\ engine = [locked |-> FALSE, sessions |-> [id \in Ids |-> "none"]]
    /\ replies = <<>>
    /\ used = [calls |-> 0, updates |-> 0, reports |-> 0, refusals |-> 0, crashes |-> 0, locks |-> 0]

-----------------------------------------------------------------------------
(* Commands, posted on the threads of clients.                             *)

CanCall ==
    /\ replies = <<>>
    /\ used.calls < MaxCalls
    /\ Len(adapterQ) <= MaxWaiting

\* A start, an update, a stop or a query of the locations of a session.
Command(op, id, mode) == [type |-> op, id |-> id, mode |-> mode]

\* Client c sends commands; a fresh id was handed out to it before.
Post(c, newOwner, commands) ==
    /\ CanCall
    /\ used' = [used EXCEPT !.calls = @ + 1,
                            !.updates = IF commands # <<>> /\ Head(commands).type = "update"
                                        THEN @ + 1 ELSE @]
    /\ owner' = newOwner
    /\ adapterQ' = adapterQ \o commands
    /\ UNCHANGED <<sessions, clients, batchFull, pendingStarts, apiQ, engine, replies>>

-----------------------------------------------------------------------------
(* The adapter thread.                                                     *)

Take(type) ==
    /\ replies = <<>>
    /\ adapterQ # <<>>
    /\ Head(adapterQ).type = type

TakeAnswer(purpose) == Take("answer") /\ Head(adapterQ).to.op = purpose

\* A request to the engine, and what its answer needs: the mode asked for, the
\* mode before, and whether a refused start is kept for later.
Request(op, id, mode, old, keep) ==
    [op |-> op, id |-> id, mode |-> mode, old |-> old, keep |-> keep]

Reply(id, op, err) == [type |-> "response", client |-> owner[id], id |-> id, op |-> op, err |-> err]

\* reportResponse: only a client that is still there is told.
Told(id, op, err) == IF owner[id] \in clients THEN <<Reply(id, op, err)>> ELSE <<>>

AutoReports(ss) == {id \in Ids : ss[id] \notin {"none", "noauto"}}

\* startBatching: assume the start will be right.
Start(id, mode, keep) ==
    /\ batchFull' = (batchFull \/ (mode # "noauto" /\ AutoReports(sessions) = {}))
    /\ sessions' = [sessions EXCEPT ![id] = mode]
    /\ apiQ' = Append(apiQ, Request("start", id, mode, "none", keep))

\* A client without a callback is refused, and not told.
HandleStart ==
    /\ Take("start")
    /\ LET m == Head(adapterQ)
       IN  IF owner[m.id] \in clients
           THEN Start(m.id, m.mode, TRUE)
           ELSE UNCHANGED <<sessions, batchFull, apiQ>>
    /\ adapterQ' = Tail(adapterQ)
    /\ UNCHANGED <<clients, owner, pendingStarts, engine, replies, used>>

\* A refused start takes the session out again, unless the engine is locked.
AfterStart(m, err) ==
    IF err # "ok" /\ ~engine.locked THEN [sessions EXCEPT ![m.id] = "none"] ELSE sessions

HandleStarted ==
    /\ TakeAnswer("start")
    /\ LET m == Head(adapterQ).to
           err == Head(adapterQ).err
       IN  /\ sessions' = AfterStart(m, err)
           /\ batchFull' = (batchFull /\ ~(/\ err # "ok"
                                           /\ m.mode # "noauto"
                                           /\ AutoReports(sessions') = {}))
           /\ pendingStarts' = IF err = "disabled" /\ m.keep
                               THEN Append(pendingStarts, Command("start", m.id, m.mode))
                               ELSE pendingStarts
           /\ replies' = Told(m.id, "start", err)
    /\ adapterQ' = Tail(adapterQ)
    /\ UNCHANGED <<clients, owner, apiQ, engine, used>>

\* stopBatching: assume the stop will be right.
Stop(id, mode, op, keep) ==
    /\ sessions' = [sessions EXCEPT ![id] = "none"]
    /\ apiQ' = Append(apiQ, Request(op, id, mode, sessions[id], keep))

\* An unknown session is an error that nobody reports.  An update stops the
\* session and starts it with the new options when the engine agreed.
HandleStop ==
    /\ Take("stop") \/ Take("update")
    /\ LET m == Head(adapterQ)
       IN  IF sessions[m.id] # "none"
           THEN Stop(m.id, m.mode, m.type, FALSE)
           ELSE UNCHANGED <<sessions, apiQ>>
    /\ adapterQ' = Tail(adapterQ)
    /\ UNCHANGED <<clients, owner, batchFull, pendingStarts, engine, replies, used>>

\* Mutant: the default options of a plain stop have no mode.
AfterRefusedStopUnset(m) == [sessions EXCEPT ![m.id] = "unset"]

\* A refused stop puts the session back with the options of the update; those of
\* a plain stop are the default ones, routine.
AfterRefusedStop(m) == [sessions EXCEPT ![m.id] = m.mode]

\* Mutant: the event is never given up.
FullAfterStopKept(m) == batchFull

\* The event is given up with the last session that needs it.
FullAfterStop(m) == batchFull /\ (AutoReports(sessions) # {} \/ m.old = "noauto")

HandleStopped ==
    /\ TakeAnswer("stop") \/ TakeAnswer("update")
    /\ LET m == Head(adapterQ).to
           err == Head(adapterQ).err
       IN  /\ replies' = Told(m.id, m.op, err)
           /\ \/ /\ err # "ok" /\ ~engine.locked
                 /\ sessions' = AfterRefusedStop(m)
                 /\ UNCHANGED <<batchFull, apiQ>>
              \/ /\ err = "ok" \/ engine.locked
                 /\ m.op = "stop"
                 /\ batchFull' = FullAfterStop(m)
                 /\ UNCHANGED <<sessions, apiQ>>
              \/ /\ err = "ok" \/ engine.locked
                 /\ m.op = "update"
                 /\ batchFull' = (FullAfterStop(m)
                                  \/ (m.mode # "noauto" /\ AutoReports(sessions) = {}))
                 /\ sessions' = [sessions EXCEPT ![m.id] = m.mode]
                 /\ apiQ' = Append(apiQ, Request("start", m.id, m.mode, "none", FALSE))
    /\ adapterQ' = Tail(adapterQ)
    /\ UNCHANGED <<clients, owner, pendingStarts, engine, used>>

HandleGet ==
    /\ Take("get")
    /\ LET id == Head(adapterQ).id
       IN  IF owner[id] \in clients /\ sessions[id] # "none"
           THEN /\ apiQ' = Append(apiQ, Request("get", id, "none", "none", FALSE))
                /\ UNCHANGED replies
           ELSE /\ replies' = Told(id, "get", "unknown")
                /\ UNCHANGED apiQ
    /\ adapterQ' = Tail(adapterQ)
    /\ UNCHANGED <<sessions, clients, owner, batchFull, pendingStarts, engine, used>>

HandleGot ==
    /\ TakeAnswer("get")
    /\ replies' = Told(Head(adapterQ).to.id, "get", Head(adapterQ).err)
    /\ adapterQ' = Tail(adapterQ)
    /\ UNCHANGED <<sessions, clients, owner, batchFull, pendingStarts, apiQ, engine, used>>

\* A batch goes to every client.
HandleLocations ==
    /\ Take("locations")
    /\ replies' = [k \in 1..Cardinality(clients) |->
                      [type |-> "locations", client |-> SetToSeq(clients)[k]]]
    /\ adapterQ' = Tail(adapterQ)
    /\ UNCHANGED <<sessions, clients, owner, batchFull, pendingStarts, apiQ, engine, used>>

Owned(c) == {id \in 1..Len(owner) : owner[id] = c}

\* stopClientSessions: sessions of the client, to be stopped.
Leaving(c) == {id \in Owned(c) : sessions[id] # "none"}

\* eraseClient makes the mask of the event anew from the sessions left.
HandleRemoveClient ==
    /\ Take("removeClient")
    /\ LET c == Head(adapterQ).client
           ids == SetToSortSeq(Leaving(c), <)
       IN  /\ sessions' = [id \in Ids |-> IF id \in Leaving(c) THEN "none" ELSE sessions[id]]
           /\ apiQ' = apiQ \o [k \in 1..Len(ids) |->
                                  Request("stop", ids[k], "routine", sessions[ids[k]], FALSE)]
           /\ clients' = clients \ {c}
           /\ batchFull' = (AutoReports(sessions') # {})
    /\ adapterQ' = Tail(adapterQ)
    /\ UNCHANGED <<owner, pendingStarts, engine, replies, used>>

\* Mutant: only sessions that report by themselves start again.
RestartedAuto(ss) == AutoReports(ss)

Restarted(ss) == {id \in Ids : ss[id] # "none"}

\* MsgSSREvent: a locked engine is left alone.
HandleEngineUp ==
    /\ Take("engineUp")
    /\ IF engine.locked THEN UNCHANGED <<batchFull, apiQ>>
       ELSE LET ids == SetToSortSeq(Restarted(sessions), <)
            IN  /\ batchFull' = (batchFull \/ AutoReports(sessions) # {})
                /\ apiQ' = apiQ \o [k \in 1..Len(ids) |->
                       Request("restart", ids[k], sessions[ids[k]], "none", FALSE)]
    /\ adapterQ' = Tail(adapterQ)
    /\ UNCHANGED <<sessions, clients, owner, pendingStarts, engine, replies, used>>

\* handleEngineLockStatus: starts that were kept are sent again.
HandleLock ==
    /\ Take("lock")
    /\ adapterQ' = IF Head(adapterQ).locked THEN Tail(adapterQ) ELSE Tail(adapterQ) \o pendingStarts
    /\ pendingStarts' = IF Head(adapterQ).locked THEN pendingStarts ELSE <<>>
    /\ UNCHANGED <<sessions, clients, owner, batchFull, apiQ, engine, replies, used>>

AdapterThread ==
    \/ HandleStart \/ HandleStarted \/ HandleStop \/ HandleStopped \/ HandleGet \/ HandleGot
    \/ HandleLocations \/ HandleRemoveClient \/ HandleEngineUp \/ HandleLock

-----------------------------------------------------------------------------
(* The API thread and the engine.                                          *)

CanFail == used.refusals + used.crashes + used.locks < MaxFaults

Answer(m, err) ==
    IF m.op = "restart" THEN adapterQ
    ELSE Append(adapterQ, [type |-> "answer", err |-> err, to |-> m])

Served(m) ==
    CASE m.op \in {"start", "restart"} -> [engine EXCEPT !.sessions[m.id] = m.mode]
      [] m.op \in {"stop", "update"} -> [engine EXCEPT !.sessions[m.id] = "none"]
      [] OTHER -> engine

Locations == [type |-> "locations"]

\* The locations asked for come before the answer.
Serve ==
    /\ apiQ # <<>> /\ Head(apiQ).op # "ssr"
    /\ LET m == Head(apiQ)
       IN  /\ ~(engine.locked /\ m.op \in {"start", "restart"})
           /\ engine' = Served(m)
           /\ adapterQ' = IF m.op = "get"
                          THEN Append(Append(adapterQ, Locations),
                                      [type |-> "answer", err |-> "ok", to |-> m])
                          ELSE Answer(m, "ok")
    /\ apiQ' = Tail(apiQ)
    /\ UNCHANGED <<sessions, clients, owner, batchFull, pendingStarts, replies, used>>

Refuse ==
    /\ apiQ # <<>> /\ Head(apiQ).op # "ssr"
    /\ LET m == Head(apiQ)
           mustFail == engine.locked /\ m.op \in {"start", "restart"}
       IN  /\ \/ mustFail /\ UNCHANGED used
              \/ /\ ~mustFail /\ m.op # "restart"
                 /\ CanFail
                 /\ used' = [used EXCEPT !.refusals = @ + 1]
           /\ adapterQ' = Answer(m, IF mustFail THEN "disabled" ELSE "failure")
    /\ apiQ' = Tail(apiQ)
    /\ UNCHANGED <<sessions, clients, owner, batchFull, pendingStarts, engine, replies>>

\* The engine restarts and forgets its sessions; adapters are told.
EngineCrash ==
    /\ CanFail
    /\ used' = [used EXCEPT !.crashes = @ + 1]
    /\ engine' = [engine EXCEPT !.sessions = [id \in Ids |-> "none"]]
    /\ adapterQ' = Append(adapterQ, [type |-> "engineUp"])
    /\ UNCHANGED <<sessions, clients, owner, batchFull, pendingStarts, apiQ, replies>>

EngineLock ==
    /\ CanFail
    /\ used' = [used EXCEPT !.locks = @ + 1]
    /\ engine' = [engine EXCEPT !.locked = ~@]
    /\ adapterQ' = Append(adapterQ, [type |-> "lock", locked |-> ~engine.locked])
    /\ UNCHANGED <<sessions, clients, owner, batchFull, pendingStarts, apiQ, replies>>

\* A batch is full, and the adapter has registered for the event.
BatchFull ==
    /\ batchFull
    /\ used.reports < MaxReports
    /\ AutoReports(engine.sessions) # {}
    /\ used' = [used EXCEPT !.reports = @ + 1]
    /\ adapterQ' = Append(adapterQ, Locations)
    /\ UNCHANGED <<sessions, clients, owner, batchFull, pendingStarts, apiQ, engine, replies>>

EngineSide == Serve \/ Refuse \/ EngineCrash \/ EngineLock \/ BatchFull

-----------------------------------------------------------------------------
Quiet == adapterQ = <<>> /\ apiQ = <<>> /\ replies = <<>>

AdapterTypeOK ==
    /\ sessions \in [Ids -> Modes \cup {"none"}]
    /\ clients \subseteq Clients
    /\ owner \in Seq(Clients) /\ Len(owner) <= MaxSessions
    /\ batchFull \in BOOLEAN
    /\ engine \in [locked : BOOLEAN, sessions : [Ids -> Modes \cup {"none"}]]
    /\ \A k \in 1..Len(apiQ) : apiQ[k].mode \in Modes \cup {"none"}

\* When nothing is under way and the engine is not locked, it runs the sessions that
\* the adapter keeps: after a refusal, after restarts, and after locks without updates.
\* (Two of these at once are not made up for, nor the refused stop of a session whose
\* start was refused.)
SessionsRun ==
    /\ Quiet /\ ~engine.locked
    /\ \/ used.crashes + used.locks = 0 /\ used.refusals <= 1
       \/ used.refusals + used.locks = 0
       \/ used.refusals + used.crashes + used.updates = 0
    => \A id \in Ids : sessions[id] = "none" <=> engine.sessions[id] = "none"

\* When nothing is under way, no session is left of a client that is gone, unless
\* the answer of an update or of a refused stop came after the client went.
NoneOfTheGone ==
    Quiet /\ used.updates = 0 /\ used.refusals = 0 =>
        \A id \in 1..Len(owner) : owner[id] \notin clients => sessions[id] = "none"

\* Engine and adapter agree on the sessions, and both with the clients that are there.
EngineAgrees == SessionsRun /\ NoneOfTheGone

\* When nothing is under way, an engine that will report full batches by itself is
\* listened to; else the batches would fill and be lost.  (A refused update or stop
\* leaves a session that counts and that registered nothing; an update during a restart
\* under a lock is answered as if it had not started.)
FullIsHeard ==
    Quiet /\ used.refusals = 0 /\ (used.crashes = 0 \/ used.locks = 0) =>
        \A id \in AutoReports(engine.sessions) : owner[id] \in clients => batchFull

\* When nothing is under way and nothing was refused, the event is registered only
\* for a session that needs it.
FullIsNeeded ==
    Quiet /\ used.refusals = 0 /\ used.locks = 0 /\ batchFull => AutoReports(sessions) # {}

\* The batch full event is on exactly for those who need it.
FullAsNeeded == FullIsHeard /\ FullIsNeeded
=============================================================================
