------------------------------- MODULE Trips -------------------------------
(***************************************************************************)
(* The trips of BatchingAdapter: sessions that end when a distance has     *)
(* been covered.  The engine knows one trip; the adapter multiplexes its   *)
(* sessions over it.  It gives the engine the shortest remaining distance  *)
(* and the shortest interval, keeps for each session what was covered      *)
(* before the engine's trip was last restarted and how far the engine had  *)
(* come when the session joined, and computes in uint32_t.                 *)
(*                                                                         *)
(* The engine is external: it counts the distance from the last (re)start, *)
(* reports when it reaches the one it was given, serves requests in order  *)
(* and answers them.                                                       *)
(***************************************************************************)
EXTENDS Integers, Sequences, SequencesExt, FiniteSets

CONSTANTS
    Clients,        \* LocationAPI objects
    Distances,      \* distances of trips
    Intervals,      \* intervals of trips
    Size,           \* number of values of a uint32_t
    MaxTrips,       \* ids that are handed out
    MaxTravel,      \* bounds the distance covered
    MaxCalls,       \* bounds the commands
    MaxFaults       \* bounds refusals and restarts of the engine together

ASSUME TripsAssumption ==
    /\ {MaxTrips, MaxTravel, MaxCalls, MaxFaults} \subseteq Nat
    /\ Size \in Nat \ {0}
    /\ Distances \subseteq 1..(Size - 1) /\ Intervals \subseteq Nat \ {0}

VARIABLES
    saved,          \* trips in mBatchingSessions
    trips,          \* mTripSessions
    ongoing,        \* mOngoingTripDistance, mOngoingTripTBFInterval
    dropped,        \* mTripWithOngoing...Dropped: for which of "distance", "interval"
    batchFull,      \* is the batch full event registered
    clients,        \* mClientData
    owner,          \* whose the ids handed out are
    adapterQ,       \* messages to the adapter thread
    apiQ,           \* requests to the engine
    engine,         \* the trip of the engine
    travelled,      \* distance covered in all
    began,          \* what it was when a trip was asked for or updated, and its distance
    early,          \* trips reported before their distance was covered
    overlap,        \* did a command or a report meet another under way
    used            \* calls, refusals and restarts so far

vars == <<saved, trips, ongoing, dropped, batchFull, clients, owner, adapterQ, apiQ, engine,
          travelled, began, early, overlap, used>>

\* Mutant: signed numbers.
MinusSigned(a, b) == a - b

Minus(a, b) == (a + Size - (b % Size)) % Size
Plus(a, b) == (a + b) % Size

Off == [on |-> FALSE, distance |-> 0, interval |-> 0, covered |-> 0]

Init ==
    /\ saved = {}
    /\ trips = <<>>
    /\ ongoing = [distance |-> 0, interval |-> 0]
    /\ dropped = {}
    /\ batchFull = FALSE
    /\ clients = Clients
    /\ owner = <<>>
    /\ adapterQ = <<>>
    /\ apiQ = <<>>
    /\ engine = Off
    /\ travelled = 0
    /\ began = <<>>
    /\ early = {}
    /\ overlap = FALSE
    /\ used = [calls |-> 0, refusals |-> 0, crashes |-> 0]

Quiet == adapterQ = <<>> /\ apiQ = <<>>

-----------------------------------------------------------------------------
(* Commands, posted on the threads of clients.                             *)

Post(m) ==
    /\ used.calls < MaxCalls
    /\ used' = [used EXCEPT !.calls = @ + 1]
    /\ overlap' = (overlap \/ ~Quiet)
    /\ adapterQ' = Append(adapterQ, m)
    /\ UNCHANGED <<saved, trips, ongoing, dropped, batchFull, clients, apiQ, engine, travelled,
                   early>>

StartBatching ==
    /\ Len(owner) < MaxTrips
    /\ \E c \in clients, d \in Distances, i \in Intervals :
        /\ Post([type |-> "start", id |-> Len(owner) + 1, distance |-> d, interval |-> i])
        /\ owner' = Append(owner, c)
        /\ began' = Append(began, [at |-> travelled, distance |-> d])

StopBatching ==
    \E id \in 1..Len(owner) :
        /\ owner[id] \in clients
        /\ Post([type |-> "stop", id |-> id])
        /\ UNCHANGED <<owner, began>>

\* A trip with other options begins anew.
UpdateBatching ==
    \E id \in 1..Len(owner), d \in Distances, i \in Intervals :
        /\ owner[id] \in clients
        /\ Post([type |-> "update", id |-> id, distance |-> d, interval |-> i])
        /\ UNCHANGED <<owner, began>>

Destroy ==
    \E c \in clients :
        /\ Post([type |-> "removeClient", client |-> c])
        /\ UNCHANGED <<owner, began>>

-----------------------------------------------------------------------------
(* What the adapter asks of the engine.                                    *)

Take(type) == adapterQ # <<>> /\ Head(adapterQ).type = type

TakeAnswer(purpose) == Take("answer") /\ Head(adapterQ).to.purpose = purpose

\* autoReportBatchingSessionsCount: a trip that was saved counts twice.
AutoReports(s, ts) == Cardinality(s) + Cardinality(DOMAIN ts)

Request(op, purpose, d, i) == [op |-> op, purpose |-> purpose, distance |-> d, interval |-> i]

NewTrip(joinedAt, d, i) ==
    [ongoing |-> joinedAt, thisTrip |-> 0, onRestart |-> 0, distance |-> d, interval |-> i]

With(ts, id, t) == [k \in DOMAIN ts \cup {id} |-> IF k = id THEN t ELSE ts[k]]
Without(ts, ids) == [k \in DOMAIN ts \ ids |-> ts[k]]

\* The first trip starts the engine; another asks how far the engine has come.
StartRequest(ts, m) ==
    IF DOMAIN ts = {}
    THEN [op |-> "start", purpose |-> "first", id |-> m.id, distance |-> m.distance,
          interval |-> m.interval]
    ELSE [op |-> "query", purpose |-> "join", id |-> m.id, distance |-> m.distance,
          interval |-> m.interval]

\* The smallest, where 0 is not a value yet.
Least(values) == FoldLeft(LAMBDA min, v : IF min = 0 \/ min > v THEN v ELSE min, 0, values)

InOrder(ts) == SetToSortSeq(DOMAIN ts, <)
Remaining(ts) == LET ids == InOrder(ts)
                 IN  Least([k \in 1..Len(ids) |-> Minus(ts[ids[k]].distance, ts[ids[k]].thisTrip)])
ShortestInterval(ts) == LET ids == InOrder(ts)
                        IN  Least([k \in 1..Len(ids) |-> ts[ids[k]].interval])

\* restartTripBatching with trips left: ask how far the engine has come, and take
\* that or what is known.
AgainRequest(ts, ask, covered) ==
    [op |-> "query", purpose |-> "again", distance |-> Remaining(ts),
     interval |-> ShortestInterval(ts), ask |-> ask, covered |-> covered]

\* What was covered of a trip when the engine has come this far.
Covered(t, far) == Plus(t.onRestart, Minus(far, t.ongoing))

\* startTripBatchingMultiplex
Start(s, ts, m) ==
    IF DOMAIN ts = {}
    THEN /\ saved' = s \cup {m.id}
         /\ trips' = With(ts, m.id, NewTrip(0, m.distance, m.interval))
         /\ batchFull' = (batchFull \/ s = {})
    ELSE saved' = s /\ trips' = ts /\ UNCHANGED batchFull

HandleStart ==
    /\ Take("start")
    /\ Start(saved, trips, Head(adapterQ))
    /\ apiQ' = Append(apiQ, StartRequest(trips, Head(adapterQ)))
    /\ adapterQ' = Tail(adapterQ)
    /\ UNCHANGED <<ongoing, dropped, clients, owner, engine, travelled, began, early, overlap, used>>

HandleFirst ==
    /\ TakeAnswer("first")
    /\ LET m == Head(adapterQ).to
       IN  IF Head(adapterQ).err = "ok"
           THEN /\ ongoing' = [distance |-> m.distance, interval |-> m.interval]
                /\ UNCHANGED <<saved, trips, batchFull>>
           ELSE /\ saved' = saved \ {m.id}
                /\ trips' = Without(trips, {m.id})
                /\ batchFull' = (batchFull /\ AutoReports(saved', trips') > 0)
                /\ UNCHANGED ongoing
    /\ adapterQ' = Tail(adapterQ)
    /\ UNCHANGED <<dropped, clients, owner, apiQ, engine, travelled, began, early, overlap, used>>

\* What a trip that joins would have the engine do: the distance left of the engine's
\* trip is not known if the query failed.
JoinDistance(m, err, far) ==
    LET left == IF err = "ok" THEN Minus(ongoing.distance, far) ELSE ongoing.distance
    IN  IF m.distance < left THEN m.distance
        ELSE IF err = "ok" /\ m.interval < ongoing.interval THEN left ELSE ongoing.distance

JoinRestarts(m, err, far) ==
    \/ m.interval < ongoing.interval
    \/ m.distance < (IF err = "ok" THEN Minus(ongoing.distance, far) ELSE ongoing.distance)

\* Mutant: the engine keeps its interval.
JoinIntervalKept(m) == ongoing.interval

JoinInterval(m) == IF m.interval < ongoing.interval THEN m.interval ELSE ongoing.interval

\* The engine will count from 0; what was covered before was last computed when the
\* engine last reported or was last restarted.
OnNewBatch(t) == [t EXCEPT !.ongoing = 0, !.onRestart = t.thisTrip]

\* A trip whose query failed is not kept, though its client is told of a success.
HandleJoin ==
    /\ TakeAnswer("join")
    /\ LET m == Head(adapterQ).to
           err == Head(adapterQ).err
           far == Head(adapterQ).covered
           joined == IF err = "ok" THEN With(trips, m.id, NewTrip(far, m.distance, m.interval))
                     ELSE trips
       IN  IF JoinRestarts(m, err, far)
           THEN /\ ongoing' = [distance |-> JoinDistance(m, err, far), interval |-> JoinInterval(m)]
                /\ trips' = [id \in DOMAIN joined |-> OnNewBatch(joined[id])]
                /\ apiQ' = Append(apiQ, Request("start", "joined", ongoing'.distance,
                                                ongoing'.interval))
           ELSE trips' = joined /\ UNCHANGED <<ongoing, apiQ>>
    /\ adapterQ' = Tail(adapterQ)
    /\ UNCHANGED <<saved, dropped, batchFull, clients, owner, engine, travelled, began, early,
                   overlap, used>>

\* Answers that change nothing.
HandleAnswer ==
    /\ TakeAnswer("joined") \/ TakeAnswer("none")
    /\ adapterQ' = Tail(adapterQ)
    /\ UNCHANGED <<saved, trips, ongoing, dropped, batchFull, clients, owner, apiQ, engine,
                   travelled, began, early, overlap, used>>

-----------------------------------------------------------------------------
(* The end of trips.                                                       *)

\* MsgReportCompletedTrips compares the options of a trip after it was erased:
\* whether a flag is set is arbitrary.
HandleCompleted ==
    /\ Take("completed")
    /\ LET far == Head(adapterQ).covered
           now == [id \in DOMAIN trips |-> [trips[id] EXCEPT !.thisTrip = Covered(trips[id], far)]]
           done == {id \in DOMAIN trips : now[id].distance <= now[id].thisTrip}
           left == Without(now, done)
       IN  /\ trips' = left
           /\ early' = early \cup {id \in done : travelled - began[id].at < began[id].distance}
           /\ IF done = {}
              THEN UNCHANGED <<ongoing, dropped, batchFull, apiQ>>
              ELSE /\ \E more \in SUBSET {"distance", "interval"} : dropped' = dropped \cup more
                   /\ IF DOMAIN left = {}
                      THEN /\ ongoing' = [distance |-> 0, interval |-> 0]
                           /\ batchFull' = (batchFull /\ AutoReports(saved, left) > 0)
                           /\ apiQ' = Append(apiQ, Request("stop", "none", 0, 0))
                      ELSE /\ apiQ' = Append(apiQ, AgainRequest(left, FALSE, far))
                           /\ UNCHANGED <<ongoing, batchFull>>
    /\ adapterQ' = Tail(adapterQ)
    /\ UNCHANGED <<saved, clients, owner, engine, travelled, began, overlap, used>>

\* Does the engine need another distance: always once the trip that it was given for
\* has gone, a flag that is never taken back.
AgainRestarts(m, far) ==
    IF "distance" \notin dropped /\ Minus(ongoing.distance, far) # 0
    THEN m.distance < Minus(ongoing.distance, far)
    ELSE m.distance # 0

AgainInterval(m) ==
    \/ m.interval < ongoing.interval
    \/ m.interval # ongoing.interval /\ "interval" \in dropped

HandleAgain ==
    /\ TakeAnswer("again") /\ Head(adapterQ).to.op = "query"
    /\ LET m == Head(adapterQ).to
           far == IF m.ask THEN Head(adapterQ).covered ELSE m.covered
       IN  IF AgainRestarts(m, far) \/ AgainInterval(m)
           THEN apiQ' = Append(apiQ,
                    [op |-> "start", purpose |-> "again", covered |-> far,
                     distance |-> IF AgainRestarts(m, far) THEN m.distance ELSE ongoing.distance,
                     interval |-> IF AgainInterval(m) THEN m.interval ELSE ongoing.interval])
           ELSE UNCHANGED apiQ
    /\ adapterQ' = Tail(adapterQ)
    /\ UNCHANGED <<saved, trips, ongoing, dropped, batchFull, clients, owner, engine, travelled,
                   began, early, overlap, used>>

\* Mutant: what was covered before the restart is counted again.
AfterRestartTwice(t, far) ==
    [t EXCEPT !.thisTrip = Covered(t, far), !.onRestart = Covered(t, far)]

AfterRestart(t, far) ==
    [t EXCEPT !.thisTrip = Covered(t, far), !.ongoing = 0, !.onRestart = Covered(t, far)]

HandleRestarted ==
    /\ TakeAnswer("again") /\ Head(adapterQ).to.op = "start"
    /\ LET m == Head(adapterQ).to
       IN  IF Head(adapterQ).err = "ok"
           THEN /\ trips' = [id \in DOMAIN trips |-> AfterRestart(trips[id], m.covered)]
                /\ ongoing' = [distance |-> m.distance, interval |-> m.interval]
           ELSE UNCHANGED <<trips, ongoing>>
    /\ adapterQ' = Tail(adapterQ)
    /\ UNCHANGED <<saved, dropped, batchFull, clients, owner, apiQ, engine, travelled, began, early, overlap, used>>

-----------------------------------------------------------------------------
(* Stops.                                                                  *)

Nothing == [distance |-> 0, interval |-> 0]

\* What a stop changes, and what it asks of the engine.
Now == [trips |-> trips, ongoing |-> ongoing, dropped |-> dropped, requests |-> <<>>]

\* stopTripBatchingMultiplexCommon.  A trip that is not there any more is read all the
\* same: guess is what the flags become.
Stopped(st, id, guess) ==
    LET left == Without(st.trips, {id})
    IN  [trips |-> left,
         dropped |-> st.dropped \cup
             (IF id \in DOMAIN st.trips
              THEN {o \in {"distance", "interval"} : st.trips[id][o] = st.ongoing[o]} ELSE guess),
         ongoing |-> IF DOMAIN left = {} THEN Nothing ELSE st.ongoing,
         requests |-> IF DOMAIN left = {} THEN st.requests
                      ELSE Append(st.requests, AgainRequest(left, TRUE, 0))]

StopRequest(op, purpose, m) == [op |-> op, purpose |-> purpose, of |-> m]

\* stopTripBatchingMultiplex: the last trip is stopped in the engine first.
StopTrip(st, m, guess) ==
    IF Cardinality(DOMAIN st.trips) = 1
    THEN [st EXCEPT !.requests = Append(@, StopRequest("stop", "stopped", m))]
    ELSE Stopped(st, m.id, guess)

Become(st, s) ==
    /\ trips' = st.trips /\ ongoing' = st.ongoing /\ dropped' = st.dropped
    /\ apiQ' = apiQ \o st.requests
    /\ saved' = s

\* Then start with the new options, if there are any: with other trips left, while the
\* engine is still asked about these.
BecomeAnew(st, m, s, full) ==
    IF m.type # "update"
    THEN Become(st, s) /\ batchFull' = full /\ UNCHANGED <<began, overlap>>
    ELSE /\ overlap' = (overlap \/ DOMAIN st.trips # {})
         /\ began' = [began EXCEPT ![m.id] = [at |-> travelled, distance |-> m.distance]]
         /\ ongoing' = st.ongoing /\ dropped' = st.dropped
         /\ apiQ' = apiQ \o Append(st.requests, StartRequest(st.trips, m))
         /\ IF DOMAIN st.trips = {}
            THEN /\ saved' = (s \ {m.id}) \cup {m.id}
                 /\ trips' = With(st.trips, m.id, NewTrip(0, m.distance, m.interval))
                 /\ batchFull' = (full \/ s \ {m.id} = {})
            ELSE saved' = s \ {m.id} /\ trips' = st.trips /\ batchFull' = full

\* Only the trip that started the engine was saved as a session; it stays so when it
\* has ended, and is then stopped like a session of another kind.
HandleStop ==
    /\ Take("stop") \/ Take("update")
    /\ LET m == Head(adapterQ)
       IN  CASE m.id \notin saved ->
                   UNCHANGED <<saved, trips, ongoing, dropped, batchFull, apiQ, began, overlap>>
             [] m.id \in saved /\ m.id \notin DOMAIN trips ->
                   /\ saved' = saved \ {m.id}
                   /\ apiQ' = Append(apiQ, StopRequest("stopSession", "session", m))
                   /\ UNCHANGED <<trips, ongoing, dropped, batchFull, began, overlap>>
             [] OTHER ->
                   IF Cardinality(DOMAIN trips) = 1
                   THEN Become(StopTrip(Now, m, {}), saved) /\ UNCHANGED <<batchFull, began, overlap>>
                   ELSE BecomeAnew(StopTrip(Now, m, {}), m, saved, batchFull)
    /\ adapterQ' = Tail(adapterQ)
    /\ UNCHANGED <<clients, owner, engine, travelled, early, used>>

\* The trip goes even when the engine refused to stop it.
HandleStopped ==
    /\ TakeAnswer("stopped")
    /\ LET m == Head(adapterQ).to.of
           full == batchFull /\ ~(Head(adapterQ).err = "ok" /\ AutoReports(saved, trips) = 1)
       IN  \E guess \in SUBSET {"distance", "interval"} :
               /\ m.id \in DOMAIN trips => guess = {}
               /\ BecomeAnew(Stopped(Now, m.id, guess), m, saved, full)
    /\ adapterQ' = Tail(adapterQ)
    /\ UNCHANGED <<clients, owner, engine, travelled, early, used>>

HandleStoppedSession ==
    /\ TakeAnswer("session")
    /\ BecomeAnew(Now, Head(adapterQ).to.of, saved, batchFull /\ AutoReports(saved, trips) > 0)
    /\ adapterQ' = Tail(adapterQ)
    /\ UNCHANGED <<clients, owner, engine, travelled, early, used>>

\* stopClientSessions: the trips of the client that were saved.
HandleRemoveClient ==
    /\ Take("removeClient")
    /\ LET c == Head(adapterQ).client
           ids == SetToSortSeq({id \in saved : owner[id] = c}, <)
       IN  /\ \E guess \in SUBSET {"distance", "interval"} :
               /\ ToSet(ids) \subseteq DOMAIN trips => guess = {}
               /\ Become(FoldLeft(LAMBDA st, id : StopTrip(st, [type |-> "stop", id |-> id], guess),
                                  Now, ids),
                         saved)
           /\ batchFull' = (AutoReports(saved', trips') > 0)
           /\ clients' = clients \ {c}
    /\ adapterQ' = Tail(adapterQ)
    /\ UNCHANGED <<owner, engine, travelled, began, early, overlap, used>>

\* restartSessions.  It resets how far the engine had come in copies of the trips.
HandleEngineUp ==
    /\ Take("engineUp")
    /\ batchFull' = (batchFull \/ AutoReports(saved, trips) > 0)
    /\ IF DOMAIN trips = {} THEN UNCHANGED <<ongoing, apiQ>>
       ELSE /\ ongoing' = [distance |-> Remaining(trips), interval |-> ShortestInterval(trips)]
            /\ apiQ' = Append(apiQ, Request("start", "resumed", ongoing'.distance, ongoing'.interval))
    /\ adapterQ' = Tail(adapterQ)
    /\ UNCHANGED <<saved, trips, dropped, clients, owner, engine, travelled, began, early, overlap,
                   used>>

HandleResumed ==
    /\ TakeAnswer("resumed")
    /\ ongoing' = IF Head(adapterQ).err = "ok" THEN ongoing ELSE Nothing
    /\ adapterQ' = Tail(adapterQ)
    /\ UNCHANGED <<saved, trips, dropped, batchFull, clients, owner, apiQ, engine, travelled, began,
                   early, overlap, used>>

-----------------------------------------------------------------------------
(* The engine.                                                             *)

Reply(m, err, far) == [type |-> "answer", to |-> m, err |-> err, covered |-> far]

Serve ==
    /\ apiQ # <<>>
    /\ LET m == Head(apiQ)
       IN  /\ engine' = CASE m.op = "start" -> [on |-> TRUE, distance |-> m.distance,
                                                interval |-> m.interval, covered |-> 0]
                          [] m.op = "stop" -> Off
                          [] OTHER -> engine
           /\ adapterQ' = Append(adapterQ, Reply(m, "ok", engine.covered))
    /\ apiQ' = Tail(apiQ)
    /\ UNCHANGED <<saved, trips, ongoing, dropped, batchFull, clients, owner, travelled, began, early, overlap, used>>

CanFail == used.refusals + used.crashes < MaxFaults

Refuse ==
    /\ apiQ # <<>> /\ Head(apiQ).op # "stopSession" /\ CanFail
    /\ used' = [used EXCEPT !.refusals = @ + 1]
    /\ adapterQ' = Append(adapterQ, Reply(Head(apiQ), "failure", 0))
    /\ apiQ' = Tail(apiQ)
    /\ UNCHANGED <<saved, trips, ongoing, dropped, batchFull, clients, owner, engine, travelled, began,
                   early, overlap>>

EngineCrash ==
    /\ CanFail
    /\ used' = [used EXCEPT !.crashes = @ + 1]
    /\ engine' = Off
    /\ adapterQ' = Append(adapterQ, [type |-> "engineUp"])
    /\ overlap' = (overlap \/ ~Quiet)
    /\ UNCHANGED <<saved, trips, ongoing, dropped, batchFull, clients, owner, apiQ, travelled, began,
                   early>>

Travel ==
    /\ travelled < MaxTravel
    /\ travelled' = travelled + 1
    /\ engine' = IF engine.on THEN [engine EXCEPT !.covered = @ + 1] ELSE engine
    /\ IF engine.on /\ engine'.covered = engine.distance
       THEN /\ adapterQ' = Append(adapterQ, [type |-> "completed", covered |-> engine.distance])
            /\ overlap' = (overlap \/ ~Quiet)
       ELSE UNCHANGED <<adapterQ, overlap>>
    /\ UNCHANGED <<saved, trips, ongoing, dropped, batchFull, clients, owner, apiQ, began, early,
                   used>>

Next ==
    \/ StartBatching \/ StopBatching \/ UpdateBatching \/ Destroy
    \/ HandleStart \/ HandleFirst \/ HandleJoin \/ HandleAnswer \/ HandleCompleted \/ HandleAgain
    \/ HandleRestarted \/ HandleStop \/ HandleStopped \/ HandleStoppedSession \/ HandleRemoveClient
    \/ HandleEngineUp \/ HandleResumed
    \/ Serve \/ Refuse \/ EngineCrash \/ Travel

Spec == Init /\ [][Next]_vars

-----------------------------------------------------------------------------
Trip == [ongoing : 0..(Size - 1), thisTrip : 0..(Size - 1), onRestart : 0..(Size - 1),
         distance : Distances, interval : Intervals]

\* Bounds a run: what follows once something met something else under way.
Orderly == ~overlap

\* Distances stay in their word of Size values, and what they are taken from
\* (accumulatedDistance..., uint32_t, BatchingAdapter.h).
TypeOK ==
    /\ saved \subseteq 1..MaxTrips
    /\ DOMAIN trips \subseteq 1..MaxTrips
    /\ \A id \in DOMAIN trips : trips[id] \in Trip
    /\ ongoing.distance \in 0..(Size - 1) /\ ongoing.interval \in Intervals \cup {0}
    /\ engine.covered \in 0..MaxTravel

\* A trip is reported complete only when its distance was covered since it was asked for.
\* (After a refused restart, or one of the engine, it may be reported before.)
NotEarly == ~overlap /\ used.refusals + used.crashes = 0 => early = {}

\* Nothing is under way, nothing met anything else under way before, and no client left
\* (one that does may stop the trip of another) and no request was refused.
Undisturbed == Quiet /\ ~overlap /\ clients = Clients /\ used.refusals = 0

\* The engine runs exactly when there are trips, whatever stops, updates, completed trips
\* and restarts of the engine came before.
EngineRuns == Undisturbed => (engine.on <=> DOMAIN trips # {})

\* No trip waits longer for a position than it asked for.
IntervalServed == Undisturbed => \A id \in DOMAIN trips : engine.interval <= trips[id].interval

\* The batches of trips are listened to, whatever was refused.
TripsAreHeard == Quiet /\ ~overlap /\ DOMAIN trips # {} => batchFull

\* The engine's one trip serves all of them.
TripsAreServed == EngineRuns /\ IntervalServed /\ TripsAreHeard
=============================================================================
