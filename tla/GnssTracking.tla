---------------------------- MODULE GnssTracking ----------------------------
(***************************************************************************)
(* Tracking sessions of the GNSS adapter.                                  *)
(*                                                                         *)
(* Clients (LocationAPI objects, on their own threads) post commands to    *)
(* the queue of the adapter thread.  The adapter thread keeps the maps of  *)
(* time-based and distance-based sessions, multiplexes the time-based ones *)
(* onto a single fix session, and posts requests to the queue of the API   *)
(* thread, which calls the GNSS engine and posts the engine's answer back  *)
(* as a response message.  The engine may crash: the API thread then       *)
(* reopens it and the adapter restarts its sessions.                       *)
(*                                                                         *)
(* Both queues are FIFO and each has one consumer, so one message of each  *)
(* is handled at a time; everything else interleaves.  An engine hub that  *)
(* wants NHz measurements restarts the sessions on a thread of its own,    *)
(* without a message, from the maps that the adapter thread is changing.   *)
(***************************************************************************)
EXTENDS TrackingOptions, Integers, Sequences

CONSTANTS
    Clients,        (* LocationAPI objects                                           *)
    MaxId,          (* bound: tracking sessions ever requested                       *)
    StartOptions,   (* options clients pass to startTracking                         *)
    UpdateOptions,  (* options clients pass to updateTrackingOptions                 *)
    TrackingCbs,    (* whether a client's callbacks include one that allows tracking *)
    SharedEngine,   (* distance-based requests use the one fix session of the SLL    *)
    EngineMayFail,  (* the engine may refuse a request while it is up                *)
    ControlApi,     (* a LocationControlAPI exists and changes the configuration     *)
    MaxCrashes,     (* bound: engine crashes                                         *)
    MaxCalls,       (* bound: client calls and configuration changes                 *)
    MaxNHz,         (* bound: changes of the hub's mind about NHz; 0 if none is loaded *)
    NoCallback      (* a null LocApiResponse                                         *)

ASSUME GnssAssumption ==
    /\ MaxId \in Nat /\ MaxCrashes \in Nat /\ MaxCalls \in Nat /\ MaxNHz \in Nat
    /\ StartOptions \subseteq Options /\ UpdateOptions \subseteq Options
    /\ TrackingCbs \subseteq BOOLEAN
    /\ {SharedEngine, EngineMayFail, ControlApi} \subseteq BOOLEAN

Ids == 1 .. MaxId
Keys == Clients \X Ids     \* LocationSessionKey

VARIABLES
    (* clients *)
    lifecycle,           \* "unborn", "alive" or "destroyed"
    owner,               \* the client each session id was given to; the next id is Len + 1
    (* adapter thread *)
    clientData,          \* mClientData: does the client have a tracking callback?
    timeBased,           \* mTimeBasedTrackingSessions
    distanceBased,       \* mDistanceBasedTrackingSessions
    capabilitiesKnown,   \* mIsEngineCapabilitiesKnown
    pendingMsgs,         \* mPendingMsgs, each with a mark: already handed to the queue
    nHzNeeded,           \* mNHzNeeded
    speAtHighest,        \* mSPEAlreadyRunningAtHighestInterval
    adapterQ,            \* messages of the adapter thread
    (* API thread and engine *)
    apiQ,                \* messages of the API thread
    engine,              \* is it up, its fix session, its distance-based sessions
    (* engine hub *)
    hub,                 \* where its call of updateNHzRequirementCb is, what it will request
    (* what the clients observed *)
    owed,                \* commands of a session minus responses to it
    told,                \* the last response
    ended,               \* sessions whose stop was carried out or answered ID_UNKNOWN
    danglingUsed,        \* a pending message was queued again after its deletion
    crossed,             \* ended sessions of which something was under way just then
    raced,               \* the hub requested what it had read before a session changed
    (* bounds *)
    calls, crashes

clientVars  == <<lifecycle, owner, calls, hub>>
historyVars == <<crossed, raced>>
sessionVars == <<timeBased, distanceBased>>
replyVars   == <<owed, told>>
setupVars   == <<clientData, capabilitiesKnown, pendingMsgs, nHzNeeded, danglingUsed>>
adapterVars == <<clientData, timeBased, distanceBased, capabilitiesKnown, pendingMsgs,
                 nHzNeeded, speAtHighest, owed, told, ended, danglingUsed>>
vars == <<lifecycle, owner, clientData, timeBased, distanceBased, capabilitiesKnown,
          pendingMsgs, nHzNeeded, speAtHighest, adapterQ, apiQ, engine, hub,
          owed, told, ended, danglingUsed, crossed, raced, calls, crashes>>

-----------------------------------------------------------------------------
(* Messages *)

Errors == {"SUCCESS", "GENERAL_FAILURE", "ID_UNKNOWN", "INVALID_PARAMETER"}

\* What a LocApiResponse does when it comes back to the adapter thread.
Callbacks ==
    [then : {"fixStarted", "fixStopped", "distanceStarted", "distanceStopped",
             "clientDistanceStopped"}, key : Keys]
      \cup [then : {"fixUpdated"}, key : Keys, options : SessionOptions]
      \cup [then : {"switchToTime"}, key : Keys, options : {o \in SessionOptions : o.distance = 0}]
      \cup [then : {"restartDistance", "distanceRestarted"}, key : Keys,
            options : {o \in SessionOptions : o.distance > 0}]

Commands ==
    [type : {"startTracking", "updateTracking"}, key : Keys, options : Options]

AdapterMsgs ==
    Commands
      \cup [type : {"addClient"}, client : Clients, tracking : BOOLEAN]
      \cup [type : {"removeClient"}, client : Clients]
      \cup [type : {"stopTracking"}, key : Keys]
      \cup [type : {"response"}, cb : Callbacks, err : Errors]
      \cup [type : {"engineUp", "reconfigure"}]

MaybeCallback == Callbacks \cup {NoCallback}

ApiMsgs ==
    [op : {"open", "ssr"}]
      \cup [op : {"startFix"}, options : Options, cb : MaybeCallback]
      \cup [op : {"stopFix"}, cb : MaybeCallback]
      \cup [op : {"startDistance"}, id : Ids, options : Options, cb : MaybeCallback]
      \cup [op : {"stopDistance"}, id : Ids, cb : MaybeCallback]

Then(name, k) == [then |-> name, key |-> k]
ThenWith(name, k, o) == [then |-> name, key |-> k, options |-> o]
StartFix(o, cb) == [op |-> "startFix", options |-> o, cb |-> cb]
StopFix(cb) == [op |-> "stopFix", cb |-> cb]
StartDistance(k, o, cb) == [op |-> "startDistance", id |-> k[2], options |-> o, cb |-> cb]
StopDistance(k, cb) == [op |-> "stopDistance", id |-> k[2], cb |-> cb]

\* An engine that runs nothing.
Stopped(up) == [up |-> up, running |-> FALSE, fix |-> Unset, distance |-> {}]

-----------------------------------------------------------------------------
(* Helpers of the adapter *)

Without(f, k) == [j \in DOMAIN f \ {k} |-> f[j]]
With(f, k, o) == [j \in DOMAIN f \cup {k} |-> IF j = k THEN o ELSE f[j]]

\* reportResponse: a client the adapter does not know is not called back.
ReportResponse(k, err) ==
    IF k[1] \in DOMAIN clientData
    THEN /\ owed' = [owed EXCEPT ![k] = @ - 1]
         /\ told' = [told EXCEPT ![k] = err]
    ELSE UNCHANGED replyVars

\* Mutant: the client is answered at once although the engine's answer will follow.
ReportAlways(reported, k, err) == ReportResponse(k, err)

ReportIf(reported, k, err) ==
    IF reported THEN ReportResponse(k, err) ELSE UNCHANGED replyVars

\* saveTrackingSession, on time-based sessions tb; k is in at most one of the maps
\* the code leaves it in, and this adds it to the one its options call for.
SaveTrackingSession(tb, k, o) ==
    IF IsDistanceBased(o)
    THEN timeBased' = tb /\ distanceBased' = With(distanceBased, k, o)
    ELSE timeBased' = With(tb, k, o) /\ UNCHANGED distanceBased

\* Mutant: only one of the maps is looked at.
EraseDistanceBased(k) ==
    distanceBased' = Without(distanceBased, k) /\ UNCHANGED timeBased

EraseTrackingSession(k) ==
    IF k \in DOMAIN timeBased
    THEN timeBased' = Without(timeBased, k) /\ UNCHANGED distanceBased
    ELSE distanceBased' = Without(distanceBased, k) /\ UNCHANGED timeBased

\* What a request for a fix session does: the requests posted to the API thread,
\* the new mSPEAlreadyRunningAtHighestInterval, whether the client was answered on
\* the way, and the reportToClientWithNoWait the caller gets back.
Effect(requests, spe, reported, noWait) ==
    [requests |-> requests, spe |-> spe, reported |-> reported, noWait |-> noWait]

NoRequest == Effect(<<>>, speAtHighest, FALSE, TRUE)

\* checkAndSetSPEToRunforNHz, and startTimeBasedTracking of the LocApi unless the
\* engine already runs at its highest rate.
RequestFix(o, cb, spe, nHz) ==
    IF nHz /\ spe THEN Effect(<<>>, TRUE, TRUE, FALSE)
    ELSE IF nHz /\ o.interval > MinInterval
    THEN Effect(<<StartFix([o EXCEPT !.interval = MinInterval], cb)>>, TRUE, FALSE, FALSE)
    ELSE Effect(<<StartFix(o, cb)>>, spe, FALSE, FALSE)

\* The fix session is requested anew if session options o, joining the sessions f,
\* ask more than they do.
JoinEffects(o, f, cb) ==
    {IF AsksMore(o, base, power)
     THEN RequestFix(Multiplexed(o, base, power), cb, speAtHighest, nHzNeeded)
     ELSE NoRequest : base \in SmallestInterval(f), power \in LowestPower(f)}

\* startTimeBasedTrackingMultiplex
StartEffects(k, o) ==
    LET cb == Then("fixStarted", k) IN
    IF DOMAIN timeBased = {} THEN {RequestFix(o, cb, speAtHighest, nHzNeeded)}
    ELSE JoinEffects(o, timeBased, cb)

\* updateTrackingMultiplex
UpdateEffects(k, o) ==
    LET old == timeBased[k]
        cb == ThenWith("fixUpdated", k, old)
    IN  IF o.interval = old.interval /\ o.power = old.power THEN {NoRequest}
        ELSE IF DOMAIN timeBased = {k} THEN {RequestFix(o, cb, speAtHighest, nHzNeeded)}
        ELSE JoinEffects(o, Without(timeBased, k), cb)

StopRequest(k) == Effect(<<StopFix(Then("fixStopped", k))>>, FALSE, FALSE, FALSE)

\* stopTimeBasedTrackingMultiplex
StopEffects(k) ==
    LET f == Without(timeBased, k) IN
    IF DOMAIN timeBased = {k} THEN {StopRequest(k)}
    ELSE {IF AsksMore(timeBased[k], base, power)
          THEN RequestFix(WithPower(base, power), Then("fixStarted", k),
                          speAtHighest, nHzNeeded)
          ELSE NoRequest : base \in SmallestInterval(f), power \in LowestPower(f)}

\* The order a session map is iterated in.
InOrder(K) ==
    {s \in UNION {[1 .. n -> K] : n \in 0 .. MaxId} :
        /\ \A k \in K : \E i \in DOMAIN s : s[i] = k
        /\ \A i, j \in DOMAIN s : i < j => s[i][2] < s[j][2]}

Followed(e, requests) == [e EXCEPT !.requests = @ \o requests]

\* checkAndRestartDistanceBasedSessions (part of checkAndRestartSPESession).
DistanceRequests(s) ==
    [i \in DOMAIN s |-> StartDistance(s[i], distanceBased[s[i]], NoCallback)]

\* Mutant: the engine that restarts is taken to run at its highest rate still.
RestartFixAtHighest(o, nHz) == RequestFix(o, NoCallback, speAtHighest, nHz)

\* checkAndRestartTimeBasedSession: the one place that forgets about the highest rate.
RestartFix(o, nHz) == RequestFix(o, NoCallback, FALSE, nHz)
NothingToFix == Effect(<<>>, FALSE, FALSE, FALSE)

\* checkAndRestartSPESession: request the fix session for the time-based sessions,
\* and every distance-based session, again.
RestartEffects(nHz) ==
    LET fix == IF DOMAIN timeBased = {} THEN {NothingToFix}
               ELSE {RestartFix(o, nHz) : o \in RestartOptions(timeBased)}
    IN  {Followed(e, DistanceRequests(s)) : e \in fix, s \in InOrder(DOMAIN distanceBased)}

Post(e) == apiQ' = apiQ \o e.requests /\ speAtHighest' = e.spe

-----------------------------------------------------------------------------
(* Client threads: LocationAPI objects and the control API *)

Init ==
    /\ lifecycle = [c \in Clients |-> "unborn"]
    /\ owner = <<>>
    /\ clientData = <<>>
    /\ timeBased = <<>> /\ distanceBased = <<>>
    /\ capabilitiesKnown = FALSE
    /\ pendingMsgs = <<>>
    /\ nHzNeeded = FALSE /\ speAtHighest = FALSE
    /\ adapterQ = <<>>
    /\ apiQ = << [op |-> "open"] >>     \* addAdapter, in the adapter's constructor
    /\ engine = Stopped(FALSE)
    /\ hub = [at |-> "idle", requests |-> <<>>, changes |-> 0]
    /\ owed = [k \in Keys |-> 0] /\ told = [k \in Keys |-> "nothing"]
    /\ ended = {}
    /\ danglingUsed = FALSE
    /\ crossed = {} /\ raced = FALSE
    /\ calls = 0 /\ crashes = 0

Call(m) ==
    /\ calls < MaxCalls /\ calls' = calls + 1
    /\ adapterQ' = Append(adapterQ, m)
    /\ UNCHANGED <<adapterVars, apiQ, engine, hub, historyVars, crashes>>

CreateInstance(c, tracking) ==
    /\ lifecycle[c] = "unborn"
    /\ lifecycle' = [lifecycle EXCEPT ![c] = "alive"]
    /\ Call([type |-> "addClient", client |-> c, tracking |-> tracking])
    /\ UNCHANGED owner

UpdateCallbacks(c, tracking) ==
    /\ lifecycle[c] = "alive"
    /\ Call([type |-> "addClient", client |-> c, tracking |-> tracking])
    /\ UNCHANGED <<lifecycle, owner>>

Destroy(c) ==
    /\ lifecycle[c] = "alive"
    /\ lifecycle' = [lifecycle EXCEPT ![c] = "destroyed"]
    /\ Call([type |-> "removeClient", client |-> c])
    /\ UNCHANGED owner

\* A command of a live client, which owes the client one response.
Command(k, m) ==
    /\ lifecycle[k[1]] = "alive"
    /\ calls < MaxCalls /\ calls' = calls + 1
    /\ adapterQ' = Append(adapterQ, m)
    /\ owed' = [owed EXCEPT ![k] = @ + 1]
    /\ UNCHANGED <<lifecycle, clientData, sessionVars, capabilitiesKnown, pendingMsgs,
                   nHzNeeded, speAtHighest, apiQ, engine, hub, told, ended, danglingUsed,
                   historyVars, crashes>>

StartTrackingCommand(c, o) ==
    LET k == <<c, Len(owner) + 1>> IN
    /\ Len(owner) < MaxId
    /\ owner' = Append(owner, c)
    /\ Command(k, [type |-> "startTracking", key |-> k, options |-> o])

UpdateTrackingOptionsCommand(i, o) ==
    LET k == <<owner[i], i>> IN
    /\ Command(k, [type |-> "updateTracking", key |-> k, options |-> o])
    /\ UNCHANGED owner

StopTrackingCommand(i) ==
    LET k == <<owner[i], i>> IN
    /\ Command(k, [type |-> "stopTracking", key |-> k])
    /\ UNCHANGED owner

\* A configuration that makes the adapter suspend and restart its sessions
\* (gnssUpdateConfig, configConstellations, configMinimumGpsWeek).
ReconfigureCommand ==
    /\ ControlApi
    /\ Call([type |-> "reconfigure"])
    /\ UNCHANGED <<lifecycle, owner>>

Client ==
    \/ \E c \in Clients :
        \/ \E t \in TrackingCbs : CreateInstance(c, t) \/ UpdateCallbacks(c, t)
        \/ Destroy(c)
        \/ \E o \in StartOptions : StartTrackingCommand(c, o)
    \/ \E i \in DOMAIN owner :
        \/ \E o \in UpdateOptions : UpdateTrackingOptionsCommand(i, o)
        \/ StopTrackingCommand(i)
    \/ ReconfigureCommand

-----------------------------------------------------------------------------
(* Adapter thread *)

Message == Head(adapterQ)

\* The adapter thread has a message of this type to handle.  Once it has handled
\* a deleted message nothing more is known about the process.
Receive(type) == ~danglingUsed /\ adapterQ # <<>> /\ Message.type = type

Done == adapterQ' = Tail(adapterQ) /\ UNCHANGED <<clientVars, engine, crashes, danglingUsed>>

AddClient ==
    /\ Receive("addClient")
    /\ clientData' = With(clientData, Message.client, Message.tracking)
    /\ UNCHANGED <<sessionVars, replyVars, capabilitiesKnown, pendingMsgs, nHzNeeded,
                   speAtHighest, apiQ, ended>>
    /\ Done

\* MsgRemoveClient stops the sessions of the client one after the other.  The
\* message stays at the head of the queue meanwhile: the adapter thread does
\* nothing else, the other threads run on.
RemoveClientStopsOne ==
    /\ Receive("removeClient")
    /\ \E k \in DOMAIN timeBased : \E e \in StopEffects(k) :
        /\ k[1] = Message.client
        /\ Post(e)
        /\ EraseTrackingSession(k)
        /\ ReportIf(e.reported, k, "SUCCESS")
    /\ UNCHANGED <<setupVars, clientVars, ended, adapterQ, engine, crashes>>

\* Mutant: the client is forgotten with its time-based sessions running.
RemoveClientOnly ==
    /\ Receive("removeClient")
    /\ clientData' = Without(clientData, Message.client)
    /\ UNCHANGED <<sessionVars, replyVars, capabilitiesKnown, pendingMsgs, nHzNeeded,
                   speAtHighest, apiQ, ended>>
    /\ Done

RemoveClient ==
    LET mine == {k \in DOMAIN distanceBased : k[1] = Message.client}
        stop(k) == StopDistance(k, Then("clientDistanceStopped", k))
    IN
    /\ Receive("removeClient")
    /\ \A k \in DOMAIN timeBased : k[1] # Message.client
    /\ \E s \in InOrder(mine) : apiQ' = apiQ \o [i \in DOMAIN s |-> stop(s[i])]
    /\ clientData' = Without(clientData, Message.client)
    /\ UNCHANGED <<sessionVars, replyVars, capabilitiesKnown, pendingMsgs, nHzNeeded,
                   speAtHighest, ended>>
    /\ Done

\* A command that needs the engine's capabilities waits for them.
MustWait(o) == ~capabilitiesKnown /\ o.distance > 0

Defer ==
    /\ Receive("startTracking") \/ Receive("updateTracking")
    /\ MustWait(Message.options)
    /\ pendingMsgs' = Append(pendingMsgs, [msg |-> Message, sent |-> FALSE])
    /\ UNCHANGED <<clientData, sessionVars, replyVars, capabilitiesKnown, nHzNeeded,
                   speAtHighest, apiQ, ended>>
    /\ Done

HasCallbacksToStartTracking(c) == c \in DOMAIN clientData /\ clientData[c]

StartTracking ==
    LET k == Message.key
        o == WithFastestInterval(Message.options)
    IN
    /\ Receive("startTracking") /\ ~MustWait(Message.options)
    /\ \/ \* the error is computed and not reported
          /\ ~HasCallbacksToStartTracking(k[1]) \/ o.size = 0
          /\ UNCHANGED <<sessionVars, replyVars, speAtHighest, apiQ>>
       \/ /\ HasCallbacksToStartTracking(k[1]) /\ o.size # 0
          /\ IsDistanceBased(o)
          /\ SaveTrackingSession(timeBased, k, o)
          /\ apiQ' = Append(apiQ, StartDistance(k, o, Then("distanceStarted", k)))
          /\ UNCHANGED <<replyVars, speAtHighest>>
       \/ /\ HasCallbacksToStartTracking(k[1]) /\ o.size # 0
          /\ ~IsDistanceBased(o)
          /\ \E e \in StartEffects(k, WithPowerFallback(o)) :
                Post(e) /\ ReportIf(e.reported \/ e.noWait, k, "SUCCESS")
          /\ SaveTrackingSession(timeBased, k, WithPowerFallback(o))
    /\ UNCHANGED <<clientData, capabilitiesKnown, pendingMsgs, nHzNeeded, ended>>
    /\ Done

UpdateTracking ==
    LET k == Message.key
        o == WithFastestInterval(WithPowerFallback(Message.options))
        isTimeBased == k \in DOMAIN timeBased
        isDistanceBased == k \in DOMAIN distanceBased
    IN
    /\ Receive("updateTracking") /\ ~MustWait(Message.options)
    /\ \/ /\ ~isTimeBased /\ ~isDistanceBased
          /\ ReportResponse(k, "ID_UNKNOWN")
          /\ UNCHANGED <<sessionVars, speAtHighest, apiQ>>
       \/ /\ isTimeBased \/ isDistanceBased
          /\ o.size = 0
          /\ ReportResponse(k, "INVALID_PARAMETER")
          /\ UNCHANGED <<sessionVars, speAtHighest, apiQ>>
       \/ \* from time-based to distance-based
          /\ isTimeBased /\ o.size # 0 /\ o.distance > 0
          /\ \E e \in StopEffects(k) :
                /\ apiQ' = (apiQ \o e.requests) \o << StartDistance(k, o, NoCallback) >>
                /\ speAtHighest' = e.spe
                /\ ReportIf(e.reported \/ e.noWait, k, "SUCCESS")
          /\ SaveTrackingSession(Without(timeBased, k), k, o)
       \/ \* from distance-based to time-based, once the distance session is stopped
          /\ isDistanceBased /\ o.size # 0 /\ o.distance = 0
          /\ EraseTrackingSession(k)
          /\ apiQ' = Append(apiQ, StopDistance(k, ThenWith("switchToTime", k, o)))
          /\ UNCHANGED <<replyVars, speAtHighest>>
       \/ /\ isTimeBased /\ o.size # 0 /\ o.distance = 0 /\ ~isDistanceBased
          /\ \E e \in UpdateEffects(k, o) :
                Post(e) /\ ReportIf(e.reported \/ e.noWait, k, "SUCCESS")
          /\ SaveTrackingSession(timeBased, k, o)
       \/ \* distance-based stays so, with new options
          /\ ~isTimeBased /\ isDistanceBased /\ o.size # 0 /\ o.distance > 0
          /\ apiQ' = Append(apiQ, StopDistance(k, ThenWith("restartDistance", k, o)))
          /\ UNCHANGED <<sessionVars, replyVars, speAtHighest>>
    /\ UNCHANGED <<clientData, capabilitiesKnown, pendingMsgs, nHzNeeded, ended>>
    /\ Done

StopTracking ==
    LET k == Message.key IN
    /\ Receive("stopTracking")
    /\ \/ /\ k \in DOMAIN timeBased
          /\ \E e \in StopEffects(k) :
                Post(e) /\ ReportIf(e.reported \/ e.noWait, k, "SUCCESS")
          /\ EraseTrackingSession(k)
          /\ ended' = ended \cup {k}
       \/ /\ k \notin DOMAIN timeBased /\ k \in DOMAIN distanceBased
          /\ apiQ' = Append(apiQ, StopDistance(k, Then("distanceStopped", k)))
          /\ UNCHANGED <<sessionVars, replyVars, speAtHighest, ended>>
       \/ /\ k \notin DOMAIN timeBased /\ k \notin DOMAIN distanceBased
          /\ ReportResponse(k, "ID_UNKNOWN")
          /\ ended' = ended \cup {k}
          /\ UNCHANGED <<sessionVars, speAtHighest, apiQ>>
    /\ UNCHANGED <<clientData, capabilitiesKnown, pendingMsgs, nHzNeeded>>
    /\ Done

\* The engine came up: sessions are restarted and the waiting commands handed to
\* the queue.  mPendingMsgs keeps them, although each is deleted once handled.
EngineUp ==
    /\ Receive("engineUp")
    /\ capabilitiesKnown' = TRUE
    /\ \E e \in RestartEffects(nHzNeeded) : Post(e)
    /\ adapterQ' = Tail(adapterQ) \o [i \in DOMAIN pendingMsgs |-> pendingMsgs[i].msg]
    /\ pendingMsgs' = [i \in DOMAIN pendingMsgs |-> [pendingMsgs[i] EXCEPT !.sent = TRUE]]
    /\ danglingUsed' = \E i \in DOMAIN pendingMsgs : pendingMsgs[i].sent
    /\ UNCHANGED <<clientVars, clientData, sessionVars, replyVars, nHzNeeded, ended,
                   engine, crashes>>

\* suspendSessions, the configuration itself, restartSessions.
Reconfigure ==
    /\ Receive("reconfigure")
    /\ \E e \in RestartEffects(nHzNeeded) :
        /\ apiQ' = apiQ \o (IF DOMAIN timeBased = {} THEN <<>> ELSE << StopFix(NoCallback) >>)
                        \o e.requests
        /\ speAtHighest' = e.spe
    /\ UNCHANGED <<clientData, sessionVars, replyVars, capabilitiesKnown, pendingMsgs,
                   nHzNeeded, ended>>
    /\ Done

-----------------------------------------------------------------------------
(* Adapter thread: responses of the engine *)

Response(then) == Receive("response") /\ Message.cb.then = then

Failed == Message.err # "SUCCESS"

\* A request for the fix session on behalf of a session that was started, or of
\* one that was stopped while others go on.
FixStarted ==
    LET k == Message.cb.key IN
    /\ Response("fixStarted")
    /\ IF Failed THEN EraseTrackingSession(k) ELSE UNCHANGED sessionVars
    /\ ReportResponse(k, Message.err)
    /\ UNCHANGED <<setupVars, speAtHighest, apiQ, ended>>
    /\ Done

FixUpdated ==
    LET k == Message.cb.key IN
    /\ Response("fixUpdated")
    /\ IF Failed THEN SaveTrackingSession(timeBased, k, Message.cb.options)
                 ELSE UNCHANGED sessionVars
    /\ ReportResponse(k, Message.err)
    /\ UNCHANGED <<setupVars, speAtHighest, apiQ, ended>>
    /\ Done

FixStopped ==
    /\ Response("fixStopped")
    /\ ReportResponse(Message.cb.key, Message.err)
    /\ UNCHANGED <<setupVars, sessionVars, speAtHighest, apiQ, ended>>
    /\ Done

DistanceStarted ==
    LET k == Message.cb.key IN
    /\ Response("distanceStarted")
    /\ IF Failed THEN EraseTrackingSession(k) ELSE UNCHANGED sessionVars
    /\ ReportResponse(k, Message.err)
    /\ UNCHANGED <<setupVars, speAtHighest, apiQ, ended>>
    /\ Done

DistanceStopped ==
    LET k == Message.cb.key IN
    /\ Response("distanceStopped")
    /\ IF Failed THEN UNCHANGED <<sessionVars, ended>>
                 ELSE EraseTrackingSession(k) /\ ended' = ended \cup {k}
    /\ ReportResponse(k, Message.err)
    /\ UNCHANGED <<setupVars, speAtHighest, apiQ>>
    /\ Done

ClientDistanceStopped ==
    /\ Response("clientDistanceStopped")
    /\ IF Failed THEN UNCHANGED sessionVars ELSE EraseTrackingSession(Message.cb.key)
    /\ UNCHANGED <<setupVars, replyVars, speAtHighest, apiQ, ended>>
    /\ Done

\* The session continues as a time-based one, whatever the engine answered and
\* whatever became of the session and its client meanwhile.
SwitchToTime ==
    LET k == Message.cb.key
        o == Message.cb.options
    IN
    /\ Response("switchToTime")
    /\ \E e \in StartEffects(k, o) : Post(e) /\ ReportIf(e.reported \/ e.noWait, k, "SUCCESS")
    /\ SaveTrackingSession(timeBased, k, o)
    /\ UNCHANGED <<setupVars, ended>>
    /\ Done

\* Mutant: the session is stopped and not started again.
RestartDistanceStops ==
    /\ Response("restartDistance")
    /\ UNCHANGED <<setupVars, sessionVars, replyVars, speAtHighest, apiQ, ended>>
    /\ Done

\* No response at all when the engine could not stop the session.
RestartDistance ==
    LET k == Message.cb.key
        o == Message.cb.options
    IN
    /\ Response("restartDistance")
    /\ apiQ' = IF Failed THEN apiQ
               ELSE Append(apiQ, StartDistance(k, o, ThenWith("distanceRestarted", k, o)))
    /\ UNCHANGED <<setupVars, sessionVars, replyVars, speAtHighest, ended>>
    /\ Done

DistanceRestarted ==
    LET k == Message.cb.key IN
    /\ Response("distanceRestarted")
    /\ IF Failed THEN UNCHANGED sessionVars
                 ELSE SaveTrackingSession(timeBased, k, Message.cb.options)
    /\ ReportResponse(k, Message.err)
    /\ UNCHANGED <<setupVars, speAtHighest, apiQ, ended>>
    /\ Done

Handler ==
    \/ AddClient \/ RemoveClientStopsOne \/ RemoveClient
    \/ Defer \/ StartTracking \/ UpdateTracking \/ StopTracking
    \/ EngineUp \/ Reconfigure
    \/ FixStarted \/ FixUpdated \/ FixStopped
    \/ DistanceStarted \/ DistanceStopped \/ ClientDistanceStopped
    \/ SwitchToTime \/ RestartDistance \/ DistanceRestarted

\* What brings session k back, or into a map, although it is in none: its start; and
\* the answers to requests that were made for an update.
Restores(cb, k) ==
    /\ cb.key = k
    /\ cb.then \in {"fixUpdated", "switchToTime", "restartDistance", "distanceRestarted"}
Starts(m, k) == m.type = "startTracking" /\ m.key = k
Brings(m, k) == Starts(m, k) \/ (m.type = "response" /\ Restores(m.cb, k))
Asked(r, k) == r.op \notin {"open", "ssr"} /\ r.cb # NoCallback /\ Restores(r.cb, k)

\* Something of k is under way that may bring it back; or it is in both maps, of
\* which a stop erases it from one.
UnderWay(k) ==
    \/ \E i \in DOMAIN adapterQ : Brings(adapterQ[i], k)
    \/ \E i \in DOMAIN apiQ : Asked(apiQ[i], k)
    \/ \E i \in DOMAIN pendingMsgs : ~pendingMsgs[i].sent /\ Starts(pendingMsgs[i].msg, k)
    \/ k \in DOMAIN timeBased \cap DOMAIN distanceBased

AdapterThread ==
    /\ Handler
    /\ crossed' = crossed \cup {k \in ended' \ ended : UnderWay(k)}
    /\ raced' = (raced \/ (/\ hub.at = "posting"
                          /\ \/ timeBased' # timeBased
                             \/ speAtHighest' # speAtHighest))

-----------------------------------------------------------------------------
(* The hub's thread: updateNHzRequirementCb, given to the hub when it was  *)
(* loaded, calls checkAndRestartSPESession where it stands.                *)

\* The hub changes its mind about NHz measurements.
NHzRequirement ==
    /\ hub.at = "idle" /\ hub.changes < MaxNHz
    /\ nHzNeeded' = ~nHzNeeded
    /\ hub' = [hub EXCEPT !.at = "restarting", !.changes = @ + 1]
    /\ UNCHANGED <<lifecycle, owner, calls, clientData, sessionVars, capabilitiesKnown, pendingMsgs,
                   speAtHighest, replyVars, ended, danglingUsed, adapterQ, apiQ, engine,
                   historyVars, crashes>>

\* It looks at the sessions there are ...
HubReads ==
    /\ hub.at = "restarting"
    /\ \E e \in RestartEffects(nHzNeeded) :
        /\ hub' = [hub EXCEPT !.at = "posting", !.requests = e.requests]
        /\ speAtHighest' = e.spe
    /\ UNCHANGED <<lifecycle, owner, calls, setupVars, sessionVars, replyVars, ended,
                   adapterQ, apiQ, engine, historyVars, crashes>>

\* ... and requests what they ask for.
HubPosts ==
    /\ hub.at = "posting"
    /\ apiQ' = apiQ \o hub.requests
    /\ hub' = [hub EXCEPT !.at = "idle", !.requests = <<>>]
    /\ UNCHANGED <<lifecycle, owner, calls, adapterVars, adapterQ, engine, historyVars,
                   crashes>>

Hub == NHzRequirement \/ HubReads \/ HubPosts

-----------------------------------------------------------------------------
(* API thread and engine *)

Request == Head(apiQ)

Serve(ops) == apiQ # <<>> /\ Request.op \in ops

Served == apiQ' = Tail(apiQ) /\ UNCHANGED <<clientVars, adapterVars, historyVars, crashes>>

\* LocOpenMsg and LocSsrMsg: close, open, and tell the adapters if that worked.
Open ==
    /\ Serve({"open", "ssr"})
    /\ \/ /\ engine' = Stopped(TRUE)
          /\ adapterQ' = Append(adapterQ, [type |-> "engineUp"])
       \/ EngineMayFail /\ UNCHANGED <<engine, adapterQ>>
    /\ Served

\* Mutant: only success is answered.
AnswerSuccess(err) ==
    adapterQ' = IF Request.cb = NoCallback \/ err # "SUCCESS" THEN adapterQ
                ELSE Append(adapterQ, [type |-> "response", cb |-> Request.cb, err |-> err])

Answer(err) ==
    adapterQ' = IF Request.cb = NoCallback THEN adapterQ
                ELSE Append(adapterQ, [type |-> "response", cb |-> Request.cb, err |-> err])

\* What the engine does with a request it accepts.
Accepted(r) ==
    LET fixOn == [engine EXCEPT !.running = TRUE, !.fix = r.options]
        fixOff == [engine EXCEPT !.running = FALSE, !.fix = Unset]
    IN
    CASE r.op = "startFix"      -> fixOn
      [] r.op = "stopFix"       -> fixOff
      [] r.op = "startDistance" ->
            IF SharedEngine THEN fixOn ELSE [engine EXCEPT !.distance = @ \cup {r.id}]
      [] r.op = "stopDistance"  ->
            IF SharedEngine THEN fixOff ELSE [engine EXCEPT !.distance = @ \ {r.id}]

EngineRequest ==
    /\ Serve({"startFix", "stopFix", "startDistance", "stopDistance"})
    /\ \/ engine.up /\ engine' = Accepted(Request) /\ Answer("SUCCESS")
       \/ (~engine.up \/ EngineMayFail) /\ UNCHANGED engine /\ Answer("GENERAL_FAILURE")
    /\ Served

ApiThread == Open \/ EngineRequest

\* Mutant: nobody reopens the engine.
EngineDownQuietly ==
    /\ engine.up
    /\ crashes < MaxCrashes /\ crashes' = crashes + 1
    /\ engine' = Stopped(FALSE)
    /\ UNCHANGED <<clientVars, adapterVars, historyVars, adapterQ, apiQ>>

\* The engine crashes; its event thread posts a LocSsrMsg (handleEngineDownEvent).
EngineDown ==
    /\ engine.up
    /\ crashes < MaxCrashes /\ crashes' = crashes + 1
    /\ engine' = Stopped(FALSE)
    /\ apiQ' = Append(apiQ, [op |-> "ssr"])
    /\ UNCHANGED <<clientVars, adapterVars, historyVars, adapterQ>>

Next == Client \/ AdapterThread \/ Hub \/ ApiThread \/ EngineDown

Spec == Init /\ [][Next]_vars

\* Both threads block only on an empty queue (msg_q_rcv), so each keeps running.
FairSpec == Spec /\ WF_vars(AdapterThread) /\ WF_vars(ApiThread)

-----------------------------------------------------------------------------
(* Properties *)

\* A session map as saveTrackingSession fills it: no interval is below
\* MIN_TRACKING_INTERVAL, whichever handler saved the session.
IsSessionMap(f) == DOMAIN f \subseteq Keys /\ \A k \in DOMAIN f : f[k] \in SessionOptions

\* Every variable has its type.  What is not obvious from the assignments: the ids are
\* within the bound, the options of a saved session are clamped on every path, and the
\* callbacks in both queues carry what the handler they come back to expects.
TypeOK ==
    /\ lifecycle \in [Clients -> {"unborn", "alive", "destroyed"}]
    /\ owner \in Seq(Clients) /\ Len(owner) <= MaxId
    /\ DOMAIN clientData \subseteq Clients
    /\ \A c \in DOMAIN clientData : clientData[c] \in BOOLEAN
    /\ IsSessionMap(timeBased) /\ IsSessionMap(distanceBased)
    /\ capabilitiesKnown \in BOOLEAN /\ nHzNeeded \in BOOLEAN
    /\ speAtHighest \in BOOLEAN /\ danglingUsed \in BOOLEAN
    /\ pendingMsgs \in Seq([msg : Commands, sent : BOOLEAN])
    /\ adapterQ \in Seq(AdapterMsgs)
    /\ apiQ \in Seq(ApiMsgs)
    /\ engine \in [up : BOOLEAN, running : BOOLEAN, fix : Options, distance : SUBSET Ids]
    /\ hub \in [at : {"idle", "restarting", "posting"}, requests : Seq(ApiMsgs),
                changes : 0 .. MaxNHz]
    /\ owed \in [Keys -> Int] /\ told \in [Keys -> Errors \cup {"nothing"}]
    /\ ended \subseteq Keys
    /\ calls \in 0 .. MaxCalls /\ crashes \in 0 .. MaxCrashes

HistoryOK == crossed \subseteq Keys /\ raced \in BOOLEAN

\* Nothing is left to do for any thread.
Quiet == adapterQ = <<>> /\ apiQ = <<>> /\ hub.at = "idle" /\ engine.up

Fast(o) == \A k \in DOMAIN timeBased : o.interval <= timeBased[k].interval

\* At rest, the one fix session of the engine runs at least as fast as each of the
\* time-based sessions multiplexed onto it asks (startTimeBasedTrackingMultiplex,
\* updateTrackingMultiplex, stopTimeBasedTrackingMultiplex, checkAndRestartSPESession),
\* unless a session changed between the hub's reading and its request.
EngineServes ==
    Quiet /\ ~raced /\ DOMAIN timeBased # {} => engine.running /\ Fast(engine.fix)

\* At rest, the engine runs no fix session for nobody: the last session to leave,
\* by a stop, a switch to distance-based or the end of its client, stops it.
EngineRests == Quiet /\ ~raced /\ DOMAIN timeBased = {} => ~engine.running

\* At rest the one fix session runs exactly when a session needs it, and as fast.
EngineFits == EngineServes /\ EngineRests

\* At rest, the engine runs every distance-based session that its client has and has not
\* stopped, although the map changes before the engine answers on some paths and after on
\* others.  (Updates that cross a switch can leave a session in both maps: it runs as a
\* time-based one, and a stop or the end of its client erases it from one map only.)
DistanceServed ==
    Quiet => \A k \in DOMAIN distanceBased \ (DOMAIN timeBased \cup ended) :
                 k[1] \in DOMAIN clientData => k[2] \in engine.distance

\* A command is answered once: by the handler, by checkAndSetSPEToRunforNHz on the way,
\* or by the callback of the engine's answer, and never by two of them.
AnsweredAtMostOnce == \A k \in Keys : lifecycle[k[1]] = "alive" => owed[k] >= 0

\* A session that was stopped, or that stopTracking was told is unknown, is in neither
\* map ever after, whatever the engine refuses, crashes and restarts, and whatever the
\* client asks of it, unless something of it that may bring it back was under way when
\* the stop was carried out (updateTracking's restoring of the old options, the answers
\* to a switch between kinds of session, a start that waits for the capabilities).
StopIsFinal ==
    \A k \in ended \ crossed : k \notin DOMAIN timeBased \cup DOMAIN distanceBased

\* At rest, no session survives the client it belongs to (stopClientSessions).
SessionsAreOwned ==
    Quiet => \A k \in DOMAIN timeBased \cup DOMAIN distanceBased : k[1] \in DOMAIN clientData

\* Every command is answered in the end, unless its client goes away first.
Answered == \A k \in Keys : owed[k] > 0 ~> owed[k] <= 0 \/ lifecycle[k[1]] = "destroyed"

\* After a crash the engine is reopened and runs for the sessions that remain.
EngineRecovers == DOMAIN timeBased # {} ~> engine.running \/ DOMAIN timeBased = {}

-----------------------------------------------------------------------------
(* What makes EngineServes inductive, for an engine that refuses no request while up *)

Reopens(q) == \E i \in DOMAIN q : q[i].op \in {"open", "ssr"}
UpAfter(q, i) == \E j \in DOMAIN q : j > i /\ q[j].type = "engineUp"

\* The adapter will restart its sessions before it is at rest.
Recovering == Reopens(apiQ) \/ UpAfter(adapterQ, 0)

\* The requests that decide what the fix session will be.
Settles(m) == m.op \in {"startFix", "stopFix", "open", "ssr"}

\* Requests that change nothing about the fix session.
Keeps(q) == \A i \in DOMAIN q : ~Settles(q[i])

\* Requests that leave the fix session with an interval of at most n.
Asks(q, n) ==
    \E i \in DOMAIN q :
        /\ q[i].op = "startFix" /\ q[i].options.interval <= n
        /\ \A j \in DOMAIN q : j > i => ~Settles(q[j])

\* Once the API thread has worked off its queue the fix session runs with an
\* interval of at most n.
WillRun(n) ==
    Asks(apiQ, n) \/ (Keeps(apiQ) /\ engine.running /\ engine.fix.interval <= n)

\* A refused request is in the queue of the adapter only while a restart follows it.
FailuresAreRepaired ==
    \A i \in DOMAIN adapterQ :
        adapterQ[i].type = "response" /\ adapterQ[i].err # "SUCCESS"
          => Reopens(apiQ) \/ UpAfter(adapterQ, i)

\* A crashed engine has a request under way that reopens it.
Repaired == (engine.up \/ Reopens(apiQ)) /\ FailuresAreRepaired

\* Unless a restart is to come, the fix session, once the requests under way are carried
\* out, is fast enough for every time-based session, and runs at its highest rate if the
\* adapter believes so while that is needed.
Serving ==
    /\ Recovering \/ \A k \in DOMAIN timeBased : WillRun(timeBased[k].interval)
    /\ speAtHighest => IF nHzNeeded THEN Recovering \/ WillRun(MinInterval)
                       ELSE hub.at = "restarting"

\* The hub is about to request as much.
HubWillServe ==
    /\ \A k \in DOMAIN timeBased : Asks(hub.requests, timeBased[k].interval)
    /\ speAtHighest => nHzNeeded /\ Asks(hub.requests, MinInterval)

\* The inductive invariant behind EngineServes.
ServesInv ==
    /\ Repaired
    /\ raced \/ IF hub.at = "posting" THEN HubWillServe ELSE Serving
=============================================================================
