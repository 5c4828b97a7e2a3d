# A verification project for the msm8998 location stack

The repository is the device tree of the Xiaomi msm8998 phones. Most of it is
configuration; its program is the GNSS location stack under `src/gps` and
`src/location`: the Android HAL, the location API behind it, the adapters that
keep sessions, and the interface to the positioning engine ("the modem"). These
modules model the parts of it where threads, messages, answers and failures meet,
check them with TLC on small instances, and prove what matters most with TLAPS for
instances of every size.

Run everything in this directory:

    tlc -workers 2 -config tracking_time.cfg MCGnssTracking.tla     # a run
    tlapm GnssTracking_proofs.tla                                   # the proofs of a module

`PROJECT.json` lists the runs, the theorems, a mutant of the code for each checked
property, the lines each definition stands for, and the hazards the properties are
aimed at.

Contents: [1 Inventory](#1-inventory), [2 How the modules are built](#2-how-the-modules-are-built),
[3 GnssTracking](#3-gnsstracking), [4 Agps](#4-agps), [5 NiSessions](#5-nisessions),
[6 OsObserver](#6-osobserver), [7 Geofence](#7-geofence), [8 LocationAPI](#8-locationapi),
[9 Batching and its client](#9-batching-and-its-client), [10 Trips](#10-trips),
[11 Timers and ODCPI](#11-timers-and-odcpi), [12 GnssConfig](#12-gnssconfig), [13 Reports](#13-reports),
[14 Nmea](#14-nmea), [15 What is proved](#15-what-is-proved), [16 What is only model-checked](#16-what-is-only-model-checked),
[17 What the models leave out](#17-what-the-models-leave-out),
[18 Where code and words disagree](#18-where-code-and-words-disagree), [19 What is left](#19-what-is-left).

## 1 Inventory

The stack is layered. A binder thread of the HAL (`android/2.1`) or another process
calls a client object (`location_api`, `LocationAPIClientBase`), which calls
`LocationAPI`; that forwards each call to the adapter concerned
(`GnssAdapter`, `BatchingAdapter`, `GeofenceAdapter`). An adapter posts the call as
a message to a queue that all adapters share (`LocContext`'s `MsgTask`), and one
thread - *the adapter thread* below - works the queue off. Where a call needs the
engine, the handler posts a request to a second queue, whose thread - *the API
thread* - calls the engine library (`SynergyLocApi` over `loc_sll_interface.h`, or a
library that is not in the repository), and the engine's answer comes back to the
adapter thread as a message that runs a callback (`LocApiResponse`). The engine's own
events arrive on threads of its library and are posted to the adapter thread.

| Component | State | Operations | Interacts with | Hard | Correct when |
|---|---|---|---|---|---|
| Tracking sessions (`GnssAdapter`) | maps of time- and distance-based sessions, messages waiting for the engine's capabilities, NHz state | start, update, stop, remove client, engine up, suspend and resume, NHz, answers of the engine | `LocationAPI`, `LocApiBase`, engine hub | many sessions on one engine fix; maps change before the answer on some paths, after it on others; engine crashes | the engine runs fast enough for every session and for nobody else; one answer per command; what was stopped stays stopped |
| AGPS data connections (`Agps`, `NativeAgpsHandler`, `AGnss`) | per interface a state machine and a list of subscribers | request and release of ATL by the modem; opened, granted, refused, closed by the framework | modem, framework, WDS library, network observer | requests, releases and answers cross, none names the other | no connection is leaked; no request waits for ever; lists and modem agree |
| Network-initiated requests (`GnssAdapter`, `GnssNi`) | two sessions shared by threads, each with a raw request, an id and an answer | request, user's answer, time-out, answer to the engine | engine, HAL client | user, time-out and emergency race; state is read without its lock | each raw request answered or freed exactly once; an answer goes to the request it was given for |
| GNSS configuration and aiding data (`GnssAdapter`, `ContextBase`, `loc_cfg`) | configuration, gathered answers of one command | update, delete aiding data, get | control API, engine | one command is many requests and one answer; repeated after a restart | one answer with the right errors; the last setting wins |
| ODCPI, DGNSS, E911 vote (`GnssAdapter`) | request state, timer, callbacks | request, inject, expire | HAL, engine, timers | a timer racing with the stop of the request | injected while wanted, not after |
| Reports (`GnssAdapter`) | last reports, NMEA masks | position, satellites, NMEA, measurements | engine, clients | a client leaves between report and call | a report only to a client that asked |
| Batching and trips (`BatchingAdapter`) | batching sessions, trips, distance covered | start, update, stop, engine up, trip completion | `LocationAPI`, engine | all trips share one engine trip, restarted at every change | every trip ends after its distance; sessions survive a restart |
| Geofences (`GeofenceAdapter`) | fences by engine id, engine id by session | add, remove, modify, pause, resume, engine up | `LocationAPI`, engine | two maps, ids of the engine that change at a restart | the maps are inverses; a paused fence stays paused |
| Client life cycle (`LocationAPI`) | clients, adapters each uses, clients being destroyed, reference counts | create, update callbacks, destroy, completion of a removal | adapters | three adapters forget a client on their own threads | a client is freed after, and only after, all forgot it |
| Client requests (`LocationAPIClientBase`) | queues of requests, maps of session ids | each API call, each answer | `LocationAPI`, HAL clients | answers are matched by order | each answer reaches its request |
| Timers (`LocTimer`, `LocHeap`) | heap of timers, system timer, owner of a timer | start, stop, expire | two threads, owners | expiry races with stop, restart and deletion | no call after stop; no early expiry |
| Queues and threads (`msg_q`, `MsgTask`, `LocThread`) | list of messages, unblock flag | send, receive, flush, unblock | everything | teardown while others send | FIFO, nothing lost before teardown |
| OS observer (`SystemStatusOsObserver`, `SystemStatus`) | who subscribes to what, and its inverse | subscribe, request, update, unsubscribe | framework's data items, `NativeAgpsHandler` | two maps updated from each other's result | the framework is subscribed exactly for what somebody wants |
| XTRA observer (`XtraSystemStatusObserver`) | last system state, whether asked for | updates, requests of a daemon | OS observer, sockets | daemon restarts | the daemon gets the present state |
| Engine interface (`LocApiBase`) | adapters, event mask | register, open, close, dispatch | adapters, engine | mask recomputed on each change | events wanted are enabled |
| Engine library (`SynergyLocApi`) | the fix and the requests of the library | translate requests and events | external library | one fix session for several purposes | a request does what its name says |
| HAL services and clients (`android/2.1`) | callbacks, last options | binder calls | framework, `LocationAPI` | death of the framework | conversions |
| NMEA (`loc_nmea`, `GnssAdapter`) | satellites used, time of the last sentences | sentences of a fix, of a satellite report | clients | satellites without order, leap seconds | each satellite once, sentences that agree |
| IPC, configuration, logs (`utils`) | buffers | parse, format, send | files, sockets | - | - |
| PPS, battery listener, test client | - | - | kernel, health HAL | - | - |

## 2 How the modules are built

| Module | Models |
|---|---|
| `TrackingOptions` | options of sessions and the arithmetic that multiplexes sessions onto one fix; no state |
| `GnssTracking` | tracking sessions: clients, adapter thread, API thread, engine, and the hub's thread |
| `Agps` | AGPS connections: adapter thread, modem, framework, WDS, network observer |
| `NiRequests` | what becomes of a network-initiated request, abstractly |
| `NiSessions` | network-initiated requests in the code: adapter thread, session threads, users; implements `NiRequests` |
| `SetMap`, `NetworkInfo` | `LocUnorderedSetMap`, and the table of networks in `SystemStatus`; no state |
| `OsObserver` | subscriptions to data items, what is cached of them, the XTRA observer and its daemon; composes the two above |
| `Geofence` | geofences: commands, their items, restore after a restart, breaches |
| `LocationAPI` | life of clients over the adapters that are loaded for them |
| `Batching` | batching sessions of the adapter, the engine's lock and restarts; the part of a specification that `BatchingClient` completes |
| `BatchingClient` | the batching client of the HAL and `LocationAPIClientBase` above `Batching` |
| `Trips` | trips: distances covered, one trip of the engine for all, restarts |
| `LocHeap` | the heap of timers; no state |
| `LocTimer` | timers over the callers' threads, the message thread and the poll thread, above `LocHeap` |
| `Odcpi` | the request for injected positions and its timer, above `LocTimer` |
| `SvMasks` | lists of satellites as masks of the engine; no state |
| `GnssConfig` | lock, SUPL settings and blacklists from the framework to the engine, above `SvMasks` |
| `Reports` | the event mask and the way of a report to the clients that asked for it |
| `NmeaSentences` | the fields and satellites of NMEA sentences; no state |
| `Nmea` | positions and satellite reports that become sentences, satellite by satellite |
| `MCGnssTracking`, `MCAgps`, `MCOsObserver`, `MCGnssConfig` | small instances for TLC; the other runs give all constants in their `.cfg` |
| `GnssTracking_proofs`, `Agps_proofs`, `OsObserver_proofs`, `Clients_proofs` (`LocationAPI` and `NiSessions`), `GnssConfig_proofs`, `Geofence_proofs` and `GeofenceEngine_proofs`, `Reporting_proofs` (`Reports` and `Nmea`) | theorems and proofs |

Common to all of them:

- A *queue* is a sequence, taken from at the head: `msg_q` keeps a FIFO list under a
  mutex and one thread receives (`MTRunnable::run`). A handler runs to its end before
  the next message is received, so a handler is one action - with everything it posts
  and calls - except where it shares state with another thread under a lock it does not
  hold throughout (`NiSessions`).
- *Fairness* is weak fairness of a thread: each waits only for its queue (`msg_q_rcv`) or,
  in `NiSessions`, for a wait that has a time-out. What the outside need not do - a client
  calling, a user answering, an engine crashing - has no fairness. Where the code
  relies on the framework or the WDS library to answer, their fairness is assumed, in
  `Agps`, and named there.
- *Bounds* are constants that guard actions of the environment (calls, requests,
  crashes, changes), never actions of the code: what has been started can always be
  carried to its end. Where it says so, a guard also keeps the environment from acting while
  more than so many messages wait; the messages the code posts are never held back. When the
  bounds are used up the system rests, so the runs do not look for deadlocks; what must not remain
  undone at rest is stated by invariants ("at rest, ...") and liveness properties. `config` looks
  for deadlocks: there the end is an action of its own, `Done`.
- An *excepted* case - a flag such as `overlap`, `mixedUp`, `strayed`, `crossed`, `raced` or `flags` - is something the
  code does not cope with, found while modelling. The model takes the step, remembers it,
  and goes on; the property says "unless it happened". What was found is in section 18.
- A definition whose comment begins with "Mutant" is a plausible mistake in the
  definition after it, not part of the specification; `PROJECT.json` names the
  property it breaks.

## 3 GnssTracking

`GnssAdapter` keeps every client's tracking sessions and multiplexes the time-based
ones onto a single fix session of the engine, which runs at the smallest interval
anybody asked for. Distance-based sessions are passed to the engine one by one.

State: `timeBased`, `distanceBased` (`mTimeBasedTrackingSessions`, ...), `clientData`
(`mClientData`, reduced to whether a tracking callback was given), `capabilitiesKnown`,
`pendingMsgs` (`mPendingMsgs`), `nHzNeeded`, `speAtHighest`, the queues `adapterQ` and
`apiQ`, `engine`: is it up, its fix, its distance-based sessions, and `hub`: where the hub's
thread is in `updateNHzRequirementCb`, and what it is about to request. `owed`, `told`,
`ended`, `crossed` and `raced` record what clients were promised and what crossed what;
nothing in the code corresponds to them.

| Actions | Code |
|---|---|
| `CreateInstance`, `UpdateCallbacks`, `Destroy`, `StartTrackingCommand`, `UpdateTrackingOptionsCommand`, `StopTrackingCommand`, `ReconfigureCommand` | the calls of clients, and others, up to the message they post |
| `AddClient`, `RemoveClient`, `StartTracking`, `UpdateTracking`, `StopTracking`, `EngineUp`, `Reconfigure` | the handlers on the adapter thread (`MsgStartTracking::proc` ...) with the multiplexing they call (`startTimeBasedTrackingMultiplex`, `updateTrackingMultiplex`, `stopTracking`, `restartSessions`, `checkAndRestartSPESession`) |
| `FixStarted`, `FixUpdated`, `FixStopped`, `DistanceStarted`, ..., `RestartDistance`, `DistanceRestarted` | the callbacks given to the engine's requests, when the answer is handled |
| `NHzRequirement`, `HubReads`, `HubPosts` | `updateNHzRequirementCb` on the hub's thread: it sets `mNHzNeeded`, reads the sessions, and requests the fix for them |
| `Open`, `EngineRequest`, `EngineDown` | the API thread and the engine |

The hub's thread runs without a message and without a lock (`GnssAdapter.cpp:6643-6659`), so
`checkAndRestartSPESession` on it may meet any handler of the adapter thread. The model lets the
handlers come in between the assignment of `mNHzNeeded`, the reading of the maps and the
request. If one of them changes the time-based sessions or `mSPEAlreadyRunningAtHighestInterval` in
the second of these windows, the hub's request, which is posted last, is stale, and the fix may be too
slow, or run for nobody, until the next change. `raced` remembers that; the properties
about the fix say "unless `raced`", and so show that the first window and every other crossing are harmless.

The multiplexing reads a map once and yields an *effect*: the requests it posts, whether
it answered the client already, and whether the handler is to answer
(`StartEffects`, `UpdateEffects`, `StopEffects`, `RestartEffects`).

| Run | Instance | Shows |
|---|---|---|
| `tracking_time` | 2 clients, 2 sessions, 5 calls, time-based, reconfiguration, 2 changes of the hub's mind; an engine that uses one fix for everything | `EngineFits`: at rest the fix is exactly as fast as the fastest session asks, and none runs for nobody; `SessionsAreOwned`: no session without its client |
| `tracking_all` | 1 client, with or without a callback for tracking, 2 sessions, 4 calls, both kinds with switches between them, 1 crash, 1 change of the hub's mind, fair | `EngineServes`: at rest the fix is fast enough for everybody; `DistanceServed`: every distance-based session that its client has not stopped runs in the engine; `StopIsFinal`: what was stopped, or told unknown, is never in a map again; `EngineRecovers`: after a crash the engine runs again for who remains |
| `tracking_refusals` | 1 client, 2 sessions, 5 calls, time-based; an engine that may refuse anything; fair | `Answered`: every command is answered; `AnsweredAtMostOnce` |

The three differ in what is promised at all: with refusals the fix may stay refused, and with
distance-based sessions an engine that uses one fix for everything stops it for all (section 18).

`StopIsFinal` is asked of every kind of session through crashes, restarts and what an engine that is down
refuses. The code does bring some stopped sessions back, against `LocationAPI.h:76-79`, and the
property excepts those precisely: at the stop something of the session was under way that may bring it
back (`crossed`, `UnderWay`) - an update whose refusal restores the old options, the answer to a switch
between the kinds of session, a start that waits for the capabilities - or the session was in both
maps. Section 18 has each. Whatever is posted after the stop brings nothing back.

Why the instances are enough: two sessions are the least for which the fix must serve
more than one (the start of the second finds the first, the end of one restarts
the other); they may belong to one client or, in `tracking_time`, to two, one of which leaves. Two
options, one clamped to the minimum, tell "faster", "slower" and "equal" apart, and an
unset option stands for an update without options. Five calls allow start, start,
update, stop and an ended client in any order, each crossing the answers of the
others. One crash at every point covers every state the recovery starts from; a second
crash is seen by the proof, which has no bound. The hub changes its mind twice where it can
restart both a fast and a slow fix; once is enough to meet a crash. `MinInterval` = 2 leaves one value below it.

`FairSpec` is weak fairness of the two threads. `Answered` is about clients that gave a
tracking callback: without one the code does not answer (section 18).

## 4 Agps

Per interface (`agnss`, `internet`) a state machine is RELEASED, PENDING, ACQUIRED or RELEASING,
with a list of subscribers, the modem's connection handles, some of them inactive: they
released while others still held the connection, and wait for its end.

State: `nifs` (state, active and inactive subscribers of each), `created`, `registered`,
the queues `adapterQ` and `frameworkQ` (the HAL's calls to the framework), `mobile`
(`NativeAgpsHandler`), `wds` and `lookups` (the WDS library and its queries), and
outside of the code `conn` (the framework's connection) and `modem` (what the modem
thinks of each handle). `requests` and `upsets` count what bounds the run.

| Actions | Code |
|---|---|
| `RequestATL`, `ReleaseATL` | the modem's calls, `GnssAdapter::requestATL`, `releaseATL` |
| `HandleInit`, `HandleRequest`, `HandleRelease`, `HandleOpened`, `HandleGranted`, `HandleFailed`, `HandleClosed` | the messages on the adapter thread, each with the events of `AgpsStateMachine` it leads to |
| `WdsAnswers` | `reportPdnTypeFromWds` |
| `Register`, `TakeRequest`, `TakeRelease`, `ConnectionUp`, `ConnectionUpBadApn`, `ConnectionFails`, `ConnectionLost` | the framework behind `AGnss` |
| `NetworkInfo` | `NativeAgpsHandler::notify` |
| `ModemCrash` | a restart of the modem, which forgets its handles |

A handler computes a *reaction*: the new record of the interface, what it asks of
the framework, and whom it tells what. What the modem is told it hears at once: the
status calls are synchronous into the engine library. An APN longer than `MAX_APN_LEN`
makes the framework's thread call the state machine itself
(`GnssAdapter.cpp:5359-5362`); the model makes that call one step between two messages.

What is assumed of the framework is what Android's `GnssNetworkConnectivityHandler` does:
it asks for one connection at a time, answers each request, reports a loss, and ignores a
release of a connection it does not have. If it answered such a release, the answer could
be taken for that of a later one, and `ConnectionNeeded` would not hold.

| Run | Instance | Shows |
|---|---|---|
| `agps` | 2 handles, 2 requests, 2 upsets (loss, refused APN, crash), with and without WDS, fair | `SubscribersFit` (the state of a machine fits its subscribers), `ConnectionNeeded` (no connection without somebody who will give it back), `ModemAgrees` (at rest, lists and modem agree), `OpenAnsweredUndisturbed` (every request of the modem is answered) |

Two handles make a subscriber that is active while another is inactive, or PENDING for
one and released by the other. Two upsets let each cross every message, and one the other.
`OpenAnsweredUndisturbed` excepts a modem crash, a refused APN and WDS, which the code
does not cope with (section 18), and assumes that the framework and WDS answer.

## 5 NiSessions

The network asks for the phone's location; the adapter shows the request to the
user and starts a thread that waits for the answer or a time-out. There are two
sessions, for SUPL and control plane and for emergencies. The handlers read a
session's `rawRequest` and `reqID` without the session's lock and write its answer under
it; the thread clears the id after it gave the lock up.

State: `session` (`NiData::session`, `sessionEs`: `raw`, `id`, `answered`, `answer`), `thread`
(per request, where the thread started for it is and what it took along), `adapterQ`,
`marks` (answers the handler under way still has to write, so that a thread may come
in between), `listening` (a client has a `gnssNiCb`). `arrived`, `given` and `outcome`
record what happened. The id of a session is the request itself: the counter of
ids makes both unique.

| Actions | Code |
|---|---|
| `RequestNi`, `HandleNotify` | `requestNiNotifyEvent`, its message, `requestNiNotify`; how locks, configuration and emergency decide on a request is a choice |
| `UserAnswers`, `HandleResponse`, `MarkSession` | `gnssNiResponse`, `MsgGnssNiResponse::proc` up to the lock, and under it |
| `StartWaiting`, `Answered`, `TimesOut`, `ClearSession`, `SendResponse` | `niThreadProc` |
| `InformEngine` | the message with the answer, `informNiResponse` |

A time-out may happen whenever a thread waits, so the remaining time is not kept.
`pthread_create` may fail for any request: the code logs it and goes on (`GnssAdapter.cpp:4750-4756`), so
the session keeps its request for good, with no thread to end it (`"missing"`), and later requests of its
kind - of both kinds, if it is the emergency's - are ignored.

`NiRequests` says what all this is for: a request that arrived is decided on at once or
shown, one at a time except for an emergency beside a SUPL session, and one that was
shown is answered or freed. `Fate` maps a state of `NiSessions` to it.

| Run | Instance | Shows |
|---|---|---|
| `ni` | 2 SUPL requests, 1 emergency, a client that leaves or comes, fair | `OwnedOnce` (a raw request has one owner and one end), `ThreadPerSession` (a busy session has a thread that will end it, or one that could not be created), `EndsForAReason` (a session ends for one of the reasons the code knows), `ShownRequestEnds` (of requests whose thread was created), `PromiseKept` (`NiRequests` is implemented) |

Two requests of a kind are needed for a late answer to meet a next session, and the
emergency for the two sessions to meet. One reply is enough: the other answers take the
same way, and an emergency that is accepted is the one that matters to the other session.

## 6 OsObserver

`SystemStatusOsObserver` stands between the clients inside the process
(`NativeAgpsHandler`, `XtraSystemStatusObserver`) and the framework, which reports data
items. It keeps who wants what in two maps, one the inverse of the other, and updates each from
what the update of the other returns; `LocUnorderedSetMap` is `SetMap`. It keeps the last
value of each item, and sends it to a client that subscribes late. One item, the
networks, is made by `SystemStatus` of events that name one network each, and keeps a table of
networks and a history of reports: `NetworkInfo`.

State: `clientItems`, `itemClients`, `cache`, `reports` (the history), `obj` (is the
framework's subscription object there), `subscribed` (what it was asked for), `adapterQ`; `heard` is what each
client was told, `daemon` the XTRA daemon with what the socket told it, `up` the networks the framework
knows. `past` remembers, for the properties only, the networks whose report found the table full (`dropped`), whether
the first report of all was that a network is gone (`odd`), and whether ever more networks were up at once than
the table has room for (`crowded`).

| Actions | Code |
|---|---|
| `ClientCall`, `SetSubscriptionObj` | `subscribe`, `requestData`, `unsubscribe`, `unsubscribeToAllDataItems`, and `setSubscriptionObj` as far as the message they post |
| `HandleSubscribe`, `HandleUnsubscribe`, `HandleSetObj`, `HandleNotify` | the messages, with `sendCachedDataItems`, `logMe` left out |
| `ReportItem`, `ConnectionStatus`, `ResetNetworkInfo` | the framework's events through `SystemStatus::eventDataItemNotify`, `eventConnectionStatus`, `resetNetworkInfo` |
| `RequestStatus`, `StatusRequested`, `XtraHears`, `DaemonRestarts` | `XtraSystemStatusObserver`, and the daemon's process |

| Run | Instance | Shows |
|---|---|---|
| `observer` | 1 client beside XTRA, 1 item beside the networks, 2 mobile networks and a wireless one, a table of 2, 2 calls, 4 events, 1 restart | `MapsAreInverse`: the maps are each other's inverse; `SubscribersAreCurrent`: at rest everybody, an answered daemon too, knows what is cached; `NetworksAreCurrent`: the mask claims no type without a network; the table has what is connected and had room, and nothing else; and it has room for all that is up at once, whatever was there before |

Two networks of a type are what it takes for the mask to be wrong when one of them goes; the third tells
types apart, and finds the table full. A table takes `MaxNetworks` = 2 (10 in the
code) and the history `MaxItem` = 2 reports (5): the run fills both. Any report may come first, also that a network is gone,
as the framework may be older than this process. Two restarts beside each other - one of the framework, one of the daemon - are seen
by the proof. Two mobile networks are
interchangeable. No list of items has more than one, as larger ones are sequences of these
for maps that treat keys one by one; the proof has all lists.

## 7 Geofence

A command of a client is a list of fences. Its handler posts each item to the API thread,
whose message comes back to the adapter thread before the engine is asked: so the items of commands
interleave, and the fence an item names is looked up only when its turn comes. A collective response is
sent when the last item is done. The adapter keeps the fence of each id of the engine and the id of each fence;
after a restart it adds all fences again, under new ids.

State: `fences` (`mGeofences`), `hwIdOf` (`mGeofenceIds`), `clients`, `owner`, `batches` (the
commands with errors and responses), `adapterQ`, `apiQ`, `engine` (its fences, and is it up);
`answered` is what the engine last agreed to for each fence, `strayed` whether a request reached
the fence of somebody else, because an id was used again.

| Actions | Code |
|---|---|
| `AddGeofences`, `OtherCommand`, `RemoveClient` | the calls as far as the message |
| `AdapterThread` | every message: the commands' first turn, each item's second, answers (`saveGeofenceItem`, `removeGeofenceItem`, `pause...`, `resume...`, `modify...`), the collective response, `handleEngineUpEvent`, `geofenceBreach` |
| `ApiThread` | the API thread and the engine, which agrees or refuses |
| `EngineCrash`, `Breach` | the engine by itself |

| Run | Instance | Shows |
|---|---|---|
| `geofence` | 1 client, 2 fences, 2 items, 3 commands, 1 breach, 1 refusal or crash | `MapsAgree`: each map leads back through the other; `EngineAgrees`: at rest the engine watches what the adapter keeps and, after a restart too, paused fences stay paused; `CommandsAnswered`; `BreachIsOwn`: a breach is told only to the owner of the fence |

Two fences are needed for an id of the engine to pass from one to the other, and two items
for a command to wait for one while the other is done. A client more would only be another owner. All of it is proved for any of them (section 15).

## 8 LocationAPI

`createInstance`, `updateCallbacks` and `destroy` run on the clients' threads under one mutex. They load the library of an
adapter when a client first needs it, and post messages to every adapter concerned;
`destroy` keeps the client in a second map until each adapter reported that it forgot the
client, and then deletes the object, on the adapter thread. A reference count
keeps the framework's instance.

State: `object` (none, alive, destroyed, deleted), `loaded`, `failed`, `clientData` (`gData.clientData`), `waitMask`
(`gData.destroyClientData`), `control`, `refCount`, `framework`, `wantsReport`, `reported`, `aborted`,
`msgs` (the adapter thread's queue), `known` (each adapter's `mClientData`), `capable`, `pendingMsgs`; `asked`
and `told` for the capabilities each client was told.

| Actions | Code |
|---|---|
| `CreateInstance`, `UpdateCallbacks`, `Destroy`, `CreateControl`, `DestroyControl` | the calls, under the mutex |
| `Dispatch` | `MsgAddClient`, `MsgRemoveClient`, `MsgRequestCapabilities` of each adapter, and `onRemoveClientCompleteCb` |
| `EngineUp` | `handleEngineUpEvent` as far as capabilities and waiting messages go |

| Run | Instance | Shows |
|---|---|---|
| `locationapi` | 2 clients, 2 adapters, 1 update, 1 library that cannot be loaded | `TheGoneAreForgotten`: nobody refers to a deleted object, and at rest no adapter knows a destroyed client; `ClientsAreServed`: at rest each adapter has a client's newest callbacks, and the client its capabilities; `DeletedInTheEnd` |

The second client shows that the last to go takes the framework's instance along and the
first does not. Two adapters are the least for which one forgets first; the third, geofences, is loaded and called
in the same way. `Spec` has weak fairness of the one thread of all adapters.

## 9 Batching and its client

`Batching` is `BatchingAdapter` without trips: a map of sessions, a count of those that
need the "batch full" event, and the starts a locked engine refused, which are sent again at
unlock. The map changes when a request is sent and is repaired when it is refused. `BatchingClient`
puts the batching client of the HAL above it, whose base class (`LocationAPIClientBase`) queues
its requests and matches each response with the oldest of its kind, and whose flush
runs on a thread of its own. `Batching` has no `Spec` of its own: what it tells clients waits in `replies`
for whoever is above.

State: `sessions` (`mBatchingSessions`), `clients`, `owner`, `batchFull`, `pendingStarts`
(`mPendingGnssEnabledMsgs`), `adapterQ`, `apiQ`, `engine`, `replies`; above: `state` and `session` of the client
(`BatchingAPIClient::mState`, the session map), `requests`, `flushThreads`; `overlap` and `mixedUp` remember what was excepted.

| Actions | Code |
|---|---|
| `StartSession`, `UpdateSessionOptions`, `StopSession`, `FlushBatchedLocations`, `Destroy` | `BatchingAPIClient`, with `locAPIStartSession` ... down to the adapter's message |
| `AdapterThread` | every message of `BatchingAdapter`, its answers, restart and lock |
| `EngineSide` | the engine: agrees, refuses, restarts, is locked, fills a batch |
| `OnResponse`, `OnBatching`, `FlushThread` | the callbacks into the client, and its thread |

| Run | Instance | Shows |
|---|---|---|
| `batching` | 1 client, 2 sessions, 4 calls, 1 full batch, 2 refusals, restarts or lock changes | `EngineAgrees`: when nothing is under way the engine runs what the adapter keeps, and nothing of those who left; `FullAsNeeded`: the event is registered exactly while somebody needs it; `ClientAgrees`: every session the adapter runs can be named by its client, no request is left over, and responses meet the requests they answer; types |

Two sessions are a session and the one after it, for the HAL has one at a time. Two faults are a lock and its end.

## 10 Trips

The engine knows one trip. The adapter gives it the shortest remaining distance and shortest
interval of all its sessions and restarts it whenever they change; for each session it keeps the
distance covered before the last restart and the distance the engine had covered when the session
joined, all in `uint32_t`.

State: `saved` (trips in `mBatchingSessions`), `trips` (`mTripSessions`), `ongoing`, `dropped`, `batchFull`, `clients`,
`owner`, `adapterQ`, `apiQ`, `engine`; `travelled` and `began` measure what is true, `early` and `overlap`
remember.

| Actions | Code |
|---|---|
| `StartBatching`, `StopBatching`, `UpdateBatching`, `Destroy` | commands |
| `HandleStart`, `HandleStop`, ..., `HandleEngineUp` | the adapter thread, one action per message: `startTripBatchingMultiplex`, `stopTripBatchingMultiplex`, `restartTripBatching`, `reportCompletedTripsEvent` and the callbacks |
| `Serve`, `Refuse`, `EngineCrash`, `Travel` | the engine: it covers distance one unit at a time |

| Run | Instance | Shows |
|---|---|---|
| `trips` | 1 client, 3 trips, distances 1 and 3, intervals 1 and 2, 4 units of travel, 4 commands, 1 fault | `NotEarly`: no trip is reported before its distance is covered; `TripsAreServed`: the engine runs exactly while there are trips, at each one's interval, and is listened to; types: no distance leaves its word |

Three trips are one that ends, one that goes on, and one that joins. `Size` = 16 stands for 2^32: the
subtractions that must not wrap would wrap here at once, to something above every distance. The run goes
only as far as a command or report that meets another under way (`CONSTRAINT Orderly`): what follows then is
in section 18, and nothing can be promised. One command and its answers are still up to four handlers long.

## 11 Timers and ODCPI

Timers are started and stopped on any thread. A started timer has a delegate, which the message thread pushes into a heap;
the kernel's timer is set to the soonest, and the poll thread that waits for it takes it back and
posts the expiry. `LocHeap` is the heap, its nodes named by the turns that lead to them.
`Odcpi` is the request for positions the modem makes to the framework, repeated
by such a timer while the request is active.

State of `LocTimer`: `now`, `alive`, `mTimer` (a timer's delegate), `delegates`, `tree`, `msgQ`, `msgAt` (between the
steps of a handler), `pollAt`, `armed` and `polled` (the kernel's timer), `ended`. Of `Odcpi`: `registered`,
`requestActive`, `timerActive`, `request`, `adapterQ`; `wanted` and `asked` for what was promised.

| Actions | Code |
|---|---|
| `HandlePush`, `HandleRemove`, `HandleExpire`, `Arm`, `ExpireStop`, `ExpireNext`; `OdcpiTimesOut`, `OtherTimesOut` | the message thread, cut where it gives up a lock or calls back |
| `PollWakes`, `PollDisarms`, `PollRemoves`, `PollSends` | `LocTimerPollTask::run` |
| `Tick` | time |
| `OtherStarts`, `OtherStops`, `OtherGoes` | another timer and its owner |
| `InitOdcpi`, `ModemStarts`, `ModemStops`, `EngineCrash`, and the handlers on the adapter thread | `initOdcpi`, `requestOdcpi`, `odcpiTimerExpire` |

| Run | Instance | Shows |
|---|---|---|
| `timers` | 2 timers, 3 starts, 3 units of time, 2 requests | `TimersAreSound`: every delegate ends once and is not touched after it is deleted, one that ticks is kept and the soonest is watched by the kernel, or what makes it so is under way; `RequestsAreRepeated`; `TimersEnd` |

A second timer, due at another time, is what makes the kernel's setting stale; the third start is one timer's
second. Fairness is of the message thread, the poll thread, callbacks and time.

## 12 GnssConfig

The framework's settings pass four places: the HAL, which keeps what comes before its client exists, the adapter, which
keeps everything for a restart, the API thread, and the engine, which forgets everything. One
update of several items is several requests and one answer with an error per item. Blacklists are lists
at the adapter's and masks at the engine's: `SvMasks`. The lock depends on whether a
framework has given its non-framework callbacks, and whether a control client exists.

State: `hal`, `adapter`, `adapterQ`, `apiQ`, `engine`, `asked` (masks somebody asked for last), `updates` (with their answers),
`flags` (what is excepted), `counts`.

| Actions | Code |
|---|---|
| `Callers` | `GnssVisibilityControl`, `GnssConfiguration`, `LocationControlAPI`, `GnssAPIClient` and `gnssUpdateSvConfig` ... as far as the message |
| `AdapterThread` | `gnssUpdateConfigCommand`, `enableCommand`, `disableCommand`, blacklists, `handleEngineUpEvent`, `setConfig`, answers |
| `LocApiThread` | the requests to the engine, which may refuse an item |
| `EngineUp` | first start and restart |

| Run | Instance | Shows |
|---|---|---|
| `config` | 3 calls, 1 restart, 1 refusal; a lock, a server, a version with a blacklist and an extension; no deadlock | `LockServed`: at rest the engine is locked as the framework and its callbacks want; `SettingsServed`: the last version, server and blacklist outlive restarts; `AnswersFit`: each update is answered, and each error is that of its item |

The items of an update come in the order of their ids, and are asked for in the order of the code; both orders are records of ranks
(`IdOrder`, `EngineOrder`), so that an item's place in an answer is a count of those before it (`PlaceOf`). `GnssConfigAssumption` says what an
instance may configure: satellites that have a bit, of SBAS those below 208 (section 18), and locks of `MO` and `NI`.

The blacklist has the first satellite of a constellation, one beyond its mask (65, of 64) and one of the second range of
SBAS; the masks a client sets have the last satellite of the first range and the second of the other, and a whole constellation.

## 13 Reports

`Reports` is the way of a report: the events `GnssAdapter` asks for on behalf of callbacks and services
(`updateClientsEventMask`), opening the engine with what all adapters ask for, the report posted from the engine's
thread, and the callbacks that get it. A hub, where `libloc_eng_hub.so` is there, takes the engine's
positions and makes its own. What a report contains is left out but for the number of the fix it belongs to.

State: `clientData`, `sessions`, `nmeaMask`, `services`, `evtMask` (`mEvtMask`), `othersMask`, `hub`, `adapterQ`, `apiQ`,
`engine`, `sysInfo` (`mLocSystemInfo`), `svUsed`, `mbUsed` (`mGnssSvIdUsedInPosition`, `mGnssMbSvIdUsedInPosition`); `told`, `received` for what clients got.

| Actions | Code |
|---|---|
| `Command` (`AddClientCommand`, `RemoveClientCommand`, `SessionCommand`, `InitCommand`, `OthersUpdateEvtMask`) | callers |
| `AdapterThread` (`AddClient`, `RemoveClient`, `Session`, `InitService`, `HandleEngineUp`, `Position`, `EnginePositions`, `Sv`, `Forward`, `SystemInfo`) | the handlers, with `reportPosition`, `reportEnginePositions`, `reportSv`, `reportLocationSystemInfo` |
| `ApiThread` (`Open`, `OpenFails`, `Restart`) | `LocApiBase::open`, `LocOpenMsg`, `LocSsrMsg` |
| `ReportPositionEvent`, `ReportEvent`, `HubReport`, `EngineDown` | the engine's thread |
| `NHzRead`, `NHzWrite` | the hub's thread, which changes the event mask without a lock |

Everything this module says is proved, for any set of callbacks (`ConstantsFit`, which the theorems assume,
says only that the constants are of their kinds); it has no run of its own. What it claims: `AskedIsNeeded`, the
mask is exactly what the callbacks and services need, where there is no hub (with a hub its thread may overwrite a
concurrent change, 6646-6653); `EngineIsAsked`, when nothing is left to do the engine was opened with what is asked for,
after any crashes; `InfoIsKnown`, every client that asks for system information was told the newest of every
piece; `MarksAreFresh`, the satellites marked as used are never of an older fix than one a client got.

## 14 Nmea

Where the application processor makes the NMEA (`NMEA_PROVIDER`), a fix becomes GSA, VTG, RMC, GNS and GGA sentences (and DTM) and
a report of satellites becomes groups of GSV sentences, one group per constellation and signal (`loc_nmea.cpp`). `NmeaSentences` says,
without state, what the time, the mode and the count of satellites of a sentence depend on; its other fields, DTM, which only names the datum, and how a number is printed are
left out, with the overflow of a line, which the fields' sizes exclude. `Nmea` is the adapter that decides whether a report becomes
sentences, and the loop that makes GSVs, satellite by satellite.

State: `tracking` (is there a time-based session), `leap` (`mLocSystemInfo`), `lastTime` (`mPrevNmeaRptTimeNsec`), `marks`
(`mGnssSvIdUsedInPosition` and its companions); of the loop `report`, `group`, `number` (`sentenceNumber`), `next`
(`svNumber`), `offset` (`svIdOffset`) and `line`; `position`, `sentences` and `names` are what was made.

| Actions | Code |
|---|---|
| `StartSession`, `StopSession` | `startTimeBasedTrackingMultiplex`, `eraseTrackingSession` |
| `ReportLeapSecond` | `reportLocationSystemInfo` |
| `ReportPosition` | `reportPosition`, `needToGenerateNmeaReport`, `loc_nmea_generate_pos` |
| `ReportSv` | `reportSv`, which marks the satellites of the fix before |
| `SkipGroup`, `LookAtSv`, `EndSentence`, `EndReport` | the loop of `loc_nmea_generate_GSV`, and `loc_nmea_generate_sv` around it |

The hazard is in the counting: the number of sentences of a group is fixed before its first is written, by one test of type and
signal, and which satellites go into them is found by another, while the report comes in any order. `SvsShownOnce`,
`NumberedThrough` and `InOneGroup` say that nothing is lost, shown twice or numbered wrongly for that; it holds because
every satellite the second test takes was counted by the first, and a count that is too high only makes empty sentences.
`NamedByNumber` and `MarkedByName` say that a satellite has one number in all sentences, except where one of
SBAS comes before one of GPS (section 18). About the sentences of a fix: `LeapSecondShown`, `FixesAgree` and `SatellitesAgree`.
All of it is proved for every report, however long; like `Reports`, the module has no run of its own.

## 15 What is proved

Every theorem holds for every value of the constants its module's assumptions allow:
any number of clients, sessions, handles and requests, and any bounds.

**GnssTracking_proofs.** `TypeCorrect`: `TypeOK` is inductive by itself; each effect is
shown to be well-typed once and each handler cites it. `ServesInductive` and
`EngineServesEveryone`: at rest the fix is fast enough for every time-based
session - through crashes, restarts, suspension and the hub's thread. `EngineServes` speaks only of
states at rest, so it is not inductive; `ServesInv` says why rest will be reached well:
the last request under way that settles the fix, or else the fix itself, has an interval of at most
every session's (`WillRun`); a crashed engine has a request under way that reopens it; and a refused
answer in the queue is followed by a restart. While the hub is about to post, the same is
promised of its requests (`HubWillServe`), which will be the last; once it was overtaken
(`raced`) nothing is. The lemmas say of each effect what it
does to `WillRun` (`StartServes`, `UpdateServes`, `StopServes`, `RestartServes`), of the
API thread that it carries out what was promised (`ApiStepServes`), and of the consumption
of answers that failed ones precede a restart (`ConsumeRepairs`, `DoneRepairs`). Assumed,
and stated in the theorems: an engine that refuses nothing while it is up and that keeps
distance-based sessions apart from the fix (`DedicatedEngine`), and that supports
them. Without the first, one stop ends everybody's fix (section 18); an
engine that refuses at will leaves nothing to promise.

`NobodyAnsweredTwice` (`AnsweredAtMostOnce`) assumes nothing: not more answers are due to a session - its commands, requests
with a callback, answers, and the client's removal, counted in the three queues (`Due`) - than are owed, in each step, with every kind of
engine and of session. `StopsAreFinal` (`StopIsFinal`) assumes nothing either: it holds for every engine, with refusals, crashes, restarts, switches and the
hub. Its invariant, `FinalInv`, says of a session that was stopped and not `crossed` (`StopsHold`) that it is in no map and that nothing that
starts, restores or restarts it is in either queue or waits, and that the commands under way name sessions whose start came before them
(`StopsKnown`): a start is posted once, so none follows a stop, and an update of a session that is in no map is told that it is unknown and asks nothing of
the engine. The answers that bring a session back come of requests made while it was there, which were in a queue at the stop (`UnderWay`).

`SessionsHaveOwners` (`SessionsAreOwned`) and `EngineFitsSessions` (`EngineFits`) are proved under `SteadyTime`: time-based sessions on an engine that
neither refuses nor crashes, with any hub. Both are needed, as section 18 has sessions that outlive their client after a switch of modes, and
a fix that a refusal leaves off. Their invariant, `Calm /\ Owned /\ Rested`, says that a client with a session is known, and that without
sessions the last request under way stops the engine, unless `raced`.

**Agps_proofs.** `AgpsTypeCorrect` and `AgpsSubscribersFit`: each state machine is RELEASED exactly
when nobody subscribes, PENDING or ACQUIRED only with an active subscriber and
RELEASING only while inactive ones wait. Together they are inductive; every event of the state machine
is shown to preserve them on one record (`SubscribeKeeps`, `UnsubscribeKeeps`,
`AnswersKeep`), and the handlers follow (`HandlesKeep`, `OthersKeep`).

`AgpsConnectionNeeded` (`ConnectionNeeded`): a session of the framework runs from one request to one report that it failed or
is closed; there is never a second of either under way (`OneSession`), and the last word the framework will read fits the
machine (`LastWordFits`). `AgpsModemAgrees` (`ModemAgrees`) looks at one handle (`HandleFits`): while its
request is on its way no machine knows it; then one has it as an active subscriber until its release is handled, and after that as an inactive
one; a "closed" overtakes no release. Both have no hypothesis but the exceptions in the properties themselves: no refused APN; no crash of
the modem, and for the agreement at rest no WDS - which are the gaps of section 18.

**Clients_proofs**, about `NiSessions`. `NiTypeCorrect`, `NiOwnedOnce`, `NiThreadPerSession` and
`NiKeepsPromise`, the refinement. The inductive invariant adds to the three that a thread takes
only its own request along (`TakesItsOwn`), and that a request is announced by one message,
which is handled before its thread exists (`ArrivesOnce`). It is seen from one
request (`Own`, `OwnView`): most steps leave a request where it is (`KeepOwn`), and the five
that move one have a lemma each. The refinement shows that in each step one fate at
most changes, and how. `NiEndsForAReason` (`EndsForAReason`) follows every flag that was ever set to whoever set it: the answer of a session, of a mark
under way and of a thread that has ended is its own user's, given once, or is excused (`Reasons`).

**OsObserver_proofs.** `TypeCorrect`; `MapsInverse`: after every subscription, unsubscription and departure the two maps are
each other's inverse; `OnlyWantedSubscribed`: the framework is subscribed only for what some client has.
The maps are treated by lemmas about `SetMap` - who is in a set after `AddAll` and `Trim`, and which keys
are new or gone - and each handler changes both maps by the same pairs. Inverse maps are inductive with the types; that the
rest is subscribed for somebody needs them, as the keys to unsubscribe are read off the second map.

`SubscribersCurrent` (`SubscribersAreCurrent`): clients are told at once, and the XTRA observer by messages of which the last
that speaks of an item decides (`Hears`); what was never cached was never told; and the daemon, once answered, has what the observer
has. `NetworksCurrent` (`NetworksAreCurrent`): the last event under way about a network, or else the table, says whether it is up, and every report in the history
has the type of the last. It assumes nothing of the networks: any number may come and go, with a fresh handle each time, as Android gives them. That the
table has room (`TableHasRoom`) is a pigeonhole: but for the excepted entries, its members, and those that are to be added, are networks that were up at
once.

**Clients_proofs**, about `LocationAPI`. `LocationAPITypes`, `LocationAPIForgets` (`TheGoneAreForgotten`) and `LocationAPIServes` (`ClientsAreServed`), for every finite set of
clients (they are counted: the framework's instance lives as long as its references). What a queue promises a client is said in three words: an adapter
*forgets* it if behind each addition there is a removal, *hears* callbacks if the last addition brings them, *asks* if a request for the capabilities comes when it knows the client. Each has a
lemma for a message that is added and one for a message that is taken; `Life` ties them to the tables of `LocationAPI`: a removal is sent
once, to the adapters the client was added to, and nothing is sent afterwards.

**GnssConfig_proofs.** `ConfigLockServed`, `ConfigSettingsServed`, `ConfigAnswersFit` and `ConfigTypes`. The properties speak of rest; the
invariant speaks of the way there: the last word on an item that is under way, or else what the engine has, is what is wanted (`Ends`), unless the
engine refused that item. `Inv` says so of the lock, the version and the server (`ItemsSettle`), of the list and masks the adapter keeps (`ListSettles`), and of the engine's blacklist
(`BlacklistSettles`), with the types of what is in the queues (`Shapes`), and with the lock's mask for the phone
(`LockFits`, `ControlFits`). After a restart the adapter sends a blacklist that it has only as a list: `MasksComeBack` shows that masks that became a list and masks again are the
same, whichever of their bits are set. For the answers, `Places` says that an update is in one place: it waits for the engine, is in the adapter's queue,
at the engine, on its way back, or answered; and `ErrorsAgree` that the errors, in the order in which the engine was asked, are those of
the items in the order of the ids - unless both items that the code swaps are in the update.

**Geofence_proofs.** `GeofenceTypes`, `GeofenceAnswers` (`CommandsAnswered`), `GeofenceBreachIsOwn` (`BreachIsOwn`), `GeofenceMapsAgree`
(`MapsAgree`), and in `GeofenceEngine_proofs` `GeofenceEngineAgrees` (`EngineAgrees`), without any hypothesis on engine, clients or bounds. Their invariants are about messages under way, and are carried from one queue to the other:

- `Lives`: a command has one message, then turns that go out and come back in the order of its items, then one request or answer per
  item, and its arrays live until the last one is done. `Pending`: a command that waits has something under way for its *last* item, which is the one that answers it.
- `KnownIds` and `Unique`: an id that was handed out is in at most one place - a command to add it, its turn, a request, the engine's agreement, or kept under one
  hardware id. So no fence is kept twice, also while a restart adds all of them again (`OnceOf`, and one lemma for each way a message moves).
- `LiveNamed`: a fence kept for a client that is there can be named. It is why a remove that the engine agreed to does remove.
- `Mirror`: what the adapter *will* keep under a hardware id when all messages were handled - the last agreement to add that is not followed by
  a removal or a restart (`Last`), or what it keeps now if none speaks (`Silent`) - is what the engine has there, if it has anything. `BreachesOwn` says the same of the
  moment at which a breach was reported; it becomes the property when the breach is the first message.
- `NamesFit`, while nothing strayed: the same for names (`EngineHasNamed`); a number that an agreement frees is no fence's name when it is handled
  (`NumbersAreFree`); and the fence of a client that left has no name and is not made again before it is removed (`GoneFits`), which needs `Unique`.

`EngineAgrees` needs the converse, and the answers that clients were given. Its invariant, in `GeofenceEngine_proofs`, adds:

- `RestartsFit`: the engine is down exactly while one `LocSsrMsg` waits, and then has no fence.
- `Watched`: what the engine has is what the adapter will keep there (`WatchedIsKept`), with the options that the last message under way that speaks
  of them brings, or else those that are kept (`OptionsWillFit`). With `Mirror` it is the first half of `EngineAgrees`, which holds whatever strayed (`RestWatched`).
- `AnswersFit`: an answer that changes a fence will find that fence under its number. `GoneLeft`: what is removed because its client left is not of a client that is there.
- `Phases`: with one crash there is one `engineUp`, and until the adapter handles it nothing restores (`NoRestore`). `KeptAsAnswered`: until then what is
  kept for the clients that are there is as they were told, so that it is restored as they were told.
- `AnswersTold`, while nothing is excepted: a fence in the engine is in the state that the last answer under way will tell, or else the client was last told
  (`WatchedTold`); a fence that it lacks will be told removed (`LackingTold`). A fence on its way back is excepted at each stage, and the stage says what
  becomes of it: asked for (`OutFits`), answered and not yet kept (`BackFits`), to be paused again (`AgainFits`). That no other request for the
  fence comes after the first or before the last is `RestoreLast` and `PauseFirst`. That the engine has room for it is a pigeonhole (`HasRoom`).

`Sound` is the conjunction of those of the first list that always hold. TLC finds every one of these invariants to hold on the instance of the run, too.

**Reporting_proofs**, first about `Reports`. `TypeCorrect`, `MaskIsRight` (`AskedIsNeeded`), `EngineFollows` (`EngineIsAsked`), `InfoReachesAll`
(`InfoIsKnown`) and `MarksAreRight` (`MarksAreFresh`). The mask is right after every handler that changes what it is
made of, as each recomputes it. `EngineFollows` speaks of rest; its strengthening `RestartWaits` says that an engine that is
down, or opened with something else, has a message under way that opens it. `InfoIsKnown` needs `NothingTold`: nothing was
told of a piece before it was reported. `MarksAreFresh` needs `InOrder`: reports under way are newer than those handled and in their order.

**Reporting_proofs**, then about `Nmea`. `OnceShown`, `Numbered`, `ShownInOneGroup`, `Named` and `NamedAlike` follow from `SentencesFit`, an
invariant of every step of making the sentences: what was seen of the group under way is in its sentences or in the line, and
while there is more to look at all ready sentences are full (`Loop`), so that the last is reached when the satellites are
(`CountedFits`: what is shown was counted). `ConstantsFit` assumes only that fixes and reports are of their kinds. `LeapSecondShown`
assumes that time stamps are UTC, and that the change takes effect at the end of a day of UTC, by one second; it needs that days divide
into whole seconds (`WholeDaysAreSeconds`), so that the added second begins at a whole second of GPS time. `FixesAgree` goes through the corrections
and techniques; `SatellitesAgree` shows that the first GSA of a constellation that is used lists its least satellite.

## 16 What is only model-checked

Liveness under fairness (`EngineRecovers`, `Answered`, `OpenAnsweredUndisturbed`, `ShownRequestEnds`, `DeletedInTheEnd`,
`TimersEnd`) is out of reach of the provers installed with TLAPS. Of the safety properties these are checked only:

- `DistanceServed` of `GnssTracking`: its invariant has to follow both maps through switches of modes that cross.
- All properties of `Batching`, `BatchingClient`, `Trips` and `Odcpi`: not attempted. They speak of two sides, the adapter and the engine, with requests and
  answers of several kinds between them, and except histories of which the models keep a record.
- `TimersAreSound` of `LocTimer`: that the first of the heap is the earliest is an induction over the paths of its tree, which the provers do not do.

The instance of a run is small; section by section it is said why it is enough. No module has a RECURSIVE operator.

## 17 What the models leave out

- `GnssTracking`: DGNSS, the engine hub and the power-state reports beside the requests;
  re-opens that change only the event mask (they are in `Reports`); the engine lock; the wrap-around of session ids at 2^32. The hub's thread
  reads the maps in one step: that a handler changes them while the hub iterates over them, or writes
  `mSPEAlreadyRunningAtHighestInterval` at the same moment, is a data race without a defined outcome.
- `Agps`: types, APN masks, names, bearers and servers that are passed on; an external
  `libloc_net_iface.so`; the data race on the subscriber list in the case of a refused APN;
  branches on `mWaitForCloseComplete` false, which `requestATL` never passes.
- `NiSessions`: the contents of a notification, and the time left; and that `pthread_detach` of a thread that could not be created
  (`GnssAdapter.cpp:4755`) is undefined, where the model goes on.
- `OsObserver`: `updateSubscription`, which nothing in the repository calls (and which loses the client, section 18); `turnOn`,
  `turnOff`, `connectBackhaul` and `disconnectBackhaul`, which pass a call on; the parsed reports of `SystemStatus`.
- `Geofence`: dwell reports and the engine's status, which keep no state; the branches for a locked engine (`ENGINE_LOCK_STATE_DISABLED`,
  `GeofenceAdapter.cpp:203`, 328, 432, 668), where an engine that is not enabled restores nothing and refused items are kept as if they had been accepted.
- `LocationAPI`: calls that only pass a session on.
- `Batching`: what a location in a batch says; sessions and trips of one client at once.
- `LocTimer`: an owner that is deleted after an expiry read it and before that stops it (`LocTimer.cpp:521`-523) is used after its end;
  the model takes it as no stop and no call. The C interface around it, and the other kernel clock, which has threads and a heap like this one.
- `GnssConfig`: the protocols' other settings (LPP, LPPe, A-GLONASS, NMEA), robust location, time uncertainty, PACE and the
  sensors' parameters, which take the same way without being gathered in an answer; servers other than SUPL;
  `AGPS_CONFIG_INJECT` = 0.
- `Reports`: the contents of reports, latency logs, and a refused open while the engine is up.
- `Nmea`: fields other than the time, the mode and the count of satellites, the DTM sentences; how numbers, coordinates and datums are computed and printed, tag-block codes and checksums, the NMEA the engine makes, and
  the differential server that a GGA is passed to.
- The components that `PROJECT.json` lists as not modelled: queues and threads by themselves (every module has the queue
  in it, and no thread of the program ever stops), sockets, the battery listener, PPS, test client,
  binaries outside the repository (XTRA daemon, WDS, SLL library), and the configuration of the device.

## 18 Where code and words disagree

No run refutes a sentence any more: each of these was shown by a run while its component was modelled, or met while reading, and
is now what the models do and the properties except.

GnssTracking:

- A stopped session comes back, against `LocationAPI.h:76-79`, after a stop that something of it was under way at: an update that
  is refused restores its old options (`GnssAdapter.cpp:3159`), the answers to a switch or to new options of a distance-based session save it (3250, 3280), a
  deferred start starts it (2993), and a session in both maps is erased from one. `StopIsFinal` excepts these (`crossed`) and no others.
- The hub restarts the sessions on its own thread, from maps that the adapter thread changes (6655-6656; 2661-2729): a session that starts or stops
  between its reading and its request is served too slowly, not at all, or the engine runs for nobody, until the next change (`raced`).
- Messages that waited for the engine stay in `mPendingMsgs` after they were sent and are sent again, deleted, at the next restart
  (`GnssAdapter.cpp:2627`, `GeofenceAdapter.cpp:205-207`; only `BatchingAdapter` clears them; `LocAdapterBase.h:119`).
- `SynergyLocApi` stops the one fix when a distance-based session stops (`SynergyLocApi.cpp:2750`; `LocationAPI.h:66`).
- `startTracking` without a tracking callback or with invalid options is never answered (`GnssAdapter.cpp:2997`; `LocationAPI.h:71` promises an error).
- A stop is answered ID_UNKNOWN while the start is waiting or a switch of modes is under way (2993, 3236-3253), and the start then runs; a client that is
  removed during a switch leaves a session that nobody owns.
- Two updates that cross a switch of modes can leave a session in both maps (3236-3253, 6037-6060); the stop or the end of its client then
  erases it from one of them, and a session that nobody owns, or the fix, stays.
- A restart resumes a distance-based session whose stop is under way (2671, 6065).
- The power mode of the multiplexed fix is not always the least of the sessions' (3059, 3084-3087), as INVALID, 0, is the smallest of the modes (3073).
- A second session is answered SUCCESS although the fix it joins was refused (3032-3037).
- An update to a distance where that is not supported overrides the fix's interval (3224).

Agps:

- A grant that WDS delayed is taken for the answer to a later request: ACQUIRED without a connection (`GnssAdapter.cpp:5293`; `Agps.cpp:93`).
- `handleModemSSR`, which "drops all subscribers" (`Agps.h:198`), is never called: handles the modem forgot keep the connection (`Agps.cpp:664`).
- The report of a refused APN does nothing in PENDING: the request is not answered, and the
  framework's connection is not given back (`GnssAdapter.cpp:5359-5362`).
- With WDS, RELEASING can be entered after a stale grant and a failed connection, and stays.
- A refusal in PENDING tells an inactive subscriber "open failed" and not "closed".
- The internet interface never reports that the network has gone (`NativeAgpsHandler.cpp:105`).
- `Agps.cpp`'s `setAPN` frees with `delete` what was allocated with `new[]`.

NiSessions:

- The flag of an answer that crosses the time-out is left to the next session, which it ends (`GnssAdapter.cpp:3536`, 4648).
- The thread of a network-initiated session clears the id of the session that may have followed it (4670-4671): that session's user is answered ID_UNKNOWN.
- An accepted emergency marks the SUPL session to be ignored, but that session's own user may overwrite the mark before the thread wakes (3522-3531).
- The comment at 4650 refers to `loc_eng_ni_reset_on_engine_restart`, which does not exist: sessions survive a restart.
- A request that is no emergency is neither answered nor freed when nobody listens (4707).
- A thread that cannot be created leaves its session busy for ever, and later requests are ignored (4750-4756); `NiSessions` has it.

OsObserver:

- `LocUnorderedSetMap::update` returns the values that stay as those that were removed (`LocUnorderedSetMap.h:196`; 186-187), so `updateSubscription` loses its
  client (`SystemStatusOsObserver.cpp:142-212`; `IDataItemSubscription.h:66-75`). Nothing calls it.
- An item that `requestData` entered is never subscribed at the framework, though later subscribers count on it (106-124).
- `removeAndReturnInterset` erases from the set it iterates over.
- The mask of networks can lose types of networks that are connected: the report that one network of a type has gone, while another of that type
  stays, carries that type alone (`SystemStatus.h:546-576`; 570-574). A handle that changes its type keeps the old one in the table (533-545).
  Only the other direction, no type without a network, is a property.
- Entries can stay in the table of ten handles and fill it, so that later networks are dropped: `resetNetworkInfo`, when the framework died, knows only
  the networks of the last 5 reports, and iterates over them without the mutex (`SystemStatus.cpp:1290-1296`); and a first report of all that a network is
  gone is not collated and puts that network into the table (1354-1372).

Geofence:

- The collective response is sent while an item still waits (`GeofenceAdapter.cpp:446`; 445), when the first item fails at once.
- A paused fence that was restored is kept as running (:244), so a second restart lets it run; one during the restore loses fences.
- An id of the engine that was freed and used again leads a late request or answer to the other fence.
- A client removed between a command and its items, or while a removal is under way, leaves fences in the engine.
- A refused resume is never reported, a refused modify as SUCCESS, a command without options not at all.
- `SynergyLocApi` implements no request for geofences; the HAL's `locAPIRemoveAllGeofences` passes sessions where ids belong.

LocationAPI and its clients:

- The callback given to `destroy` is asked for with an inverted test, and never called (`LocationAPI.cpp:169`, 344; `LocationAPI.h:50-52`); a destroy without a callback leaks, or calls an empty function where no adapter was loaded.
- `updateCallbacks` never tells an adapter that the client no longer wants it; the reference count goes down for a client that was not found (340).
- The base class gives every destroy a callback, so its objects are never freed.
- Error codes, session ids and request ids: `GnssBatching::start` returns -1 as `true`; sessions are compressed without their options; an NI request's id and a
  session's may collide; a refused start leaves `mTracking` true; the control client's sessions are never stored (`LocationAPIClientBase.cpp:156`).

Batching and trips:

- Refusals of start, stop and update are never reported (`BatchingAdapter.cpp:417-436`, 507-524, 560-571) and an update is answered twice.
- A stop while an update is under way does not find the session, which goes on (560, 590, 611; `LocationAPI.h:107`).
- A start refused as disabled is reported as a failure, and started at unlock all the same.
- A refused stop saves default options; sessions refused meanwhile count as ones that report by themselves.
- Totals are not recorded on a restart of the trip (927; 922), which therefore never ends; a trip may be counted twice, and an ended trip stays in `mBatchingSessions`, so its
  client's leaving stops somebody else's.
- A restart resets the distance of the batch in a copy (293-307); with three trips a subtraction wraps. A trip that joins while the last is stopped, is updated among others, or is stopped while the engine runs
  its distance, never ends or ends late. An erased session is read (949).

Timers and ODCPI:

- An expiry pops the first timer without comparing its time (`LocTimer.cpp:381`): one may fire early. Taking the last one away never disarms the kernel's timer.
- The expiry reads its owner without a lock and then stops whatever timer the owner has (521): one just restarted fires at once. The destructor does not wait for a callback that runs.
- `loc_timer_stop` after the timer fired uses freed memory.
- A late expiry has the framework asked twice in a period; a second emergency within it waits for the timer. The HAL ignores the stop.

GnssConfig:

- Framework callbacks that come after the first lock leave MO locked until the next restart (`GnssAdapter.cpp:1314-1345`).
- A blacklist on its way while a restart takes its copy is lost after being answered SUCCESS; a new blacklist enables constellations that were disabled; `gnssUpdateSvConfig` sends the old
  set of types. The three masks are read without a lock.
- Errors are told by index and not by id: version and server are swapped, and items without a request shift the rest (`LocationAPI.h:244-255`).
- The emergency extension, the minimum elevation and the MO server are not restored at a restart (885, 1074). A configuration that equals the last one is not sent, even where that was refused.
- Enabling and disabling are answered SUCCESS though the lock was refused. SBAS ids from 208 shift by more than the word (1816). `setBlacklist` in HAL 1.x numbers QZSS and NAVIC from 0.
- Aiding data deleted again within a period is never answered (2180-2195); the test of the resolved server is inverted (1124-1138).

Reports and the rest:

- A repeated demand of the hub for NHz measurements turns them off (`GnssAdapter.cpp:6646-6653`).
- After a restart the NMEA types are sent without the debug bit a data client needs (960; 2516), and a data client that leaves never takes it back.
- A failed fix leaves the satellites of the one before marked; positions go to clients without a session, too.
- The latency log is taken from its queue only for fixes that are reported (so it drifts).
- `handleEngineDownEvent` is called by nobody under `src/`; `SynergyLocApi` reports only its status.
- `MsgTask::sendMsg` leaks a message that an unblocked queue refuses (`MsgTask.cpp:68-71`); an abort datagram within a long message is taken for data (`LocIpc.cpp`); the
  adapters of `LocApiBase` change while they are iterated over.

Nmea:

- After a satellite of SBAS the offset of SBAS, 87, is also subtracted from the GPS satellites that follow it in the group (`loc_nmea.cpp:864-866`): GPS 5 is
  shown as a number below zero, printed as it is.
- The count in the GSVs includes signals that are shown in none (L1C, L1S, B2I): receivers are told of satellites that do not come, and the last sentences are empty (2150-2225; 861).
- Without tag blocks only the first 12 satellites of a constellation are listed (748), while GNS counts all.
- NavIC counts for the talker GN, but has no GSA and does not make a fix valid (1601-1605).
- The customized quality says 59, 69 or 6 where there is no position (1254-1299; "0 means no fix", 1125).
- Of QZSS five satellites count for the kind of fix (2D or 3D), though ids up to 199 are meant to fit (475-489 in `gps_extended_c.h`; 471).
- `reportSv` never clears USED_IN_FIX although its comment says so (`GnssAdapter.cpp:4339-4342`).

## 19 What is left

Theorems worth proving next: `DistanceServed` for a dedicated engine, `EngineAgrees` of
`Batching`, `RequestsAreRepeated` of `Odcpi` from what `LocTimer` promises, and `HeapOrdered` of `LocHeap`, which is written without recursion for that purpose.

Code worth modelling next: teardown of `msg_q`; the split of long messages in `LocIpc`; the reports `SystemStatus`
parses; the table of adapters of `LocApiBase`; sessions and trips of one client together.
