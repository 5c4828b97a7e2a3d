------------------------------ MODULE Reports ------------------------------
(***************************************************************************)
(* How reports of the engine reach the clients: the events the GnssAdapter *)
(* asks for on behalf of its clients (mEvtMask), the requests that open    *)
(* the engine with the events all adapters ask for, and the reports that   *)
(* the engine's thread posts to the adapter's, which gives them to the     *)
(* callbacks of every client that has one for them.  The engine hub, where *)
(* there is one, takes the engine's positions and satellites and reports   *)
(* its own.                                                                *)
(*                                                                         *)
(* Tracking sessions are here only as far as positions depend on them, and *)
(* the engine makes no other difference than which events it reports.      *)
(***************************************************************************)
EXTENDS Naturals, Sequences

CONSTANTS
    Clients,
    CallbackSets,   \* the sets of callbacks that clients have
    FixKinds,       \* the positions that the engine and the hub report
    HubLoaded,      \* libloc_eng_hub.so was loaded (initEngHubProxy)
    NmeaByModem,    \* NMEA_PROVIDER, with some NMEA type supported
    Excluded,       \* mExcludedMask: events that are never asked for
    NetworkFixes,   \* getAllowFlpNetworkFixes: network fixes for FLP clients
    Others,         \* events that the other adapters may ask for
    MaxCalls,       \* bounds commands of clients and of the services
    MaxReports,     \* bounds reports of the engine
    MaxCrashes      \* bounds crashes of the engine

VARIABLES
    clientData,     \* mClientData: the callbacks of each client, none if not known
    sessions,       \* clients with a time-based session
    nmeaMask,       \* mNmeaMask # 0
    services,       \* AGPS and ODCPI, where initialised
    evtMask,        \* mEvtMask of the GnssAdapter
    othersMask,     \* ... and of all other adapters
    hub,            \* what the hub's thread is about to make of the mask it read
    adapterQ,       \* messages to the adapter
    apiQ,           \* messages to the LocApi
    engine,         \* is it up, and the events it was opened with
    sysInfo,        \* mLocSystemInfo: the number of the report of each piece
    told,           \* the pieces each client was told
    svUsed,         \* the fix of mGnssSvIdUsedInPosition, 0 if not available
    mbUsed,         \* ... and of mGnssMbSvIdUsedInPosition
    received,       \* the newest report each callback of a client was given
    made,           \* reports so far
    calls, crashes

clientVars == <<clientData, sessions, nmeaMask, services, evtMask>>
infoVars == <<sysInfo, told>>
fixVars == <<svUsed, mbUsed, received>>
vars == <<clientData, sessions, nmeaMask, services, evtMask, othersMask, hub, adapterQ, apiQ,
          engine, sysInfo, told, svUsed, mbUsed, received, made, calls, crashes>>

\* The callbacks of a client.
Kinds == {"tracking", "info", "engine", "sv", "nmea", "meas", "data", "system"}
Services == {"server", "wifi"}
Pieces == {"leapSecond", "leapSecondChange"}

Always == {"system", "report", "ni"}
HubEvents == {"meas", "unpropagated", "polynomial", "ephemeris"}
Events == Always \cup HubEvents \cup Services \cup {"position", "sv", "nmea", "nHz"}

Nothing == [p \in Pieces |-> 0]

Init ==
    /\ clientData = [c \in Clients |-> {}]
    /\ sessions = {}
    /\ nmeaMask = FALSE
    /\ services = {}
    /\ evtMask = {}
    /\ othersMask = {}
    /\ hub = [wants |-> "nothing", mask |-> {}]
    /\ adapterQ = <<>>
    /\ apiQ = <<[op |-> "open", first |-> TRUE]>>
    /\ engine = [up |-> TRUE, events |-> {}]
    /\ sysInfo = Nothing
    /\ told = [c \in Clients |-> Nothing]
    /\ svUsed = 0 /\ mbUsed = 0
    /\ received = [c \in Clients |-> [k \in Kinds |-> 0]]
    /\ made = 0 /\ calls = 0 /\ crashes = 0

Post(m) == adapterQ' = Append(adapterQ, m)

-----------------------------------------------------------------------------
(* Commands, from the threads of clients, and what other adapters ask for.  *)

Call ==
    /\ calls < MaxCalls /\ calls' = calls + 1
    /\ UNCHANGED <<clientVars, engine, infoVars, fixVars, made, crashes>>

AdapterCommand(m) == Call /\ Post(m) /\ UNCHANGED <<othersMask, hub, apiQ>>

AddClientCommand ==
    \E c \in Clients, cbs \in CallbackSets :
        AdapterCommand([type |-> "add", client |-> c, callbacks |-> cbs])

RemoveClientCommand ==
    \E c \in Clients : AdapterCommand([type |-> "remove", client |-> c])

SessionCommand ==
    \E c \in Clients, b \in BOOLEAN :
        AdapterCommand([type |-> "session", client |-> c, on |-> b])

InitCommand == \E s \in Services : AdapterCommand([type |-> "init", service |-> s])

OthersUpdateEvtMask ==
    \E mask \in SUBSET Others :
        /\ Call
        /\ othersMask' = mask
        /\ apiQ' = Append(apiQ, [op |-> "open", first |-> FALSE])
        /\ UNCHANGED <<hub, adapterQ>>

Command ==
    \/ AddClientCommand \/ RemoveClientCommand \/ SessionCommand
    \/ InitCommand \/ OthersUpdateEvtMask

-----------------------------------------------------------------------------
(* The events the adapter asks for.                                         *)

\* The events that a callback needs.
EventsOf(kind) ==
    CASE kind \in {"tracking", "info", "engine"} -> {"position"}
      [] kind = "sv"     -> {"sv"}
      [] kind = "nmea"   -> IF nmeaMask THEN {"nmea"} ELSE {}
      [] kind = "meas"   -> {"meas"}
      [] kind = "data"   -> {"position", "nmea"}
      [] kind = "system" -> {}

KindsIn(data) == UNION {data[c] : c \in Clients}

\* updateClientsEventMask, for these callbacks: NHz measurements alone stay as
\* they were.
ClientsEventMask(data) ==
    Always \cup services \cup (UNION {EventsOf(k) : k \in KindsIn(data)})
    \cup IF HubLoaded THEN HubEvents \cup (evtMask \cap {"nHz"}) ELSE {}

\* updateEvtMask: the engine is opened again, with what the adapters ask for
\* by then.
AskFor(mask) ==
    /\ evtMask' = mask
    /\ apiQ' = Append(apiQ, [op |-> "open", first |-> FALSE])

-----------------------------------------------------------------------------
(* The thread of the adapter: commands.                                     *)

Receive(type) == adapterQ # <<>> /\ Head(adapterQ).type = type

Message == Head(adapterQ)

Handled ==
    /\ adapterQ' = Tail(adapterQ)
    /\ UNCHANGED <<othersMask, hub, engine, made, calls, crashes>>

\* A client that asks for the system information and did not before is told
\* what is known (notifyClientOfCachedLocationSystemInfo).
ToldOnAdding(c, cbs) ==
    IF sysInfo # Nothing /\ "system" \in cbs \ clientData[c]
    THEN [told EXCEPT ![c] = sysInfo]
    ELSE told

AddClient ==
    /\ Receive("add")
    /\ told' = ToldOnAdding(Message.client, Message.callbacks)
    /\ clientData' = [clientData EXCEPT ![Message.client] = Message.callbacks]
    /\ AskFor(ClientsEventMask(clientData'))
    /\ UNCHANGED <<sessions, nmeaMask, services, sysInfo, fixVars>>
    /\ Handled

\* stopClientSessions and eraseClient.
RemoveClient ==
    /\ Receive("remove")
    /\ sessions' = sessions \ {Message.client}
    /\ clientData' = [clientData EXCEPT ![Message.client] = {}]
    /\ AskFor(ClientsEventMask(clientData'))
    /\ UNCHANGED <<nmeaMask, services, infoVars, fixVars>>
    /\ Handled

\* A session is saved or erased.
Session ==
    /\ Receive("session")
    /\ sessions' = IF Message.on THEN sessions \cup {Message.client}
                   ELSE sessions \ {Message.client}
    /\ UNCHANGED <<clientData, nmeaMask, services, evtMask, apiQ, infoVars, fixVars>>
    /\ Handled

\* initAgps and initOdcpi.
InitService ==
    /\ Receive("init")
    /\ services' = services \cup {Message.service}
    /\ AskFor(evtMask \cup {Message.service})
    /\ UNCHANGED <<clientData, sessions, nmeaMask, infoVars, fixVars>>
    /\ Handled

\* The engine was opened.  The configuration sets the NMEA types, and a client
\* that wants NMEA may have come before them (setConfig).
HandleEngineUp ==
    /\ Receive("engineUp")
    /\ nmeaMask' = NmeaByModem
    /\ IF nmeaMask' # nmeaMask /\ "nmea" \in KindsIn(clientData)
       THEN AskFor(evtMask \cup {"nmea"})
       ELSE UNCHANGED <<evtMask, apiQ>>
    /\ UNCHANGED <<clientData, sessions, services, infoVars, fixVars>>
    /\ Handled

-----------------------------------------------------------------------------
(* The thread of the adapter: reports.                                      *)

\* Report n goes to the callbacks that each client has among those of kinds[c].
Give(n, kinds) ==
    received' = [c \in Clients |-> [k \in Kinds |->
                    IF k \in clientData[c] \cap kinds[c] THEN n ELSE received[c][k]]]

GiveTo(kind) == Give(Message.n, [c \in Clients |-> {kind}])

IsFlpClient(c) == clientData[c] \cap {"info", "sv", "nmea", "data", "meas"} = {}

\* LocApiBase::needReport: final fixes with satellites or sensors in them, and
\* intermediate ones where they are accepted.  A fix is good if that holds.
NeedReportForGnssClient(fix) == HubLoaded \/ (fix.status # "failure" /\ fix.good)

NeedReportForFlpClient(fix) ==
    /\ fix.status # "failure"
    /\ fix.status = "intermediate" => fix.sensors \/ NetworkFixes

\* The one callback by which a client gets a position that is for it.
PositionKind(c) ==
    IF "info" \in clientData[c] THEN "info"
    ELSE IF "engine" \in clientData[c] /\ ~HubLoaded THEN "engine"
    ELSE "tracking"

PositionKinds(c, fix) ==
    IF IF IsFlpClient(c) THEN NeedReportForFlpClient(fix) ELSE NeedReportForGnssClient(fix)
    THEN {PositionKind(c)} ELSE {}

\* reportPosition: the satellites of a fix are kept for the next report of
\* satellites.  A fix that no client is to get leaves those of the one before.
KeepSvsUsed(fix) ==
    IF NeedReportForGnssClient(fix) \/ NeedReportForFlpClient(fix)
    THEN /\ svUsed' = IF NeedReportForGnssClient(fix) /\ fix.svs # "none" THEN fix.n ELSE 0
         /\ mbUsed' = IF NeedReportForGnssClient(fix) /\ fix.svs = "multiband" THEN fix.n
                      ELSE 0
    ELSE UNCHANGED <<svUsed, mbUsed>>

Reported == UNCHANGED <<clientVars, apiQ>> /\ Handled

\* Without a session positions are thrown away.  The hub gets the positions
\* instead of the clients, and clients that follow the engines one by one get
\* those that are not for the hub alone (MsgReportSPEPosition).
Position ==
    /\ Receive("position")
    /\ LET fix == Message
           KindsFor(c) == (IF fix.data THEN {"data"} ELSE {})
                       \cup IF HubLoaded THEN {"engine"} ELSE PositionKinds(c, fix)
       IN  IF sessions = {} \/ fix.unpropagated THEN UNCHANGED fixVars
           ELSE /\ Give(fix.n, [c \in Clients |-> KindsFor(c)])
                /\ IF HubLoaded THEN UNCHANGED <<svUsed, mbUsed>> ELSE KeepSvsUsed(fix)
    /\ UNCHANGED infoVars
    /\ Reported

\* The hub's positions: the fused one, and those of its engines
\* (reportEnginePositions).
EnginePositions ==
    /\ Receive("enginePositions")
    /\ LET fix == Message
       IN  /\ Give(fix.n, [c \in Clients |-> {"engine"} \cup
                                IF fix.fused THEN PositionKinds(c, fix) ELSE {}])
           /\ IF fix.fused THEN KeepSvsUsed(fix) ELSE UNCHANGED <<svUsed, mbUsed>>
    /\ UNCHANGED infoVars
    /\ Reported

\* The satellites are marked as used in the fix before, once (reportSv).
Sv ==
    /\ Receive("sv")
    /\ GiveTo("sv")
    /\ svUsed' = 0 /\ mbUsed' = 0
    /\ UNCHANGED infoVars
    /\ Reported

\* reportNmea, reportData and reportGnssMeasurementData.
Forward ==
    /\ \E k \in {"nmea", "data", "meas"} : Receive(k) /\ GiveTo(k)
    /\ UNCHANGED <<svUsed, mbUsed, infoVars>>
    /\ Reported

\* The pieces of a report replace those known and go to every client that
\* asks for them (reportLocationSystemInfo).
SystemInfo ==
    /\ Receive("system")
    /\ LET Newer(info) == [p \in Pieces |-> IF p \in Message.pieces THEN Message.n ELSE info[p]]
       IN  /\ sysInfo' = Newer(sysInfo)
           /\ told' = [c \in Clients |->
                         IF "system" \in clientData[c] THEN Newer(told[c]) ELSE told[c]]
    /\ GiveTo("system")
    /\ UNCHANGED <<svUsed, mbUsed>>
    /\ Reported

AdapterThread ==
    \/ AddClient \/ RemoveClient \/ Session \/ InitService \/ HandleEngineUp
    \/ Position \/ EnginePositions \/ Sv \/ Forward \/ SystemInfo

-----------------------------------------------------------------------------
(* The thread of the LocApi.                                                *)

Serve(op) == apiQ # <<>> /\ Head(apiQ).op = op

Opened ==
    /\ engine' = [up |-> TRUE, events |-> (evtMask \cup othersMask) \ Excluded]
    /\ apiQ' = Tail(apiQ)
    /\ UNCHANGED <<clientVars, othersMask, hub, infoVars, fixVars, made, calls, crashes>>

\* LocOpenMsg: the first one is told to the adapter.  A crashed engine cannot
\* be opened before it is closed.
Open ==
    /\ Serve("open") /\ engine.up
    /\ IF Head(apiQ).first THEN Post([type |-> "engineUp"]) ELSE UNCHANGED adapterQ
    /\ Opened

OpenFails ==
    /\ Serve("open") /\ ~engine.up
    /\ apiQ' = Tail(apiQ)
    /\ UNCHANGED <<clientVars, othersMask, hub, adapterQ, engine, infoVars, fixVars, made,
                   calls, crashes>>

\* LocSsrMsg: close, open, and tell the adapters.
Restart ==
    /\ Serve("ssr")
    /\ Post([type |-> "engineUp"])
    /\ Opened

ApiThread == Open \/ OpenFails \/ Restart

-----------------------------------------------------------------------------
(* The engine's thread.                                                     *)

Report ==
    /\ made < MaxReports /\ made' = made + 1
    /\ UNCHANGED <<clientVars, othersMask, hub, apiQ, engine, infoVars, fixVars, calls, crashes>>

Fixes ==
    [status : {"success", "intermediate", "failure"}, good : BOOLEAN, sensors : BOOLEAN,
     svs : {"none", "single", "multiband"}, unpropagated : BOOLEAN, data : BOOLEAN,
     fused : BOOLEAN]

PostFix(type) ==
    \E f \in FixKinds :
        Post([type |-> type, n |-> made', status |-> f.status, good |-> f.good,
              sensors |-> f.sensors, svs |-> f.svs, unpropagated |-> f.unpropagated,
              data |-> f.data, fused |-> f.fused])

\* The engine reports the events it was opened with.
ReportPositionEvent ==
    /\ engine.up /\ engine.events \cap {"position", "unpropagated"} # {}
    /\ Report
    /\ PostFix("position")

ReportEvent ==
    /\ Report
    /\ engine.up
    /\ \/ \E k \in {"nmea", "meas"} : k \in engine.events /\ Post([type |-> k, n |-> made'])
       \/ ~HubLoaded /\ "sv" \in engine.events /\ Post([type |-> "sv", n |-> made'])
       \/ "position" \in engine.events /\ Post([type |-> "data", n |-> made'])
       \/ \E ps \in SUBSET Pieces \ {{}} :
             "system" \in engine.events /\ Post([type |-> "system", n |-> made', pieces |-> ps])

\* The hub reports positions and satellites of its own.
HubReport ==
    /\ HubLoaded
    /\ Report
    /\ \/ PostFix("enginePositions")
       \/ Post([type |-> "sv", n |-> made'])

EngineDown ==
    /\ engine.up /\ crashes < MaxCrashes /\ crashes' = crashes + 1
    /\ engine' = [up |-> FALSE, events |-> {}]
    /\ apiQ' = Append(apiQ, [op |-> "ssr"])
    /\ UNCHANGED <<clientVars, othersMask, hub, adapterQ, infoVars, fixVars, made, calls>>

-----------------------------------------------------------------------------
(* The hub's thread.                                                        *)

\* The hub wants NHz measurements or no more (updateNHzRequirementCb).  Its
\* demand is compared with the mask: a demand for what is asked for already
\* ends it.  No lock guards the mask, which the thread of the adapter changes.
NHzRead ==
    /\ HubLoaded /\ hub.wants = "nothing" /\ calls < MaxCalls
    /\ hub' = [wants |-> IF "nHz" \in evtMask THEN "less" ELSE "more", mask |-> evtMask]
    /\ calls' = calls + 1
    /\ UNCHANGED <<clientVars, othersMask, adapterQ, apiQ, engine, infoVars, fixVars, made,
                   crashes>>

\* What the adapter wrote in between is lost, or the adapter had read the mask
\* before and overwrites the hub's.
NHzWrite ==
    /\ hub.wants # "nothing"
    /\ \/ hub.wants = "more" /\ AskFor(hub.mask \cup {"nHz"})
       \/ hub.wants = "less" /\ AskFor(hub.mask \ {"nHz"})
       \/ evtMask # hub.mask /\ AskFor(evtMask)
    /\ hub' = [wants |-> "nothing", mask |-> {}]
    /\ UNCHANGED <<clientData, sessions, nmeaMask, services, othersMask, adapterQ, engine,
                   infoVars, fixVars, made, calls, crashes>>

Next ==
    \/ Command \/ AdapterThread \/ ApiThread
    \/ ReportPositionEvent \/ ReportEvent \/ HubReport \/ EngineDown
    \/ NHzRead \/ NHzWrite

Spec == Init /\ [][Next]_vars

-----------------------------------------------------------------------------
(* Properties.                                                              *)

ReportTypes == {"position", "enginePositions", "sv", "nmea", "data", "meas", "system"}

AdapterMessages ==
    [type : {"add"}, client : Clients, callbacks : SUBSET Kinds]
    \cup [type : {"remove"}, client : Clients]
    \cup [type : {"session"}, client : Clients, on : BOOLEAN]
    \cup [type : {"init"}, service : Services]
    \cup [type : {"engineUp"}]
    \cup [type : {"position", "enginePositions"}, n : Nat \ {0},
          status : {"success", "intermediate", "failure"}, good : BOOLEAN,
          sensors : BOOLEAN, svs : {"none", "single", "multiband"},
          unpropagated : BOOLEAN, data : BOOLEAN, fused : BOOLEAN]
    \cup [type : {"sv", "nmea", "data", "meas"}, n : Nat \ {0}]
    \cup [type : {"system"}, n : Nat \ {0}, pieces : SUBSET Pieces]

\* Every variable has its type.
TypeOK ==
    /\ clientData \in [Clients -> SUBSET Kinds]
    /\ nmeaMask \in {FALSE, NmeaByModem}
    /\ sessions \subseteq Clients /\ services \subseteq Services
    /\ evtMask \subseteq Events
    /\ hub \in [wants : {"nothing", "more", "less"}, mask : SUBSET Events]
    /\ hub.wants # "nothing" => HubLoaded
    /\ adapterQ \in Seq(AdapterMessages)
    /\ apiQ \in Seq([op : {"open"}, first : BOOLEAN] \cup [op : {"ssr"}])
    /\ engine.up \in BOOLEAN
    /\ sysInfo \in [Pieces -> Nat] /\ told \in [Clients -> [Pieces -> Nat]]
    /\ svUsed \in Nat /\ mbUsed \in Nat
    /\ received \in [Clients -> [Kinds -> Nat]]
    /\ made \in Nat

\* What callbacks alone make the adapter ask for.
ForCallbacks == {"position", "sv", "nmea", "meas"}

Needed == UNION {EventsOf(k) : k \in KindsIn(clientData)}

\* The adapter asks for what the callbacks of its clients and the services
\* need, and for none of the clients' events that no client needs, in
\* whichever order clients, NMEA types and services came
\* (updateClientsEventMask, setConfig, initAgps).  A hub that writes the mask it
\* read before can undo all of that.
AskedIsNeeded ==
    ~HubLoaded =>
    /\ Needed \cup services \subseteq evtMask
    /\ evtMask \cap ForCallbacks \subseteq Needed

\* Once the LocApi has nothing left to do, the engine is up and reports exactly
\* what the adapters ask for, whatever they asked for while it was being opened,
\* whenever it crashed.
EngineIsAsked ==
    apiQ = <<>> => engine.up /\ engine.events = (evtMask \cup othersMask) \ Excluded

\* What makes EngineIsAsked inductive: a crashed engine has its restart waiting.
RestartWaits == ~engine.up => \E i \in DOMAIN apiQ : apiQ[i].op = "ssr"

\* Every client that asks for the system information was told the newest of
\* each piece, those included that were reported before it came
\* (notifyClientOfCachedLocationSystemInfo, reportLocationSystemInfo).
InfoIsKnown ==
    \A c \in Clients : "system" \in clientData[c] => told[c] = sysInfo

\* What makes InfoIsKnown inductive: a client that comes first of all is told nothing,
\* and had been told nothing.
NothingTold == sysInfo = Nothing => \A c \in Clients : told[c] = Nothing

\* Satellites are never marked as used after an older fix than the newest a
\* client was given (mGnssSvIdUsedInPosAvail), nor by signal after one fix and
\* by satellite after another.
PositionsGiven == {received[c][k] : c \in Clients, k \in {"tracking", "info"}}
MarksAreFresh ==
    /\ svUsed # 0 => \A n \in PositionsGiven : n <= svUsed
    /\ mbUsed \in {0, svUsed}

\* What makes MarksAreFresh inductive.  The engine's thread numbers the reports in
\* the order it posts them in, and no client is ahead of those still waiting.
InOrder ==
    LET Waiting == {i \in DOMAIN adapterQ : adapterQ[i].type \in ReportTypes}
    IN  /\ \A i \in Waiting : adapterQ[i].n \in 1..made
        /\ \A i, j \in Waiting : i < j => adapterQ[i].n < adapterQ[j].n
        /\ \A c \in Clients, k \in Kinds :
              /\ received[c][k] <= made
              /\ \A i \in Waiting : received[c][k] < adapterQ[i].n
=============================================================================
