---------------------------- MODULE LocationAPI ----------------------------
(***************************************************************************)
(* The life of a LocationAPI object: createInstance, updateCallbacks and   *)
(* destroy, on the threads of clients and under one mutex, load the        *)
(* adapters a client asks for and post messages to them; the thread that   *)
(* the adapters share adds and forgets clients, and the last adapter to    *)
(* forget a destroyed client has the object deleted.                       *)
(***************************************************************************)
EXTENDS Naturals, Sequences, FiniteSets

CONSTANTS
    Clients,        \* LocationAPI objects, each made at most once
    Adapters,       \* "gnss" and the adapters of other libraries
    MaxUpdates,     \* bounds the calls of updateCallbacks
    MaxWaiting,     \* bounds the messages waiting when a client calls
    MaxFailedLoads  \* bounds the libraries that cannot be loaded

ASSUME LocationAPIAssumption ==
    /\ IsFiniteSet(Clients) /\ IsFiniteSet(Adapters)
    /\ "gnss" \in Adapters
    /\ {MaxUpdates, MaxWaiting, MaxFailedLoads} \subseteq Nat

VARIABLES
    object,         \* the objects: not made, alive, destroyed, deleted
    loaded,         \* adapters: interfaces loaded
    failed,         \* ... and those whose library could not be loaded
    clientData,     \* gData.clientData: the callbacks of a client
    waitMask,       \* gData.destroyClientData: adapters yet to forget the client
    control,        \* gData.controlAPI: is there a LocationControlAPI
    refCount,       \* gOSFrameworkRefCount
    framework,      \* does the framework instance exist
    wantsReport,    \* clients that passed a callback to destroy
    reported,       \* ... and those whose callback was called
    aborted,        \* an empty function object was called
    msgs,           \* messages to the thread of the adapters
    known,          \* mClientData of each adapter
    capable,        \* adapters that know the capabilities of the engine
    pendingMsgs,    \* mPendingMsgs: requests for capabilities, per adapter
    asked,          \* clients for which capabilities were requested
    told,           \* clients whose capabilitiesCb was called
    used            \* updates so far, and adapters the engine started for

api == <<object, loaded, failed, clientData, refCount, framework, wantsReport, asked>>
adapterSide == <<known, capable, pendingMsgs, told>>
vars == <<object, loaded, failed, clientData, waitMask, control, refCount, framework,
          wantsReport, reported, aborted, msgs, known, capable, pendingMsgs, asked,
          told, used>>

\* The callbacks of a client: the adapters that need them, and which update
\* they came with.
Callbacks == [wants : SUBSET Adapters, version : 0..MaxUpdates]
NoCallbacks == [wants |-> {}, version |-> MaxUpdates + 1]

Message(type, a, c, cbs) == [type |-> type, adapter |-> a, client |-> c, callbacks |-> cbs]

Init ==
    /\ object = [c \in Clients |-> "none"]
    /\ loaded = {}
    /\ failed = {}
    /\ clientData = [c \in Clients |-> NoCallbacks]
    /\ waitMask = [c \in Clients |-> {}]
    /\ control = FALSE
    /\ refCount = 0
    /\ framework = FALSE
    /\ wantsReport = {}
    /\ reported = {}
    /\ aborted = FALSE
    /\ msgs = <<>>
    /\ known = [a \in Adapters |-> [c \in Clients |-> NoCallbacks]]
    /\ capable = {}
    /\ pendingMsgs = [a \in Adapters |-> <<>>]
    /\ asked = {}
    /\ told = {}
    /\ used = [updates |-> 0, ups |-> {}]

-----------------------------------------------------------------------------
(* Calls of clients, each under gDataMutex.                                *)

\* Interfaces that are wanted and never tried are loaded; a library that
\* fails is not tried again.
Load(wants) ==
    \E broken \in SUBSET (wants \ (loaded \cup failed)) :
        /\ Cardinality(failed \cup broken) <= MaxFailedLoads
        /\ failed' = failed \cup broken
        /\ loaded' = loaded \cup (wants \ failed')

\* The adapters come in a fixed order, gnss first.
InOrder(as) ==
    CHOOSE s \in [1..Cardinality(as) -> as] :
        /\ \A i, j \in DOMAIN s : i # j => s[i] # s[j]
        /\ \A i \in DOMAIN s : s[i] = "gnss" => i = 1

ToEach(as, type, c, cbs) ==
    [i \in 1..Cardinality(as) |-> Message(type, InOrder(as)[i], c, cbs)]

\* Mutant: capabilities are requested before the client is added.
AddedAfterRequest(as, c, cbs) ==
    LET adds == ToEach(as, "add", c, cbs)
    IN  IF as = {} THEN <<>>
        ELSE <<Message("capabilities", Head(adds).adapter, c, cbs)>> \o adds

\* addClient at each adapter; the first of them is also asked for the
\* capabilities.
Added(as, c, cbs) ==
    LET adds == ToEach(as, "add", c, cbs)
    IN  IF as = {} THEN <<>>
        ELSE <<Head(adds), Message("capabilities", Head(adds).adapter, c, cbs)>> \o Tail(adds)

CreateInstance ==
    \E c \in Clients, wants \in SUBSET Adapters :
        LET cbs == [wants |-> wants, version |-> used.updates]
        IN  /\ object[c] = "none"
            /\ Len(msgs) <= MaxWaiting
            /\ object' = [object EXCEPT ![c] = "alive"]
            /\ refCount' = refCount + 1
            /\ framework' = (framework \/ refCount' = 1)
            /\ Load(wants)
            /\ msgs' = msgs \o Added(wants \cap loaded', c, cbs)
            /\ asked' = IF wants \cap loaded' = {} THEN asked ELSE asked \cup {c}
            /\ clientData' = [clientData EXCEPT ![c] = cbs]
            /\ UNCHANGED <<waitMask, control, wantsReport, reported, aborted,
                           adapterSide, used>>

\* Adapters no longer wanted are not told.
Updated(c, wants) == wants \cap loaded'

UpdateCallbacks ==
    \E c \in Clients, wants \in SUBSET Adapters :
        LET cbs == [wants |-> wants, version |-> used.updates + 1]
        IN  /\ object[c] = "alive"
            /\ Len(msgs) <= MaxWaiting
            /\ used.updates < MaxUpdates
            /\ used' = [used EXCEPT !.updates = @ + 1]
            /\ Load(wants)
            /\ msgs' = msgs \o ToEach(Updated(c, wants), "add", c, cbs)
            /\ clientData' = [clientData EXCEPT ![c] = cbs]
            /\ UNCHANGED <<object, waitMask, control, refCount, framework, wantsReport,
                           reported, aborted, adapterSide, asked>>

\* Mutant: only the adapters the client wants now forget it.
ToForgetWanted(c) == loaded \cap clientData[c].wants

\* Every adapter that is loaded forgets the client.
ToForget(c) == loaded

Mask(c) == ToForget(c)

FrameworkLeft == framework /\ refCount # 1

\* The test of the callback is inverted: it is called if it is the empty one.
InvokesCallback(given) == ~given

\* The object is deleted; the call of an empty callback aborts.
Complete(c, given) ==
    /\ object' = [object EXCEPT ![c] = "deleted"]
    /\ aborted' = (InvokesCallback(given) /\ ~given)
    /\ reported' = IF InvokesCallback(given) /\ given THEN reported \cup {c} ELSE reported

Destroy ==
    \E c \in Clients, withCb \in BOOLEAN :
        /\ object[c] = "alive"
        /\ Len(msgs) <= MaxWaiting
        /\ wantsReport' = IF withCb THEN wantsReport \cup {c} ELSE wantsReport
        /\ IF loaded = {}
           THEN /\ Complete(c, withCb)
                /\ UNCHANGED waitMask
           ELSE /\ object' = [object EXCEPT ![c] = "destroyed"]
                /\ waitMask' = [waitMask EXCEPT ![c] = IF withCb THEN Mask(c) ELSE {}]
                /\ UNCHANGED <<aborted, reported>>
        /\ msgs' = msgs \o ToEach(ToForget(c), "remove", c, NoCallbacks)
        /\ clientData' = [clientData EXCEPT ![c] = NoCallbacks]
        /\ framework' = FrameworkLeft
        /\ refCount' = refCount - 1
        /\ UNCHANGED <<loaded, failed, control, adapterSide, asked, used>>

\* There is one LocationControlAPI at most, and none without the gnss library.
CreateControl ==
    /\ ~control
    /\ Load({"gnss"})
    /\ control' = ("gnss" \in loaded')
    /\ <<loaded, failed, control>>' # <<loaded, failed, control>>
    /\ UNCHANGED <<object, clientData, waitMask, refCount, framework, wantsReport, reported,
                   aborted, msgs, adapterSide, asked, used>>

DestroyControl ==
    /\ control
    /\ control' = FALSE
    /\ UNCHANGED <<api, waitMask, reported, aborted, msgs, adapterSide, used>>

-----------------------------------------------------------------------------
(* The thread of the adapters.                                             *)

Take(type) == msgs # <<>> /\ Head(msgs).type = type

AddClient ==
    /\ Take("add")
    /\ LET m == Head(msgs)
       IN  known' = [known EXCEPT ![m.adapter][m.client] = m.callbacks]
    /\ msgs' = Tail(msgs)
    /\ UNCHANGED <<api, waitMask, control, reported, aborted, capable, pendingMsgs, told,
                   used>>

PutOff(m) == [pendingMsgs EXCEPT ![m.adapter] = Append(@, m)]

RequestCapabilities ==
    /\ Take("capabilities")
    /\ LET m == Head(msgs)
       IN  /\ pendingMsgs' = IF m.adapter \in capable THEN pendingMsgs ELSE PutOff(m)
           /\ told' = IF m.adapter \in capable /\ known[m.adapter][m.client] # NoCallbacks
                      THEN told \cup {m.client} ELSE told
    /\ msgs' = Tail(msgs)
    /\ UNCHANGED <<api, waitMask, control, reported, aborted, known, capable, used>>

LeftOfMask(c, a) == waitMask[c] \ {a}

\* The client is forgotten, and on this thread the completion is called when
\* the mask is empty.  Without a callback there is no mask, and the object
\* stays.
RemoveClient ==
    /\ Take("remove")
    /\ LET a == Head(msgs).adapter
           c == Head(msgs).client
       IN  /\ known' = [known EXCEPT ![a][c] = NoCallbacks]
           /\ waitMask' = [waitMask EXCEPT ![c] = LeftOfMask(c, a)]
           /\ IF waitMask[c] # {} /\ waitMask'[c] = {}
              THEN Complete(c, c \in wantsReport)
              ELSE UNCHANGED <<object, reported, aborted>>
    /\ msgs' = Tail(msgs)
    /\ UNCHANGED <<loaded, failed, clientData, control, refCount, framework, wantsReport,
                   capable, pendingMsgs, asked, told, used>>

\* The engine starts, or an adapter is opened while it runs; once for each
\* adapter, because GnssTracking has what a second start does.
EngineUp ==
    \E a \in loaded \ used.ups :
        /\ used' = [used EXCEPT !.ups = @ \cup {a}]
        /\ msgs' = Append(msgs, [type |-> "up", adapter |-> a])
        /\ UNCHANGED <<api, waitMask, control, reported, aborted, adapterSide>>

\* Capabilities go to all clients; what was put off is sent again.  Only the
\* batching adapter then empties its list.
HandleEngineUp ==
    /\ Take("up")
    /\ LET a == Head(msgs).adapter
       IN  /\ capable' = capable \cup {a}
           /\ told' = told \cup {c \in Clients : known[a][c] # NoCallbacks}
           /\ msgs' = Tail(msgs) \o pendingMsgs[a]
           /\ pendingMsgs' = IF a = "batching" THEN [pendingMsgs EXCEPT ![a] = <<>>]
                             ELSE pendingMsgs
    /\ UNCHANGED <<api, waitMask, control, reported, aborted, known, used>>

Dispatch ==
    AddClient \/ RequestCapabilities \/ RemoveClient \/ HandleEngineUp

Next ==
    /\ ~aborted
    /\ \/ CreateInstance \/ UpdateCallbacks \/ Destroy
       \/ CreateControl \/ DestroyControl
       \/ EngineUp \/ Dispatch

\* MsgTask's thread serves its queue for ever.
Spec == Init /\ [][Next]_vars /\ WF_vars(~aborted /\ Dispatch)

-----------------------------------------------------------------------------
Rest == msgs = <<>>

\* What LocationAPI's maps hold; the references to the framework's instance never outnumber
\* the clients (gOSFrameworkRefCount).
TypeOK ==
    /\ object \in [Clients -> {"none", "alive", "destroyed", "deleted"}]
    /\ loaded \subseteq Adapters /\ failed \subseteq Adapters \ loaded
    /\ clientData \in [Clients -> Callbacks \cup {NoCallbacks}]
    /\ waitMask \in [Clients -> SUBSET Adapters]
    /\ refCount \in 0..Cardinality(Clients)
    /\ {control, framework, aborted} \subseteq BOOLEAN
    /\ reported \subseteq wantsReport /\ wantsReport \subseteq Clients
    /\ known \in [Adapters -> [Clients -> Callbacks \cup {NoCallbacks}]]
    /\ capable \subseteq loaded
    /\ told \subseteq Clients

\* No adapter and no message to one refers to an object that was deleted: an
\* adapter calls back through the callbacks of the object, and the completion
\* of a removal is a method of it (onRemoveClientCompleteCb).
NothingDangles ==
    \A c \in Clients : object[c] = "deleted" =>
        /\ \A a \in Adapters : known[a][c] = NoCallbacks
        /\ \A k \in 1..Len(msgs) : msgs[k].type # "up" => msgs[k].client # c
                                       \/ msgs[k].type = "capabilities"

\* When the thread is at rest an adapter knows no client that was destroyed,
\* whichever adapters its callbacks wanted over time (LocationAPI::destroy).
DestroyedAreForgotten ==
    Rest => \A c \in Clients : object[c] \in {"destroyed", "deleted"} =>
                \A a \in Adapters : known[a][c] = NoCallbacks

\* The framework instance exists as long as a client lives, and not longer
\* (gOSFrameworkRefCount).
FrameworkLives ==
    framework <=> \E c \in Clients : object[c] = "alive"

\* No adapter goes on with a client that is gone, and with the last goes the framework's
\* instance.
TheGoneAreForgotten == NothingDangles /\ DestroyedAreForgotten /\ FrameworkLives

\* Every adapter that is there and that a live client wants has the newest callbacks
\* of the client (createInstance, updateCallbacks, saveClient).
CallbacksAreNewest ==
    \A c \in Clients : object[c] = "alive" =>
                \A a \in clientData[c].wants \cap loaded : known[a][c] = clientData[c]

\* A client made when an adapter it wants was there has been told the
\* capabilities by the time the engine is known and nothing is under way,
\* in whichever order the engine started (requestCapabilities, mPendingMsgs).
CapabilitiesTold ==
    loaded \subseteq capable => \A c \in asked : object[c] = "alive" => c \in told

\* When the thread is at rest the live clients are served.
ClientsAreServed == Rest => CallbacksAreNewest /\ CapabilitiesTold

\* A client destroyed with a callback, as the clients of this repository are,
\* is deleted in the end (LocationAPI::onRemoveClientCompleteCb).
DeletedInTheEnd ==
    \A c \in Clients : object[c] = "destroyed" /\ c \in wantsReport ~> object[c] = "deleted"
=============================================================================
