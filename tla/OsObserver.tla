----------------------------- MODULE OsObserver -----------------------------
(***************************************************************************)
(* SystemStatusOsObserver: clients subscribe for data items, the framework *)
(* notifies them, and what is news is cached and passed on to whoever      *)
(* subscribed.  One of the clients is XtraSystemStatusObserver, which      *)
(* keeps what it hears for the XTRA daemon, a process of its own that may  *)
(* die and come back.  One of the items is the network information, which  *)
(* SystemStatus collects from events of single networks (NetworkInfo).     *)
(*                                                                         *)
(* All handlers run on the adapter thread, in the order of adapterQ.       *)
(***************************************************************************)
EXTENDS NetworkInfo, SetMap, FiniteSets

CONSTANTS
    Clients,       \* IDataItemObservers other than the XTRA one
    Xtra,          \* XtraSystemStatusObserver
    Items,         \* data items other than the network information
    Net,           \* NETWORKINFO_DATA_ITEM_ID
    Values,        \* what the other items may say
    None,          \* nothing was said yet
    Lists,         \* the lists of items clients call with
    MaxWaiting,    \* bounds the messages waiting when another thread posts
    MaxCalls,      \* bounds the calls of clients
    MaxNews,       \* bounds the events of the framework
    MaxRestarts    \* bounds what dies: the framework, the daemon

ASSUME OsObserverAssumption ==
    /\ Xtra \notin Clients
    /\ Net \notin Items
    /\ None \notin Values \cup Reports
    /\ Lists \subseteq SUBSET (Items \cup {Net})
    /\ {MaxWaiting, MaxCalls, MaxNews, MaxRestarts} \subseteq Nat

VARIABLES
    clientItems,   \* mClientToDataItems
    itemClients,   \* mDataItemToClients
    cache,         \* mDataItemCache
    reports,       \* SystemStatus: mCache.mNetworkInfo
    obj,           \* is there a subscription object, mSubscriptionObj
    subscribed,    \* what the framework was asked to keep reporting
    adapterQ,      \* messages to the adapter thread
    heard,         \* what each client was told last; of Xtra, mConnections etc.
    daemon,        \* XTRA daemon: what it was told, and by an answer; mReqStatusReceived
    up,            \* networks the framework reported as connected
    used,          \* calls, news and restarts so far
    (* history, which only properties read *)
    past           \* networks for which the table had no room; odd and crowded times

mapVars == <<clientItems, itemClients, obj, subscribed>>
statusVars == <<cache, reports>>
vars == <<mapVars, statusVars, adapterQ, heard, daemon, up, used, past>>

AllItems == Items \cup {Net}
AllClients == Clients \cup {Xtra}
Said == Values \cup Reports \cup {None}
Requests == {"subscribe", "requestData", "unsubscribe", "unsubscribeAll"}
Messages ==
    [type : Requests, client : AllClients, items : SUBSET AllItems]
        \cup [type : {"setObj"}]
        \cup [type : {"notify"}, item : AllItems, value : Said]
        \cup [type : {"xtraHears"}, said : [AllItems -> Said]]
        \cup [type : {"statusRequest"}, updated : BOOLEAN]

\* What the history tells: networks whose report found the table full; was the
\* first report of all that a network is gone; and were ever more networks up at
\* once than the table holds.
Pasts == [dropped : SUBSET Networks, odd : BOOLEAN, crowded : BOOLEAN]

\* The maps are over clients and data items, the cache holds what the framework may say.
TypeOK ==
    /\ clientItems \in [AllClients -> SUBSET AllItems]
    /\ itemClients \in [AllItems -> SUBSET AllClients]
    /\ cache \in [AllItems -> Said]
    /\ reports \in Seq(Reports)
    /\ \A k \in 1..Len(reports) : IsTable(reports[k].table)
    /\ obj \in BOOLEAN
    /\ subscribed \in SUBSET AllItems
    /\ adapterQ \in Seq(Messages)
    /\ heard \in [AllClients -> [AllItems -> Said]]
    /\ daemon \in [told : [AllItems -> Said], answered : BOOLEAN, asked : BOOLEAN]
    /\ up \in SUBSET Networks
    /\ used \in [calls : Nat, news : Nat, restarts : Nat]
    /\ past \in Pasts

Nothing == [i \in AllItems |-> None]

Init ==
    /\ clientItems = [c \in AllClients |-> {}]
    /\ itemClients = [i \in AllItems |-> {}]
    /\ cache = Nothing
    /\ reports = <<>>
    /\ obj = FALSE
    /\ subscribed = {}
    /\ adapterQ = <<>>
    /\ heard = [c \in AllClients |-> Nothing]
    /\ daemon = [told |-> Nothing, answered |-> FALSE, asked |-> FALSE]
    /\ up = {}
    /\ used = [calls |-> 0, news |-> 0, restarts |-> 0]
    /\ past = [dropped |-> {}, odd |-> FALSE, crowded |-> FALSE]

-----------------------------------------------------------------------------
(* Calls and events from other threads: each posts a message.              *)

Send(m) == adapterQ' = Append(adapterQ, m)

Post(m) ==
    /\ Len(adapterQ) < MaxWaiting
    /\ Send(m)
    /\ UNCHANGED <<mapVars, statusVars, heard, daemon>>

\* A client calls with a list of items, which must not be empty.
Call(type, c, items) ==
    /\ used.calls < MaxCalls
    /\ items # {}
    /\ Post([type |-> type, client |-> c, items |-> items])
    /\ used' = [used EXCEPT !.calls = @ + 1]
    /\ UNCHANGED <<up, past>>

ClientCall ==
    \E c \in AllClients :
        \/ \E type \in {"subscribe", "requestData", "unsubscribe"}, items \in Lists :
               Call(type, c, items)
        \/ Call("unsubscribeAll", c, AllItems)

\* The framework gives its subscription object, once.
SetSubscriptionObj ==
    /\ ~obj
    /\ \A k \in 1..Len(adapterQ) : adapterQ[k].type # "setObj"
    /\ Post([type |-> "setObj"])
    /\ UNCHANGED <<up, used, past>>

\* The framework reports an item other than the network information.
ReportItem ==
    /\ used.news < MaxNews
    /\ \E i \in Items, v \in Values : Post([type |-> "notify", item |-> i, value |-> v])
    /\ used' = [used EXCEPT !.news = @ + 1]
    /\ UNCHANGED <<up, past>>

\* SystemStatus::eventConnectionStatus: a network comes, or changes, or goes, which
\* may be the first that is heard of it: the framework is older than this process.
ConnectionStatus ==
    /\ used.news < MaxNews
    /\ \E n \in Networks, isUp \in BOOLEAN :
        /\ up' = IF isUp THEN up \cup {n} ELSE up \ {n}
        /\ Post([type |-> "notify", item |-> Net, value |-> Event(n, isUp)])
    /\ used' = [used EXCEPT !.news = @ + 1]
    /\ past' = [past EXCEPT !.crowded = @ \/ Cardinality(up') > MaxNetworks]

\* The framework dies: SystemStatus::resetNetworkInfo reports every network of
\* the remembered reports as disconnected.
ResetNetworkInfo ==
    /\ used.restarts < MaxRestarts
    /\ Len(adapterQ) < MaxWaiting
    /\ adapterQ' = adapterQ \o
           [k \in 1..Len(reports) |->
               [type |-> "notify", item |-> Net, value |-> Event(reports[k].network, FALSE)]]
    /\ up' = {}
    /\ used' = [used EXCEPT !.restarts = @ + 1]
    /\ UNCHANGED <<mapVars, statusVars, heard, daemon, past>>

\* The daemon asks for the state, unless it says that it has it.
RequestStatus ==
    /\ used.calls < MaxCalls
    /\ \E updated \in BOOLEAN : Post([type |-> "statusRequest", updated |-> updated])
    /\ used' = [used EXCEPT !.calls = @ + 1]
    /\ UNCHANGED <<up, past>>

\* A new daemon knows nothing; XtraSystemStatusObserver does not notice.
DaemonRestarts ==
    /\ used.restarts < MaxRestarts
    /\ daemon' = [daemon EXCEPT !.told = Nothing, !.answered = FALSE]
    /\ used' = [used EXCEPT !.restarts = @ + 1]
    /\ UNCHANGED <<mapVars, statusVars, adapterQ, heard, up, past>>

-----------------------------------------------------------------------------
(* The adapter thread.                                                     *)

Take(type) == adapterQ # <<>> /\ Head(adapterQ).type = type

Update(old, new) == [i \in AllItems |-> IF new[i] = None THEN old[i] ELSE new[i]]

Cached(contents, items) == [i \in AllItems |-> IF i \in items THEN contents[i] ELSE None]

\* sendCachedDataItems to some clients: said[c] is what client c is notified of.
\* XtraSystemStatusObserver::notify copies it to a message of its own.
Tell(said) ==
    /\ heard' = [c \in AllClients |->
                    IF c = Xtra THEN heard[c] ELSE Update(heard[c], said[c])]
    /\ adapterQ' = Tail(adapterQ) \o
           (IF said[Xtra] = Nothing THEN <<>>
            ELSE <<[type |-> "xtraHears", said |-> said[Xtra]]>>)

TellOnly(client, said) == Tell([c \in AllClients |-> IF c = client THEN said ELSE Nothing])

FirstResponse(m) == Cached(cache, m.items)

\* HandleSubscribeReq, for subscribe and for requestData: only subscribe hands
\* the new items on.
HandleSubscribe ==
    \E type \in {"subscribe", "requestData"} :
        /\ Take(type)
        /\ LET m == Head(adapterQ)
           IN  /\ itemClients' = AddAll(itemClients, m.items, {m.client})
               /\ clientItems' = AddAll(clientItems, {m.client}, m.items)
               /\ TellOnly(m.client, FirstResponse(m))
               /\ subscribed' = IF obj /\ type = "subscribe"
                                THEN subscribed \cup NewKeys(itemClients, itemClients')
                                ELSE subscribed
        /\ UNCHANGED <<obj, statusVars, daemon, up, used, past>>

Unsubscribed(gone) == IF obj THEN subscribed \ gone ELSE subscribed

\* HandleUnsubscribeReq and HandleUnsubscribeAllReq
HandleUnsubscribe ==
    \E type \in {"unsubscribe", "unsubscribeAll"} :
        /\ Take(type)
        /\ LET m == Head(adapterQ)
               unused == IF type = "unsubscribe" THEN clientItems[m.client] \cap m.items
                         ELSE clientItems[m.client]
           IN  /\ clientItems' = Trim(clientItems, {m.client}, unused)
               /\ itemClients' = Trim(itemClients, unused, {m.client})
               /\ subscribed' = Unsubscribed(GoneKeys(itemClients, itemClients'))
        /\ adapterQ' = Tail(adapterQ)
        /\ UNCHANGED <<obj, statusVars, heard, daemon, up, used, past>>

\* SetSubsObj: everything known is subscribed now.
HandleSetObj ==
    /\ Take("setObj")
    /\ obj' = TRUE
    /\ subscribed' = Keys(itemClients)
    /\ adapterQ' = Tail(adapterQ)
    /\ UNCHANGED <<clientItems, itemClients, statusVars, heard, daemon, up, used, past>>

\* updateCache: SystemStatus first decides whether it is news.
Recorded(i, value) ==
    IF i = Net
    THEN /\ IsNews(reports, Collated(reports, value))
         /\ reports' = Remember(reports, Collated(reports, value))
         /\ cache' = [cache EXCEPT ![Net] = Collated(reports, value)]
    ELSE /\ cache[i] # value
         /\ reports' = reports
         /\ cache' = [cache EXCEPT ![i] = value]

NotNews(i, value) ==
    IF i = Net THEN ~IsNews(reports, Collated(reports, value)) ELSE cache[i] = value

\* The history of a report: the first of all, or one the table has no room for.
Noted(value) ==
    [past EXCEPT !.odd = @ \/ (reports = <<>> /\ ~value.connected),
                 !.dropped = IF reports # <<>> /\ value.connected
                                 /\ IsFull(Last(reports).table, value.network)
                             THEN @ \cup {value.network} ELSE @]

\* HandleNotify: what is news goes to every client of the item.
HandleNotify ==
    /\ Take("notify")
    /\ LET i == Head(adapterQ).item
           value == Head(adapterQ).value
       IN  /\ \/ /\ Recorded(i, value)
                 /\ Tell([c \in AllClients |->
                             IF c \in itemClients[i] THEN Cached(cache', clientItems[c] \cap {i})
                             ELSE Nothing])
              \/ /\ NotNews(i, value)
                 /\ adapterQ' = Tail(adapterQ)
                 /\ UNCHANGED <<statusVars, heard>>
           /\ past' = IF i = Net THEN Noted(value) ELSE past
    /\ UNCHANGED <<mapVars, daemon, up, used>>

\* Mutant: what nobody asked for yet is not kept.
XtraHearsOnceAsked ==
    /\ Take("xtraHears")
    /\ LET said == Head(adapterQ).said
       IN  IF daemon.asked
           THEN /\ heard' = [heard EXCEPT ![Xtra] = Update(@, said)]
                /\ daemon' = [daemon EXCEPT !.told = Update(@, said)]
           ELSE UNCHANGED <<heard, daemon>>
    /\ adapterQ' = Tail(adapterQ)
    /\ UNCHANGED <<mapVars, statusVars, up, used, past>>

\* HandleOsObserverUpdateMsg: updateConnections, updateTac, updateMccMnc, each
\* sent on once a daemon has asked.
XtraHears ==
    /\ Take("xtraHears")
    /\ LET said == Head(adapterQ).said
       IN  /\ heard' = [heard EXCEPT ![Xtra] = Update(@, said)]
           /\ daemon' = IF daemon.asked THEN [daemon EXCEPT !.told = Update(@, said)]
                        ELSE daemon
    /\ adapterQ' = Tail(adapterQ)
    /\ UNCHANGED <<mapVars, statusVars, up, used, past>>

\* onStatusRequested
StatusRequested ==
    /\ Take("statusRequest")
    /\ daemon' = IF Head(adapterQ).updated THEN [daemon EXCEPT !.asked = TRUE]
                 ELSE [asked |-> TRUE, answered |-> TRUE,
                       told |-> Update(daemon.told, heard[Xtra])]
    /\ adapterQ' = Tail(adapterQ)
    /\ UNCHANGED <<mapVars, statusVars, heard, up, used, past>>

-----------------------------------------------------------------------------
Next ==
    \/ ClientCall \/ SetSubscriptionObj \/ ReportItem \/ ConnectionStatus
    \/ ResetNetworkInfo \/ RequestStatus \/ DaemonRestarts
    \/ HandleSubscribe \/ HandleUnsubscribe \/ HandleSetObj
    \/ HandleNotify \/ XtraHears \/ StatusRequested

Spec == Init /\ [][Next]_vars

-----------------------------------------------------------------------------
\* The two maps are each other's inverse: HandleNotify looks a client up in the
\* one and its items in the other (SystemStatusOsObserver.cpp:319-340).
MapsAreInverse ==
    \A c \in AllClients, i \in AllItems : i \in clientItems[c] <=> c \in itemClients[i]

\* The framework reports nothing that nobody wants, however subscriptions cross the
\* coming of the subscription object.
SubscribedIsWanted == subscribed \subseteq Keys(itemClients)

AtRest == adapterQ = <<>>

\* At rest every subscriber was told what the cache holds: a client that comes
\* late is sent the cache, and no news is lost between the two.
HeardIsCached == \A c \in AllClients : \A i \in clientItems[c] : heard[c][i] = cache[i]

\* At rest a daemon whose request was answered knows what the cache holds,
\* although XtraSystemStatusObserver hears of it by a message of its own, and
\* the daemon may have come back in between.
DaemonIsCurrent == daemon.answered => \A i \in clientItems[Xtra] : daemon.told[i] = cache[i]

\* At rest every client, the daemon behind XtraSystemStatusObserver included, knows the
\* present state of what it subscribed to (SystemStatusOsObserver::notify, sendCachedDataItems).
SubscribersAreCurrent == AtRest => HeardIsCached /\ DaemonIsCurrent

\* The mask never claims a type of which no network is in the table:
\* NativeAgpsHandler grants data connections by it.  (It may lack the types of others,
\* which collate() takes out of it with the last network of a type.)
MaskIsSound == cache[Net].mask \subseteq {TypeOf[n] : n \in Members(cache[Net].table)}

\* The table holds every connected network it had room for; and no other, unless the
\* framework died, since the reports remembered need not name every network, or the
\* first report of all was that a network is gone, which is not collated.
TableIsCurrent ==
    /\ up \subseteq Members(cache[Net].table) \cup past.dropped
    /\ used.restarts = 0 /\ ~past.odd => Members(cache[Net].table) \subseteq up

\* The table has room as long as it must: what is gone leaves it, so that however many
\* networks there were in all, those that are up at once fit.  Only entries that
\* outlived the framework, or an odd first report, can take the room of others.
TableHasRoom ==
    used.restarts = 0 /\ ~past.odd /\ ~past.crowded => past.dropped = {}

\* What clients hear of the networks, collated from reports of single ones, is true
\* (SystemStatusNetworkInfo::collate, setIteminReport, resetNetworkInfo).
NetworksAreCurrent ==
    /\ TableHasRoom
    /\ cache[Net] # None => /\ past.dropped = {} => MaskIsSound
                            /\ AtRest => TableIsCurrent
=============================================================================
