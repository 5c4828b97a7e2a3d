------------------------- MODULE OsObserver_proofs -------------------------
(***************************************************************************)
(* Proofs about OsObserver: its variables keep their types, the two maps   *)
(* of subscriptions, which every handler updates one after the other, are  *)
(* always each other's inverse, the framework is asked for nothing that    *)
(* nobody wants, at rest every subscriber knows what the cache holds, and  *)
(* what the cache holds of the networks is true.                           *)
(***************************************************************************)
EXTENDS OsObserver, TLAPS, SequenceTheorems, FiniteSetTheorems

\* Reports whose table can be one, and messages that carry only such reports.
TableReports == {r \in Reports : IsTable(r.table)}

Carries(m) == m.type = "notify" /\ m.item = Net => m.value \in TableReports
GoodMessages == {m \in Messages : Carries(m)}

IInv ==
    /\ TypeOK
    /\ reports \in Seq(TableReports)
    /\ adapterQ \in Seq(GoodMessages)

-----------------------------------------------------------------------------
(* NetworkInfo: an event and a report, collated, make a report             *)

LEMMA EventIsReport ==
    ASSUME NEW n \in Networks, NEW isUp \in BOOLEAN
    PROVE  Event(n, isUp) \in TableReports
<1>1. TypeOf[n] \in {Mobile, Wifi}
  BY NetworkAssumption
<1>2. <<n>> \in Seq(Networks) /\ Len(<<n>>) = 1
  OBVIOUS
<1>3. IsTable(<<n>>)
  BY <1>2, NetworkAssumption DEF IsTable, IsInjective
<1>4. Event(n, isUp) \in Reports
  BY <1>1, <1>2 DEF Event, Reports
<1> QED BY <1>3, <1>4 DEF Event, TableReports

LEMMA AddedIsTable ==
    ASSUME NEW table \in Seq(Networks), IsTable(table), NEW n \in Networks
    PROVE  Added(table, n) \in Seq(Networks) /\ IsTable(Added(table, n))
<1>1. CASE n \in Members(table) \/ Len(table) >= MaxNetworks
  BY <1>1 DEF Added, IsFull
<1>2. CASE ~(n \in Members(table) \/ Len(table) >= MaxNetworks)
  <2>1. Added(table, n) = Append(table, n)
    BY <1>2 DEF Added, IsFull
  <2>2. Append(table, n) \in Seq(Networks) /\ Len(Append(table, n)) = Len(table) + 1
    OBVIOUS
  <2>3. Len(table) + 1 <= MaxNetworks
    BY <1>2, NetworkAssumption
  <2>4. ASSUME NEW a \in 1..(Len(table) + 1), NEW b \in 1..(Len(table) + 1),
               Append(table, n)[a] = Append(table, n)[b]
        PROVE  a = b
    BY <1>2, <2>4 DEF IsTable, IsInjective, Members
  <2>5. DOMAIN Append(table, n) = 1..(Len(table) + 1)
    BY <2>2
  <2> QED BY <2>1, <2>2, <2>3, <2>4, <2>5 DEF IsTable, IsInjective
<1> QED BY <1>1, <1>2

LEMMA DeletedIsTable ==
    ASSUME NEW table \in Seq(Networks), IsTable(table), NEW n \in Networks
    PROVE  Deleted(table, n) \in Seq(Networks) /\ IsTable(Deleted(table, n))
<1>1. CASE n \notin Members(table)
  BY <1>1 DEF Deleted
<1>2. CASE n \in Members(table)
  <2> DEFINE last == table[Len(table)]
             d == [k \in 1..(Len(table) - 1) |-> IF table[k] = n THEN last ELSE table[k]]
  <2>1. Deleted(table, n) = d
    BY <1>2 DEF Deleted
  <2>2. PICK at \in 1..Len(table) : table[at] = n
    BY <1>2 DEF Members
  <2>3. Len(table) \in Nat /\ Len(table) >= 1
    BY <2>2
  <2>4. d \in Seq(Networks) /\ Len(d) = Len(table) - 1
    <3>1. \A k \in 1..(Len(table) - 1) : d[k] \in Networks
      BY <2>3
    <3>2. Len(table) - 1 \in Nat
      BY <2>3
    <3> QED BY <3>1, <3>2
  <2>5. ASSUME NEW a \in 1..(Len(table) - 1), NEW b \in 1..(Len(table) - 1), d[a] = d[b]
        PROVE  a = b
    <3>1. \A k \in 1..(Len(table) - 1) : table[k] # last
      BY <2>3 DEF IsTable, IsInjective
    <3>2. d[a] = (IF table[a] = n THEN last ELSE table[a])
          /\ d[b] = (IF table[b] = n THEN last ELSE table[b])
      OBVIOUS
    <3>3. table[a] = table[b]
      BY <2>5, <3>1, <3>2
    <3> QED BY <2>3, <3>3 DEF IsTable, IsInjective
  <2>6. IsTable(d)
    <3>1. DOMAIN d = 1..(Len(table) - 1)
      OBVIOUS
    <3>2. Len(d) <= MaxNetworks
      BY <2>3, <2>4, NetworkAssumption DEF IsTable
    <3> QED BY <2>5, <3>1, <3>2 DEF IsTable, IsInjective
  <2> QED BY <2>1, <2>4, <2>6
<1> QED BY <1>1, <1>2

LEMMA LastIsElement ==
    ASSUME NEW S, NEW s \in Seq(S), s # <<>>
    PROVE  Last(s) \in S
BY DEF Last

LEMMA CollatedIsReport ==
    ASSUME NEW known \in Seq(TableReports), NEW event \in TableReports
    PROVE  Collated(known, event) \in TableReports
<1>1. CASE known = <<>>
  BY <1>1 DEF Collated
<1>2. CASE known # <<>>
  <2> DEFINE latest == Last(known)
             n == event.network
  <2>1. latest \in TableReports
    BY <1>2, LastIsElement
  <2>2. /\ latest.table \in Seq(Networks) /\ IsTable(latest.table)
        /\ latest.mask \in SUBSET {Mobile, Wifi}
    BY <2>1 DEF TableReports, Reports
  <2>3. event.connected \in BOOLEAN /\ n \in Networks /\ event.mask \in SUBSET {Mobile, Wifi}
    BY DEF TableReports, Reports
  <2>4. Collated(known, event) = Collate(event, latest)
    BY <1>2 DEF Collated
  <2>5. CASE event.connected
    <3>1. Added(latest.table, n) \in Seq(Networks) /\ IsTable(Added(latest.table, n))
      BY <2>2, <2>3, AddedIsTable
    <3>2. Collate(event, latest) =
              [event EXCEPT !.mask = event.mask \cup latest.mask,
                            !.table = Added(latest.table, n)]
      BY <2>5 DEF Collate
    <3>3. Collate(event, latest) =
              [connected |-> event.connected, network |-> n,
               mask |-> event.mask \cup latest.mask, table |-> Added(latest.table, n)]
      BY <3>2 DEF TableReports, Reports
    <3> QED BY <2>2, <2>3, <2>4, <3>1, <3>3 DEF TableReports, Reports
  <2>6. CASE ~event.connected
    <3> DEFINE mask == IF Others(latest.table, n) = {} THEN latest.mask \ event.mask
                       ELSE event.mask
    <3>1. Deleted(latest.table, n) \in Seq(Networks) /\ IsTable(Deleted(latest.table, n))
      BY <2>2, <2>3, DeletedIsTable
    <3>2. Collate(event, latest) =
              [event EXCEPT !.mask = mask, !.table = Deleted(latest.table, n)]
      BY <2>6 DEF Collate
    <3>3. Collate(event, latest) =
              [connected |-> event.connected, network |-> n,
               mask |-> mask, table |-> Deleted(latest.table, n)]
      BY <3>2 DEF TableReports, Reports
    <3>4. mask \in SUBSET {Mobile, Wifi}
      BY <2>2, <2>3
    <3> QED BY <2>3, <2>4, <3>1, <3>3, <3>4 DEF TableReports, Reports
  <2> QED BY <2>5, <2>6
<1> QED BY <1>1, <1>2

LEMMA RememberedAreReports ==
    ASSUME NEW known \in Seq(TableReports), NEW report \in TableReports
    PROVE  Remember(known, report) \in Seq(TableReports)
<1>1. CASE known = <<>>
  BY <1>1 DEF Remember
<1>2. CASE known # <<>>
  <2>1. Tail(known) \in Seq(TableReports)
    BY <1>2
  <2> QED BY <2>1 DEF Remember
<1> QED BY <1>1, <1>2

-----------------------------------------------------------------------------
(* Messages *)

LEMMA MessageParts ==
    ASSUME NEW m \in Messages
    PROVE  /\ m.type \in Requests => m.client \in AllClients /\ m.items \in SUBSET AllItems
           /\ m.type = "notify" => m.item \in AllItems /\ m.value \in Said
           /\ m.type = "xtraHears" => m.said \in [AllItems -> Said]
           /\ m.type = "statusRequest" => m.updated \in BOOLEAN
BY DEF Messages, Requests

LEMMA GoodParts ==
    ASSUME NEW q \in Seq(GoodMessages), q # <<>>
    PROVE  /\ Head(q) \in GoodMessages
           /\ Tail(q) \in Seq(GoodMessages)
OBVIOUS

LEMMA GoodAreMessages ==
    ASSUME NEW q \in Seq(GoodMessages)
    PROVE  q \in Seq(Messages)
BY DEF GoodMessages

LEMMA NothingIsSaid == Nothing \in [AllItems -> Said]
BY DEF Nothing, Said

LEMMA CachedIsSaid ==
    ASSUME NEW contents \in [AllItems -> Said], NEW items
    PROVE  Cached(contents, items) \in [AllItems -> Said]
BY DEF Cached, Said

LEMMA UpdateIsSaid ==
    ASSUME NEW old \in [AllItems -> Said], NEW new \in [AllItems -> Said]
    PROVE  Update(old, new) \in [AllItems -> Said]
BY DEF Update

\* What sendCachedDataItems does to the clients and the queue.
LEMMA TellKeeps ==
    ASSUME IInv, NEW said \in [AllClients -> [AllItems -> Said]], adapterQ # <<>>, Tell(said)
    PROVE  /\ heard' \in [AllClients -> [AllItems -> Said]]
           /\ adapterQ' \in Seq(GoodMessages)
<1>1. ASSUME NEW c \in AllClients
      PROVE  (IF c = Xtra THEN heard[c] ELSE Update(heard[c], said[c])) \in [AllItems -> Said]
  BY UpdateIsSaid DEF IInv, TypeOK
<1>2. heard' \in [AllClients -> [AllItems -> Said]]
  BY <1>1 DEF Tell
<1>3. Tail(adapterQ) \in Seq(GoodMessages)
  BY GoodParts DEF IInv
<1>4. Xtra \in AllClients /\ said[Xtra] \in [AllItems -> Said]
  BY DEF AllClients
<1>5. [type |-> "xtraHears", said |-> said[Xtra]] \in GoodMessages
  BY <1>4 DEF GoodMessages, Messages, Carries
<1>6. <<[type |-> "xtraHears", said |-> said[Xtra]]>> \in Seq(GoodMessages)
  BY <1>5
<1>7. <<>> \in Seq(GoodMessages)
  OBVIOUS
<1>8. adapterQ' = Tail(adapterQ) \o
           (IF said[Xtra] = Nothing THEN <<>>
            ELSE <<[type |-> "xtraHears", said |-> said[Xtra]]>>)
  BY DEF Tell
<1>9. adapterQ' \in Seq(GoodMessages)
  BY <1>3, <1>6, <1>7, <1>8
<1> QED BY <1>2, <1>9

LEMMA TellOnlyKeeps ==
    ASSUME IInv, NEW client, NEW said \in [AllItems -> Said], adapterQ # <<>>,
           TellOnly(client, said)
    PROVE  /\ heard' \in [AllClients -> [AllItems -> Said]]
           /\ adapterQ' \in Seq(GoodMessages)
<1> DEFINE each == [c \in AllClients |-> IF c = client THEN said ELSE Nothing]
<1>1. each \in [AllClients -> [AllItems -> Said]]
  BY NothingIsSaid
<1>2. Tell(each)
  BY DEF TellOnly
<1> HIDE DEF each
<1> QED BY <1>1, <1>2, TellKeeps

-----------------------------------------------------------------------------
(* The types are kept *)

LEMMA ReportsHaveTables ==
    ASSUME NEW known \in Seq(TableReports)
    PROVE  known \in Seq(Reports) /\ \A k \in 1..Len(known) : IsTable(known[k].table)
BY DEF TableReports

\* The calls of other threads post one good message and change little else.
LEMMA PostKeeps ==
    ASSUME IInv, NEW m \in GoodMessages, Post(m), up' \in SUBSET Networks, past' \in Pasts,
           used' \in [calls : Nat, news : Nat, restarts : Nat]
    PROVE  IInv'
<1>1. adapterQ' \in Seq(GoodMessages)
  BY DEF Post, Send, IInv
<1>2. adapterQ' \in Seq(Messages)
  BY <1>1, GoodAreMessages
<1>3. /\ clientItems' = clientItems /\ itemClients' = itemClients /\ obj' = obj
      /\ subscribed' = subscribed /\ cache' = cache /\ reports' = reports
      /\ heard' = heard /\ daemon' = daemon
  BY DEF Post, mapVars, statusVars
<1>4. TypeOK'
  BY <1>2, <1>3 DEF IInv, TypeOK
<1> QED BY <1>1, <1>3, <1>4 DEF IInv

LEMMA InitIInv == Init => IInv
<1> SUFFICES ASSUME Init PROVE IInv
  OBVIOUS
<1>1. Nothing \in [AllItems -> Said]
  BY NothingIsSaid
<1>2. <<>> \in Seq(TableReports) /\ <<>> \in Seq(GoodMessages) /\ <<>> \in Seq(Messages)
      /\ <<>> \in Seq(Reports) /\ Len(<<>>) = 0
  OBVIOUS
<1>3. \A k \in 1..Len(reports) : IsTable(reports[k].table)
  BY <1>2 DEF Init
<1>4. TypeOK
  BY <1>1, <1>2, <1>3 DEF Init, TypeOK, Pasts
<1> QED BY <1>2, <1>4 DEF Init, IInv

\* Counting a call, an event or a restart keeps the type of the counts.
LEMMA CountsKeep ==
    ASSUME used \in [calls : Nat, news : Nat, restarts : Nat],
           \/ used' = used
           \/ used' = [used EXCEPT !.calls = @ + 1]
           \/ used' = [used EXCEPT !.news = @ + 1]
           \/ used' = [used EXCEPT !.restarts = @ + 1]
    PROVE  used' \in [calls : Nat, news : Nat, restarts : Nat]
OBVIOUS

LEMMA IInvParts ==
    ASSUME IInv
    PROVE  /\ used \in [calls : Nat, news : Nat, restarts : Nat]
           /\ up \in SUBSET Networks /\ past \in Pasts
           /\ reports \in Seq(TableReports)
           /\ adapterQ \in Seq(GoodMessages)
BY DEF IInv, TypeOK

LEMMA CallKeeps ==
    ASSUME IInv, NEW type \in Requests, NEW c \in AllClients, NEW items \in SUBSET AllItems,
           Call(type, c, items)
    PROVE  IInv'
<1>1. [type |-> type, client |-> c, items |-> items] \in GoodMessages
  BY DEF GoodMessages, Messages, Carries, Requests
<1>2. /\ Post([type |-> type, client |-> c, items |-> items])
      /\ used' = [used EXCEPT !.calls = @ + 1] /\ up' = up /\ past' = past
  BY DEF Call
<1>3. used' \in [calls : Nat, news : Nat, restarts : Nat] /\ up' \in SUBSET Networks /\ past' \in Pasts
  BY <1>2, IInvParts, CountsKeep
<1> QED BY <1>1, <1>2, <1>3, PostKeeps

LEMMA ClientCallKeeps == ASSUME IInv, ClientCall PROVE IInv'
<1>1. Lists \subseteq SUBSET AllItems
  BY OsObserverAssumption DEF AllItems
<1>2. PICK c \in AllClients :
          \/ \E type \in {"subscribe", "requestData", "unsubscribe"}, items \in Lists :
                 Call(type, c, items)
          \/ Call("unsubscribeAll", c, AllItems)
  BY DEF ClientCall
<1>3. CASE Call("unsubscribeAll", c, AllItems)
  <2>1. "unsubscribeAll" \in Requests /\ AllItems \in SUBSET AllItems
    BY DEF Requests
  <2> QED BY <1>3, <2>1, CallKeeps
<1>4. CASE \E type \in {"subscribe", "requestData", "unsubscribe"}, items \in Lists :
               Call(type, c, items)
  <2>1. PICK type \in {"subscribe", "requestData", "unsubscribe"}, items \in Lists :
            Call(type, c, items)
    BY <1>4
  <2>2. type \in Requests /\ items \in SUBSET AllItems
    BY <1>1 DEF Requests
  <2> QED BY <2>1, <2>2, CallKeeps
<1> QED BY <1>2, <1>3, <1>4

LEMMA SetSubscriptionObjKeeps == ASSUME IInv, SetSubscriptionObj PROVE IInv'
<1>1. [type |-> "setObj"] \in GoodMessages
  BY DEF GoodMessages, Messages, Carries
<1>2. Post([type |-> "setObj"]) /\ up' = up /\ used' = used /\ past' = past
  BY DEF SetSubscriptionObj
<1>3. used' \in [calls : Nat, news : Nat, restarts : Nat] /\ up' \in SUBSET Networks /\ past' \in Pasts
  BY <1>2, IInvParts
<1> QED BY <1>1, <1>2, <1>3, PostKeeps

LEMMA ReportItemKeeps == ASSUME IInv, ReportItem PROVE IInv'
<1>1. PICK i \in Items, v \in Values : Post([type |-> "notify", item |-> i, value |-> v])
  BY DEF ReportItem
<1>2. [type |-> "notify", item |-> i, value |-> v] \in GoodMessages
  BY OsObserverAssumption DEF GoodMessages, Messages, Carries, AllItems, Said
<1>3. up' = up /\ past' = past /\ used' = [used EXCEPT !.news = @ + 1]
  BY DEF ReportItem
<1>4. used' \in [calls : Nat, news : Nat, restarts : Nat] /\ up' \in SUBSET Networks /\ past' \in Pasts
  BY <1>3, IInvParts, CountsKeep
<1> QED BY <1>1, <1>2, <1>4, PostKeeps

LEMMA EventIsGood ==
    ASSUME NEW n \in Networks, NEW isUp \in BOOLEAN
    PROVE  [type |-> "notify", item |-> Net, value |-> Event(n, isUp)] \in GoodMessages
<1>1. Event(n, isUp) \in TableReports
  BY EventIsReport
<1>2. Event(n, isUp) \in Reports
  BY <1>1 DEF TableReports
<1> QED BY <1>1, <1>2 DEF GoodMessages, Messages, Carries, AllItems, Said

LEMMA ConnectionStatusKeeps == ASSUME IInv, ConnectionStatus PROVE IInv'
<1>1. PICK n \in Networks, isUp \in BOOLEAN :
          /\ up' = IF isUp THEN up \cup {n} ELSE up \ {n}
          /\ Post([type |-> "notify", item |-> Net, value |-> Event(n, isUp)])
  BY DEF ConnectionStatus
<1>2. [type |-> "notify", item |-> Net, value |-> Event(n, isUp)] \in GoodMessages
  BY EventIsGood
<1>3. /\ used' = [used EXCEPT !.news = @ + 1]
      /\ past' = [past EXCEPT !.crowded = @ \/ Cardinality(up') > MaxNetworks]
  BY DEF ConnectionStatus
<1>4. used' \in [calls : Nat, news : Nat, restarts : Nat] /\ up' \in SUBSET Networks /\ past' \in Pasts
  BY <1>1, <1>3, IInvParts, CountsKeep DEF Pasts
<1> QED BY <1>1, <1>2, <1>4, PostKeeps

LEMMA ResetKeeps == ASSUME IInv, ResetNetworkInfo PROVE IInv'
<1> DEFINE gone == [k \in 1..Len(reports) |->
                [type |-> "notify", item |-> Net, value |-> Event(reports[k].network, FALSE)]]
<1>1. ASSUME NEW k \in 1..Len(reports)
      PROVE  gone[k] \in GoodMessages
  <2>1. reports[k] \in TableReports
    BY IInvParts
  <2>2. reports[k].network \in Networks
    BY <2>1 DEF TableReports, Reports
  <2> QED BY <2>2, EventIsGood
<1>2. gone \in Seq(GoodMessages)
  <2>1. Len(reports) \in Nat
    BY IInvParts
  <2>2. gone \in [1..Len(reports) -> GoodMessages]
    BY <1>1, Zenon
  <2> HIDE DEF gone
  <2> QED BY <2>1, <2>2
<1>3. adapterQ' = adapterQ \o gone
  BY DEF ResetNetworkInfo
<1> HIDE DEF gone
<1>4. adapterQ' \in Seq(GoodMessages)
  BY <1>2, <1>3, IInvParts
<1>5. adapterQ' \in Seq(Messages)
  BY <1>4, GoodAreMessages
<1>6. used' = [used EXCEPT !.restarts = @ + 1]
  BY DEF ResetNetworkInfo
<1>7. used' \in [calls : Nat, news : Nat, restarts : Nat]
  BY <1>6, IInvParts, CountsKeep
<1>8. /\ clientItems' = clientItems /\ itemClients' = itemClients /\ obj' = obj
      /\ subscribed' = subscribed /\ cache' = cache /\ reports' = reports
      /\ heard' = heard /\ daemon' = daemon /\ up' = {} /\ past' = past
  BY DEF ResetNetworkInfo, mapVars, statusVars
<1>9. TypeOK'
  BY <1>5, <1>7, <1>8 DEF IInv, TypeOK
<1> QED BY <1>4, <1>8, <1>9 DEF IInv

LEMMA RequestStatusKeeps == ASSUME IInv, RequestStatus PROVE IInv'
<1>1. PICK updated \in BOOLEAN : Post([type |-> "statusRequest", updated |-> updated])
  BY DEF RequestStatus
<1>2. [type |-> "statusRequest", updated |-> updated] \in GoodMessages
  BY DEF GoodMessages, Messages, Carries
<1>3. up' = up /\ past' = past /\ used' = [used EXCEPT !.calls = @ + 1]
  BY DEF RequestStatus
<1>4. used' \in [calls : Nat, news : Nat, restarts : Nat] /\ up' \in SUBSET Networks /\ past' \in Pasts
  BY <1>3, IInvParts, CountsKeep
<1> QED BY <1>1, <1>2, <1>4, PostKeeps

\* What the daemon knows is one of three fields of a record.
Daemons == [told : [AllItems -> Said], answered : BOOLEAN, asked : BOOLEAN]

LEMMA DaemonRestartsKeeps == ASSUME IInv, DaemonRestarts PROVE IInv'
<1>1. daemon \in Daemons
  BY DEF IInv, TypeOK, Daemons
<1>2. daemon' = [daemon EXCEPT !.told = Nothing, !.answered = FALSE]
  BY DEF DaemonRestarts
<1>3. daemon' = [told |-> Nothing, answered |-> FALSE, asked |-> daemon.asked]
  BY <1>1, <1>2 DEF Daemons
<1>4. daemon' \in Daemons
  BY <1>1, <1>3, NothingIsSaid DEF Daemons
<1>5. used' = [used EXCEPT !.restarts = @ + 1]
  BY DEF DaemonRestarts
<1>6. used' \in [calls : Nat, news : Nat, restarts : Nat]
  BY <1>5, IInvParts, CountsKeep
<1>7. /\ clientItems' = clientItems /\ itemClients' = itemClients /\ obj' = obj
      /\ subscribed' = subscribed /\ cache' = cache /\ reports' = reports
      /\ heard' = heard /\ adapterQ' = adapterQ /\ up' = up /\ past' = past
  BY DEF DaemonRestarts, mapVars, statusVars
<1>8. TypeOK'
  BY <1>4, <1>6, <1>7 DEF IInv, TypeOK, Daemons
<1> QED BY <1>7, <1>8 DEF IInv

-----------------------------------------------------------------------------
(* The adapter thread *)

LEMMA TakenIsGood ==
    ASSUME IInv, NEW type, Take(type)
    PROVE  /\ adapterQ # <<>>
           /\ Head(adapterQ) \in GoodMessages /\ Head(adapterQ) \in Messages
           /\ Head(adapterQ).type = type
           /\ Tail(adapterQ) \in Seq(GoodMessages)
<1>1. adapterQ # <<>> /\ Head(adapterQ).type = type
  BY DEF Take
<1>2. Head(adapterQ) \in GoodMessages /\ Tail(adapterQ) \in Seq(GoodMessages)
  BY <1>1, GoodParts, IInvParts
<1> QED BY <1>1, <1>2 DEF GoodMessages

\* What a handler leaves, put together.
LEMMA HandlerKeeps ==
    ASSUME IInv,
           clientItems' \in [AllClients -> SUBSET AllItems],
           itemClients' \in [AllItems -> SUBSET AllClients],
           cache' \in [AllItems -> Said],
           reports' \in Seq(TableReports),
           obj' \in BOOLEAN,
           subscribed' \in SUBSET AllItems,
           adapterQ' \in Seq(GoodMessages),
           heard' \in [AllClients -> [AllItems -> Said]],
           daemon' \in Daemons,
           up' = up, used' = used, past' \in Pasts
    PROVE  IInv'
<1>1. adapterQ' \in Seq(Messages)
  BY GoodAreMessages
<1>2. reports' \in Seq(Reports) /\ \A k \in 1..Len(reports') : IsTable(reports'[k].table)
  BY ReportsHaveTables
<1>3. up' \in SUBSET Networks /\ past' \in Pasts /\ used' \in [calls : Nat, news : Nat, restarts : Nat]
  BY IInvParts
<1>4. TypeOK'
  BY <1>1, <1>2, <1>3 DEF TypeOK, Daemons
<1> QED BY <1>4 DEF IInv

\* The parts of IInv a handler may leave as they are.
LEMMA MapParts ==
    ASSUME IInv
    PROVE  /\ clientItems \in [AllClients -> SUBSET AllItems]
           /\ itemClients \in [AllItems -> SUBSET AllClients]
           /\ obj \in BOOLEAN
           /\ subscribed \in SUBSET AllItems
BY DEF IInv, TypeOK

LEMMA StatusParts ==
    ASSUME IInv
    PROVE  /\ cache \in [AllItems -> Said]
           /\ heard \in [AllClients -> [AllItems -> Said]]
           /\ daemon \in Daemons
BY DEF IInv, TypeOK, Daemons

LEMMA SubscribeKeeps == ASSUME IInv, HandleSubscribe PROVE IInv'
<1>1. PICK type \in {"subscribe", "requestData"} :
          /\ Take(type)
          /\ itemClients' = AddAll(itemClients, Head(adapterQ).items, {Head(adapterQ).client})
          /\ clientItems' = AddAll(clientItems, {Head(adapterQ).client}, Head(adapterQ).items)
          /\ TellOnly(Head(adapterQ).client, FirstResponse(Head(adapterQ)))
          /\ subscribed' = IF obj /\ type = "subscribe"
                           THEN subscribed \cup NewKeys(itemClients, itemClients')
                           ELSE subscribed
  BY DEF HandleSubscribe
<1>2. PICK m : m = Head(adapterQ)
  OBVIOUS
<1>3. adapterQ # <<>> /\ m \in Messages /\ m.type = type
  BY <1>1, <1>2, TakenIsGood
<1>4. m.client \in AllClients /\ m.items \in SUBSET AllItems
  BY <1>3, MessageParts DEF Requests
<1>5. itemClients' \in [AllItems -> SUBSET AllClients]
  BY <1>1, <1>2, <1>4, MapParts DEF AddAll
<1>6. clientItems' \in [AllClients -> SUBSET AllItems]
  BY <1>1, <1>2, <1>4, MapParts DEF AddAll
<1>7. subscribed' \in SUBSET AllItems
  BY <1>1, <1>5, MapParts DEF NewKeys, Keys
<1>8. Cached(cache, m.items) \in [AllItems -> Said]
  BY CachedIsSaid, StatusParts
<1>9. TellOnly(m.client, Cached(cache, m.items))
  BY <1>1, <1>2 DEF FirstResponse
<1>10. heard' \in [AllClients -> [AllItems -> Said]] /\ adapterQ' \in Seq(GoodMessages)
  BY <1>3, <1>8, <1>9, TellOnlyKeeps
<1>11. obj' = obj /\ cache' = cache /\ reports' = reports /\ daemon' = daemon
       /\ up' = up /\ used' = used /\ past' = past
  BY DEF HandleSubscribe, statusVars
<1> QED BY <1>5, <1>6, <1>7, <1>10, <1>11, MapParts, StatusParts, IInvParts, HandlerKeeps

LEMMA UnsubscribeKeeps == ASSUME IInv, HandleUnsubscribe PROVE IInv'
<1>1. PICK type \in {"unsubscribe", "unsubscribeAll"} :
          /\ Take(type)
          /\ \E unused : /\ clientItems' = Trim(clientItems, {Head(adapterQ).client}, unused)
                         /\ itemClients' = Trim(itemClients, unused, {Head(adapterQ).client})
          /\ subscribed' = Unsubscribed(GoneKeys(itemClients, itemClients'))
  BY DEF HandleUnsubscribe
<1>2. PICK unused : /\ clientItems' = Trim(clientItems, {Head(adapterQ).client}, unused)
                    /\ itemClients' = Trim(itemClients, unused, {Head(adapterQ).client})
  BY <1>1
<1>3. clientItems' \in [AllClients -> SUBSET AllItems]
      /\ itemClients' \in [AllItems -> SUBSET AllClients]
  BY <1>2, MapParts DEF Trim
<1>4. subscribed' \in SUBSET AllItems
  BY <1>1, MapParts DEF Unsubscribed
<1>5. adapterQ' \in Seq(GoodMessages)
  BY <1>1, TakenIsGood DEF HandleUnsubscribe
<1>6. obj' = obj /\ cache' = cache /\ reports' = reports /\ daemon' = daemon
      /\ heard' = heard /\ up' = up /\ used' = used /\ past' = past
  BY DEF HandleUnsubscribe, statusVars
<1> QED BY <1>3, <1>4, <1>5, <1>6, MapParts, StatusParts, IInvParts, HandlerKeeps

LEMMA SetObjKeeps == ASSUME IInv, HandleSetObj PROVE IInv'
<1>1. /\ Take("setObj") /\ obj' = TRUE /\ subscribed' = Keys(itemClients)
      /\ adapterQ' = Tail(adapterQ)
      /\ clientItems' = clientItems /\ itemClients' = itemClients /\ cache' = cache
      /\ reports' = reports /\ heard' = heard /\ daemon' = daemon /\ up' = up /\ used' = used /\ past' = past
  BY DEF HandleSetObj, statusVars
<1>2. adapterQ' \in Seq(GoodMessages)
  BY <1>1, TakenIsGood
<1>3. subscribed' \in SUBSET AllItems
  BY <1>1, MapParts DEF Keys
<1> QED BY <1>1, <1>2, <1>3, MapParts, StatusParts, IInvParts, HandlerKeeps

LEMMA NotifyKeeps == ASSUME IInv, HandleNotify PROVE IInv'
<1>1. Take("notify")
  BY DEF HandleNotify
<1>2. PICK i, value : i = Head(adapterQ).item /\ value = Head(adapterQ).value
  OBVIOUS
<1>3. /\ adapterQ # <<>> /\ Head(adapterQ) \in GoodMessages /\ Head(adapterQ) \in Messages
      /\ Head(adapterQ).type = "notify" /\ Tail(adapterQ) \in Seq(GoodMessages)
  BY <1>1, TakenIsGood
<1>4. i \in AllItems /\ value \in Said
  BY <1>2, <1>3, MessageParts
<1>5. i = Net => value \in TableReports
  BY <1>2, <1>3 DEF GoodMessages, Carries
<1>6. /\ clientItems' = clientItems /\ itemClients' = itemClients /\ obj' = obj
      /\ subscribed' = subscribed /\ daemon' = daemon /\ up' = up /\ used' = used
  BY DEF HandleNotify, mapVars
<1>9. past' \in Pasts
  <2>1. i = Net => value.network \in Networks
    BY <1>5 DEF TableReports, Reports
  <2>2. CASE i = Net
    <3>1. past' = Noted(value)
      BY <1>2, <2>2 DEF HandleNotify
    <3> QED BY <2>1, <2>2, <3>1, IInvParts DEF Noted, Pasts
  <2>3. CASE i # Net
    BY <1>2, <2>3, IInvParts DEF HandleNotify
  <2> QED BY <2>2, <2>3
<1>7. CASE /\ NotNews(i, value) /\ adapterQ' = Tail(adapterQ)
           /\ UNCHANGED <<statusVars, heard>>
  <2>1. cache' = cache /\ reports' = reports /\ heard' = heard /\ adapterQ' \in Seq(GoodMessages)
    BY <1>3, <1>7 DEF statusVars
  <2> QED BY <1>6, <1>9, <2>1, MapParts, StatusParts, IInvParts, HandlerKeeps
<1>8. CASE /\ Recorded(i, value)
           /\ Tell([c \in AllClients |->
                       IF c \in itemClients[i] THEN Cached(cache', clientItems[c] \cap {i})
                       ELSE Nothing])
  <2>1. cache' \in [AllItems -> Said] /\ reports' \in Seq(TableReports)
    <3>1. CASE i = Net
      <4>1. Collated(reports, value) \in TableReports
        BY <1>5, <3>1, CollatedIsReport, IInvParts
      <4>2. Remember(reports, Collated(reports, value)) \in Seq(TableReports)
        BY <4>1, RememberedAreReports, IInvParts
      <4>3. Collated(reports, value) \in Said
        BY <4>1 DEF TableReports, Said
      <4> QED BY <1>8, <3>1, <4>2, <4>3, StatusParts DEF Recorded, AllItems
    <3>2. CASE i # Net
      BY <1>4, <1>8, <3>2, StatusParts, IInvParts DEF Recorded
    <3> QED BY <3>1, <3>2
  <2> DEFINE said == [c \in AllClients |->
                       IF c \in itemClients[i] THEN Cached(cache', clientItems[c] \cap {i})
                       ELSE Nothing]
  <2>2. ASSUME NEW items PROVE Cached(cache', items) \in [AllItems -> Said]
    BY <2>1, CachedIsSaid
  <2>3. said \in [AllClients -> [AllItems -> Said]]
    BY <2>2, NothingIsSaid
  <2>4. Tell(said)
    BY <1>8
  <2> HIDE DEF said
  <2>5. heard' \in [AllClients -> [AllItems -> Said]] /\ adapterQ' \in Seq(GoodMessages)
    BY <1>3, <2>3, <2>4, TellKeeps
  <2> QED BY <1>6, <1>9, <2>1, <2>5, MapParts, StatusParts, IInvParts, HandlerKeeps
<1> QED BY <1>2, <1>7, <1>8 DEF HandleNotify

LEMMA XtraHearsKeeps == ASSUME IInv, XtraHears PROVE IInv'
<1>1. Take("xtraHears")
  BY DEF XtraHears
<1>2. PICK said : said = Head(adapterQ).said
  OBVIOUS
<1>3. said \in [AllItems -> Said] /\ Tail(adapterQ) \in Seq(GoodMessages)
  BY <1>1, <1>2, TakenIsGood, MessageParts
<1>4. /\ adapterQ' = Tail(adapterQ)
      /\ heard' = [heard EXCEPT ![Xtra] = Update(@, said)]
      /\ daemon' = IF daemon.asked THEN [daemon EXCEPT !.told = Update(@, said)] ELSE daemon
  BY <1>2 DEF XtraHears
<1>5. Xtra \in AllClients
  BY DEF AllClients
<1>6. heard' \in [AllClients -> [AllItems -> Said]]
  <2>1. heard[Xtra] \in [AllItems -> Said]
    BY <1>5, StatusParts
  <2>2. Update(heard[Xtra], said) \in [AllItems -> Said]
    BY <1>3, <2>1, UpdateIsSaid
  <2> QED BY <1>4, <1>5, <2>2, StatusParts
<1>7. daemon' \in Daemons
  <2>1. daemon \in Daemons
    BY StatusParts
  <2>2. Update(daemon.told, said) \in [AllItems -> Said]
    BY <1>3, <2>1, UpdateIsSaid DEF Daemons
  <2>3. [daemon EXCEPT !.told = Update(@, said)] \in Daemons
    BY <2>1, <2>2 DEF Daemons
  <2> QED BY <1>4, <2>1, <2>3
<1>8. /\ clientItems' = clientItems /\ itemClients' = itemClients /\ obj' = obj
      /\ subscribed' = subscribed /\ cache' = cache /\ reports' = reports
      /\ up' = up /\ used' = used /\ past' = past
  BY DEF XtraHears, mapVars, statusVars
<1> QED BY <1>3, <1>4, <1>6, <1>7, <1>8, MapParts, StatusParts, IInvParts, HandlerKeeps

LEMMA StatusRequestedKeeps == ASSUME IInv, StatusRequested PROVE IInv'
<1>1. Take("statusRequest")
  BY DEF StatusRequested
<1>2. adapterQ' \in Seq(GoodMessages)
  BY <1>1, TakenIsGood DEF StatusRequested
<1>3. daemon \in Daemons /\ heard[Xtra] \in [AllItems -> Said]
  BY StatusParts DEF AllClients
<1>4. Update(daemon.told, heard[Xtra]) \in [AllItems -> Said]
  BY <1>3, UpdateIsSaid DEF Daemons
<1>5. \/ daemon' = [daemon EXCEPT !.asked = TRUE]
      \/ daemon' = [asked |-> TRUE, answered |-> TRUE, told |-> Update(daemon.told, heard[Xtra])]
  BY DEF StatusRequested
<1>6. daemon' \in Daemons
  <2>1. [daemon EXCEPT !.asked = TRUE] \in Daemons
    BY <1>3, Zenon DEF Daemons
  <2>2. [asked |-> TRUE, answered |-> TRUE, told |-> Update(daemon.told, heard[Xtra])] \in Daemons
    BY <1>4 DEF Daemons
  <2> QED BY <1>5, <2>1, <2>2
<1>7. /\ clientItems' = clientItems /\ itemClients' = itemClients /\ obj' = obj
      /\ subscribed' = subscribed /\ cache' = cache /\ reports' = reports
      /\ heard' = heard /\ up' = up /\ used' = used /\ past' = past
  BY DEF StatusRequested, mapVars, statusVars
<1> QED BY <1>2, <1>6, <1>7, MapParts, StatusParts, IInvParts, HandlerKeeps

LEMMA StutterKeeps == ASSUME IInv, UNCHANGED vars PROVE IInv'
<1>1. /\ clientItems' = clientItems /\ itemClients' = itemClients /\ obj' = obj
      /\ subscribed' = subscribed /\ cache' = cache /\ reports' = reports
      /\ heard' = heard /\ daemon' = daemon /\ adapterQ' = adapterQ /\ up' = up /\ used' = used /\ past' = past
  BY DEF vars, mapVars, statusVars
<1> QED BY <1>1, MapParts, StatusParts, IInvParts, HandlerKeeps

LEMMA NextKeepsIInv == IInv /\ [Next]_vars => IInv'
<1> SUFFICES ASSUME IInv, [Next]_vars PROVE IInv'
  OBVIOUS
<1>1. CASE UNCHANGED vars
  BY <1>1, StutterKeeps
<1>2. CASE Next
  BY <1>2, ClientCallKeeps, SetSubscriptionObjKeeps, ReportItemKeeps, ConnectionStatusKeeps,
           ResetKeeps, RequestStatusKeeps, DaemonRestartsKeeps, SubscribeKeeps,
           UnsubscribeKeeps, SetObjKeeps, NotifyKeeps, XtraHearsKeeps,
           StatusRequestedKeeps DEF Next
<1> QED BY <1>1, <1>2

\* Every variable of SystemStatusOsObserver, of its clients and of the adapter
\* thread's queue keeps its type; so every table of networks that is reported
\* names each network once and has room.
THEOREM TypeCorrect == Spec => []TypeOK
<1>1. IInv => TypeOK
  BY DEF IInv
<1> QED BY <1>1, InitIInv, NextKeepsIInv, PTL DEF Spec

-----------------------------------------------------------------------------
(* The two maps of subscriptions *)

LEMMA OthersLeaveTheMaps ==
    ASSUME [Next]_vars, ~HandleSubscribe, ~HandleUnsubscribe
    PROVE  /\ clientItems' = clientItems
           /\ itemClients' = itemClients
           /\ HandleSetObj \/ (obj' = obj /\ subscribed' = subscribed)
<1>1. CASE ClientCall \/ SetSubscriptionObj \/ ReportItem \/ ConnectionStatus \/ RequestStatus
  BY <1>1 DEF ClientCall, Call, SetSubscriptionObj, ReportItem, ConnectionStatus,
              RequestStatus, Post, mapVars
<1>2. CASE ResetNetworkInfo \/ DaemonRestarts
  BY <1>2 DEF ResetNetworkInfo, DaemonRestarts, mapVars
<1>3. CASE HandleSetObj
  BY <1>3 DEF HandleSetObj
<1>4. CASE HandleNotify \/ XtraHears \/ StatusRequested
  BY <1>4 DEF HandleNotify, XtraHears, StatusRequested, mapVars
<1>5. CASE UNCHANGED vars
  BY <1>5 DEF vars, mapVars
<1> QED BY <1>1, <1>2, <1>3, <1>4, <1>5 DEF Next

\* Values and keys that enter both maps, or leave both, keep them inverse.
LEMMA AddKeepsInverse ==
    ASSUME IInv, MapsAreInverse, NEW client \in AllClients, NEW items \in SUBSET AllItems,
           clientItems' = AddAll(clientItems, {client}, items),
           itemClients' = AddAll(itemClients, items, {client})
    PROVE  MapsAreInverse'
<1> SUFFICES ASSUME NEW c \in AllClients, NEW i \in AllItems
             PROVE  i \in clientItems'[c] <=> c \in itemClients'[i]
  BY DEF MapsAreInverse
<1>1. clientItems'[c] = IF c = client THEN clientItems[c] \cup items ELSE clientItems[c]
  BY MapParts DEF AddAll
<1>2. itemClients'[i] = IF i \in items THEN itemClients[i] \cup {client} ELSE itemClients[i]
  BY MapParts DEF AddAll
<1>3. i \in clientItems[c] <=> c \in itemClients[i]
  BY DEF MapsAreInverse
<1> QED BY <1>1, <1>2, <1>3

LEMMA TrimKeepsInverse ==
    ASSUME IInv, MapsAreInverse, NEW client \in AllClients, NEW items,
           clientItems' = Trim(clientItems, {client}, items),
           itemClients' = Trim(itemClients, items, {client})
    PROVE  MapsAreInverse'
<1> SUFFICES ASSUME NEW c \in AllClients, NEW i \in AllItems
             PROVE  i \in clientItems'[c] <=> c \in itemClients'[i]
  BY DEF MapsAreInverse
<1>1. clientItems'[c] = IF c = client THEN clientItems[c] \ items ELSE clientItems[c]
  BY MapParts DEF Trim
<1>2. itemClients'[i] = IF i \in items THEN itemClients[i] \ {client} ELSE itemClients[i]
  BY MapParts DEF Trim
<1>3. i \in clientItems[c] <=> c \in itemClients[i]
  BY DEF MapsAreInverse
<1> QED BY <1>1, <1>2, <1>3

\* The client and the items of the request at the head of the queue.
LEMMA RequestParts ==
    ASSUME IInv, NEW type \in Requests, Take(type)
    PROVE  Head(adapterQ).client \in AllClients /\ Head(adapterQ).items \in SUBSET AllItems
BY TakenIsGood, MessageParts

LEMMA InverseStep == IInv /\ MapsAreInverse /\ [Next]_vars => MapsAreInverse'
<1> SUFFICES ASSUME IInv, MapsAreInverse, [Next]_vars PROVE MapsAreInverse'
  OBVIOUS
<1>1. CASE HandleSubscribe
  <2>1. PICK type \in {"subscribe", "requestData"} :
            /\ Take(type)
            /\ itemClients' = AddAll(itemClients, Head(adapterQ).items, {Head(adapterQ).client})
            /\ clientItems' = AddAll(clientItems, {Head(adapterQ).client}, Head(adapterQ).items)
    BY <1>1 DEF HandleSubscribe
  <2>2. PICK m : m = Head(adapterQ)
    OBVIOUS
  <2>3. type \in Requests
    BY DEF Requests
  <2>4. m.client \in AllClients /\ m.items \in SUBSET AllItems
    BY <2>1, <2>2, <2>3, RequestParts
  <2> QED BY <2>1, <2>2, <2>4, AddKeepsInverse
<1>2. CASE HandleUnsubscribe
  <2>1. PICK type \in {"unsubscribe", "unsubscribeAll"} :
            /\ Take(type)
            /\ \E unused : /\ clientItems' = Trim(clientItems, {Head(adapterQ).client}, unused)
                           /\ itemClients' = Trim(itemClients, unused, {Head(adapterQ).client})
    BY <1>2 DEF HandleUnsubscribe
  <2>2. PICK m : m = Head(adapterQ)
    OBVIOUS
  <2>3. type \in Requests
    BY DEF Requests
  <2>4. m.client \in AllClients
    BY <2>1, <2>2, <2>3, RequestParts
  <2>5. PICK unused : /\ clientItems' = Trim(clientItems, {m.client}, unused)
                      /\ itemClients' = Trim(itemClients, unused, {m.client})
    BY <2>1, <2>2
  <2> QED BY <2>4, <2>5, TrimKeepsInverse
<1>3. CASE ~HandleSubscribe /\ ~HandleUnsubscribe
  BY <1>3, OthersLeaveTheMaps DEF MapsAreInverse
<1> QED BY <1>1, <1>2, <1>3

\* A client has an item in the one map exactly when the item has the client in the
\* other, whatever calls, events and restarts come in whatever order; so
\* HandleNotify misses no subscriber and tells no one who left.
THEOREM MapsInverse == Spec => []MapsAreInverse
<1>1. Init => MapsAreInverse
  BY DEF Init, MapsAreInverse
<1> QED BY <1>1, InitIInv, NextKeepsIInv, InverseStep, PTL DEF Spec

-----------------------------------------------------------------------------
(* What the framework was asked to report *)

\* Before the subscription object comes nothing was asked of it.
WantedInv == SubscribedIsWanted /\ (~obj => subscribed = {})

LEMMA WantedStep == IInv /\ WantedInv /\ [Next]_vars => WantedInv'
<1> SUFFICES ASSUME IInv, WantedInv, [Next]_vars PROVE WantedInv'
  OBVIOUS
<1> USE DEF WantedInv, SubscribedIsWanted
<1>1. CASE HandleSubscribe
  <2>1. PICK items, client :
            itemClients' = AddAll(itemClients, items, {client})
    BY <1>1 DEF HandleSubscribe
  <2>2. Keys(itemClients) \subseteq Keys(itemClients')
    BY <2>1, MapParts DEF Keys, AddAll
  <2>3. /\ obj' = obj
        /\ \/ subscribed' = subscribed
           \/ obj /\ subscribed' = subscribed \cup NewKeys(itemClients, itemClients')
    BY <1>1 DEF HandleSubscribe
  <2>4. NewKeys(itemClients, itemClients') \subseteq Keys(itemClients')
    BY DEF NewKeys
  <2> QED BY <2>2, <2>3, <2>4
<1>2. CASE HandleUnsubscribe
  <2>1. /\ obj' = obj
        /\ subscribed' = Unsubscribed(GoneKeys(itemClients, itemClients'))
    BY <1>2 DEF HandleUnsubscribe
  <2>2. Keys(itemClients) \ GoneKeys(itemClients, itemClients') \subseteq Keys(itemClients')
    BY DEF GoneKeys
  <2> QED BY <2>1, <2>2 DEF Unsubscribed
<1>3. CASE ~HandleSubscribe /\ ~HandleUnsubscribe
  <2>1. CASE HandleSetObj
    BY <2>1 DEF HandleSetObj
  <2>2. CASE obj' = obj /\ subscribed' = subscribed
    BY <1>3, <2>2, OthersLeaveTheMaps
  <2> QED BY <1>3, <2>1, <2>2, OthersLeaveTheMaps
<1> QED BY <1>1, <1>2, <1>3

\* The framework is asked to report only items that some client wants, however
\* subscriptions cross the coming of the subscription object.
THEOREM OnlyWantedSubscribed == Spec => []SubscribedIsWanted
<1>1. Init => WantedInv
  BY DEF Init, WantedInv, SubscribedIsWanted
<1>2. WantedInv => SubscribedIsWanted
  BY DEF WantedInv
<1> QED BY <1>1, <1>2, InitIInv, NextKeepsIInv, WantedStep, PTL DEF Spec

-----------------------------------------------------------------------------
(* What subscribers know. A client other than Xtra is told at once; Xtra   *)
(* hears it by messages of its own, so that what it will know is decided   *)
(* by the last of them that speaks of the item.                            *)

TellsAt(q, i, k) == k \in DOMAIN q /\ q[k].type = "xtraHears" /\ q[k].said[i] # None

\* who knows known, and hears the messages of q, knows value
Hears(q, i, known, value) ==
    \/ (\A k : ~TellsAt(q, i, k)) /\ known = value
    \/ \E k : /\ TellsAt(q, i, k) /\ q[k].said[i] = value
              /\ \A l : TellsAt(q, i, l) => l <= k

\* nothing was ever said of i: nobody knows, and no message tells
Unsaid(i) == /\ \A c \in AllClients : heard[c][i] = None
             /\ \A k : ~TellsAt(adapterQ, i, k)

NewsIsSomething == \A k \in DOMAIN adapterQ : adapterQ[k].type = "notify" => adapterQ[k].value # None

ClientFits(c, i) == i \in clientItems[c] => heard[c][i] = cache[i]
XtraFits(i) == i \in clientItems[Xtra] => Hears(adapterQ, i, heard[Xtra][i], cache[i])
DaemonFits ==
    /\ \A i \in AllItems : heard[Xtra][i] = None => daemon.told[i] = None
    /\ daemon.answered => daemon.asked /\ \A i \in AllItems : daemon.told[i] = heard[Xtra][i]

CurrentInv ==
    /\ \A c \in Clients, i \in AllItems : ClientFits(c, i)
    /\ \A i \in AllItems : XtraFits(i)
    /\ \A i \in AllItems : cache[i] = None => Unsaid(i)
    /\ DaemonFits /\ NewsIsSomething

LEMMA AppendedTells ==
    ASSUME NEW q \in Seq(GoodMessages), NEW m \in GoodMessages, NEW i, NEW k
    PROVE  /\ TellsAt(Append(q, m), i, k) <=>
                  TellsAt(q, i, k) \/ (k = Len(q) + 1 /\ m.type = "xtraHears" /\ m.said[i] # None)
           /\ TellsAt(q, i, k) => Append(q, m)[k] = q[k] /\ k \in Nat /\ k <= Len(q)
           /\ Append(q, m)[Len(q) + 1] = m
BY DEF TellsAt

LEMMA TakenTells ==
    ASSUME NEW q \in Seq(GoodMessages), q # <<>>, NEW i, NEW k
    PROVE  /\ TellsAt(Tail(q), i, k) => /\ TellsAt(q, i, k + 1) /\ k \in Nat /\ k # 0
                                        /\ Tail(q)[k] = q[k + 1]
           /\ TellsAt(q, i, k) => \/ k = 1
                                  \/ /\ TellsAt(Tail(q), i, k - 1) /\ k \in Nat /\ k - 1 \in Nat
                                     /\ Tail(q)[k - 1] = q[k]
           /\ TellsAt(q, i, 1) <=> Head(q).type = "xtraHears" /\ Head(q).said[i] # None
           /\ q[1] = Head(q)
BY DEF TellsAt

LEMMA AppendedOther ==
    ASSUME NEW q \in Seq(GoodMessages), NEW m \in GoodMessages, NEW i,
           m.type = "xtraHears" => m.said[i] = None
    PROVE  /\ \A k : TellsAt(Append(q, m), i, k) <=> TellsAt(q, i, k)
           /\ \A known, value : Hears(q, i, known, value) => Hears(Append(q, m), i, known, value)
<1>1. ASSUME NEW k
      PROVE  /\ TellsAt(Append(q, m), i, k) <=> TellsAt(q, i, k)
             /\ TellsAt(q, i, k) => Append(q, m)[k] = q[k]
  <2>1. ~(m.type = "xtraHears" /\ m.said[i] # None)
    OBVIOUS
  <2>2. TellsAt(Append(q, m), i, k) <=>
            TellsAt(q, i, k) \/ (k = Len(q) + 1 /\ m.type = "xtraHears" /\ m.said[i] # None)
    BY AppendedTells
  <2>3. TellsAt(q, i, k) => Append(q, m)[k] = q[k]
    BY DEF TellsAt
  <2> QED BY <2>1, <2>2, <2>3
<1> QED BY <1>1 DEF Hears

LEMMA AppendedTelling ==
    ASSUME NEW q \in Seq(GoodMessages), NEW m \in GoodMessages, NEW i,
           m.type = "xtraHears", m.said[i] # None, NEW known
    PROVE  Hears(Append(q, m), i, known, m.said[i])
<1>1. TellsAt(Append(q, m), i, Len(q) + 1) /\ Append(q, m)[Len(q) + 1] = m
  BY AppendedTells
<1>2. ASSUME NEW l, TellsAt(Append(q, m), i, l)
      PROVE  l <= Len(q) + 1
  <2>1. CASE TellsAt(q, i, l)
    <3>1. l \in Nat /\ l <= Len(q) /\ Len(q) \in Nat
      BY <2>1, AppendedTells
    <3> QED BY <3>1
  <2>2. CASE l = Len(q) + 1
    BY <2>2
  <2> QED BY <1>2, <2>1, <2>2, AppendedTells
<1> QED BY <1>1, <1>2 DEF Hears

LEMMA TakenOther ==
    ASSUME NEW q \in Seq(GoodMessages), q # <<>>, NEW i,
           Head(q).type = "xtraHears" => Head(q).said[i] = None
    PROVE  /\ (\A k : ~TellsAt(q, i, k)) => \A k : ~TellsAt(Tail(q), i, k)
           /\ \A known, value : Hears(q, i, known, value) => Hears(Tail(q), i, known, value)
<1>1. ~TellsAt(q, i, 1)
  BY TakenTells
<1>2. (\A k : ~TellsAt(q, i, k)) => \A k : ~TellsAt(Tail(q), i, k)
  BY TakenTells
<1>3. ASSUME NEW value, NEW k, TellsAt(q, i, k), q[k].said[i] = value,
             \A l : TellsAt(q, i, l) => l <= k
      PROVE  /\ TellsAt(Tail(q), i, k - 1) /\ Tail(q)[k - 1].said[i] = value
             /\ \A l : TellsAt(Tail(q), i, l) => l <= k - 1
  <2>1. TellsAt(Tail(q), i, k - 1) /\ k \in Nat /\ Tail(q)[k - 1] = q[k]
    BY <1>1, <1>3, TakenTells
  <2>2. ASSUME NEW l, TellsAt(Tail(q), i, l)
        PROVE  l <= k - 1
    <3>1. l \in Nat /\ l + 1 <= k
      BY <1>3, <2>2, TakenTells
    <3> QED BY <2>1, <3>1
  <2> QED BY <1>3, <2>1, <2>2
<1> QED BY <1>2, <1>3 DEF Hears

LEMMA TakenTelling ==
    ASSUME NEW q \in Seq(GoodMessages), q # <<>>, NEW i,
           Head(q).type = "xtraHears", Head(q).said[i] # None,
           NEW known, NEW value, Hears(q, i, known, value)
    PROVE  Hears(Tail(q), i, Head(q).said[i], value)
<1>1. TellsAt(q, i, 1) /\ q[1] = Head(q)
  BY TakenTells
<1>2. PICK k : /\ TellsAt(q, i, k) /\ q[k].said[i] = value
               /\ \A l : TellsAt(q, i, l) => l <= k
  BY <1>1 DEF Hears
<1>3. CASE k = 1
  <2>1. ASSUME NEW l, TellsAt(Tail(q), i, l)
        PROVE  FALSE
    <3>1. l \in Nat /\ l # 0 /\ l + 1 <= 1
      BY <1>2, <1>3, <2>1, TakenTells
    <3> QED BY <3>1
  <2> QED BY <1>1, <1>2, <1>3, <2>1 DEF Hears
<1>4. CASE k # 1
  <2>0. TellsAt(q, i, k)
    BY <1>2
  <2>1. TellsAt(Tail(q), i, k - 1) /\ k \in Nat /\ Tail(q)[k - 1] = q[k]
    BY <1>4, <2>0 DEF TellsAt
  <2>2. ASSUME NEW l, TellsAt(Tail(q), i, l)
        PROVE  l <= k - 1
    <3>1. l \in Nat /\ l + 1 <= k
      BY <1>2, <2>2, TakenTells
    <3> QED BY <2>1, <3>1
  <2> QED BY <1>2, <2>1, <2>2 DEF Hears
<1> QED BY <1>3, <1>4

\* messages that are no xtraHears, behind the others
LEMMA ConcatOther ==
    ASSUME NEW q \in Seq(GoodMessages), NEW s \in Seq(GoodMessages), NEW i,
           \A k \in DOMAIN s : s[k].type = "notify"
    PROVE  /\ \A k : TellsAt(q \o s, i, k) <=> TellsAt(q, i, k)
           /\ \A known, value : Hears(q, i, known, value) => Hears(q \o s, i, known, value)
<1>1. ASSUME NEW k, k \in DOMAIN (q \o s)
      PROVE  \/ k \in DOMAIN q /\ (q \o s)[k] = q[k]
             \/ k \notin DOMAIN q /\ (q \o s)[k].type = "notify"
  <2>1. k \in 1..(Len(q) + Len(s)) /\ Len(q) \in Nat /\ Len(s) \in Nat
    BY <1>1
  <2>2. CASE k <= Len(q)
    BY <2>1, <2>2
  <2>3. CASE k > Len(q)
    <3>1. (q \o s)[k] = s[k - Len(q)] /\ k - Len(q) \in DOMAIN s
      BY <2>1, <2>3
    <3> QED BY <2>3, <3>1
  <2> QED BY <2>1, <2>2, <2>3
<1>2. ASSUME NEW k, TellsAt(q, i, k)
      PROVE  k \in DOMAIN (q \o s) /\ (q \o s)[k] = q[k]
  BY <1>2 DEF TellsAt
<1>3. ASSUME NEW k
      PROVE  TellsAt(q \o s, i, k) <=> TellsAt(q, i, k)
  BY <1>1, <1>2 DEF TellsAt
<1> QED BY <1>2, <1>3 DEF Hears

LEMMA QuietCurrent ==
    ASSUME CurrentInv, cache' = cache, heard' = heard,
           \A c \in AllClients : clientItems'[c] \subseteq clientItems[c],
           \A i \in AllItems :
               /\ (\A k : ~TellsAt(adapterQ, i, k)) => \A k : ~TellsAt(adapterQ', i, k)
               /\ \A known, value : Hears(adapterQ, i, known, value) => Hears(adapterQ', i, known, value),
           NewsIsSomething', DaemonFits'
    PROVE  CurrentInv'
<1>1. ASSUME NEW c \in Clients, NEW i \in AllItems
      PROVE  ClientFits(c, i)'
  <2>1. c \in AllClients /\ ClientFits(c, i)
    BY DEF CurrentInv, AllClients
  <2> QED BY <2>1 DEF ClientFits
<1>2. ASSUME NEW i \in AllItems
      PROVE  XtraFits(i)'
  <2>1. Xtra \in AllClients /\ XtraFits(i)
    BY DEF CurrentInv, AllClients
  <2>2. i \in clientItems'[Xtra] => Hears(adapterQ', i, heard[Xtra][i], cache[i])
    BY <2>1 DEF XtraFits
  <2> QED BY <2>2 DEF XtraFits, Hears, TellsAt
<1>3. ASSUME NEW i \in AllItems, cache'[i] = None
      PROVE  Unsaid(i)'
  <2>1. Unsaid(i)
    BY <1>3 DEF CurrentInv
  <2>2. \A k : ~TellsAt(adapterQ', i, k)
    BY <2>1 DEF Unsaid
  <2> QED BY <2>1, <2>2 DEF Unsaid, TellsAt
<1> QED BY <1>1, <1>2, <1>3 DEF CurrentInv

LEMMA QueueIsGood ==
    ASSUME IInv
    PROVE  adapterQ \in Seq(GoodMessages)
BY DEF IInv

\* a message posted by another thread
LEMMA PostCurrent ==
    ASSUME IInv, CurrentInv, NEW m \in GoodMessages, Post(m), m.type # "xtraHears",
           m.type = "notify" => m.value # None
    PROVE  CurrentInv'
<1>1. /\ adapterQ \in Seq(GoodMessages) /\ adapterQ' = Append(adapterQ, m)
      /\ cache' = cache /\ heard' = heard /\ clientItems' = clientItems /\ daemon' = daemon
  BY QueueIsGood DEF Post, Send, mapVars, statusVars
<1>2. \A i : /\ \A k : TellsAt(adapterQ', i, k) <=> TellsAt(adapterQ, i, k)
             /\ \A known, value : Hears(adapterQ, i, known, value) => Hears(adapterQ', i, known, value)
  BY <1>1, AppendedOther
<1>3. NewsIsSomething'
  <2>1. \A k \in DOMAIN adapterQ' : adapterQ'[k] = m \/ (k \in DOMAIN adapterQ /\ adapterQ'[k] = adapterQ[k])
    BY <1>1
  <2> QED BY <2>1 DEF CurrentInv, NewsIsSomething
<1>4. DaemonFits'
  BY <1>1 DEF CurrentInv, DaemonFits
<1> QED BY <1>1, <1>2, <1>3, <1>4, QuietCurrent

\* a handler that tells nobody
LEMMA TakeCurrent ==
    ASSUME IInv, CurrentInv, NEW type, Take(type), type # "xtraHears",
           adapterQ' = Tail(adapterQ), cache' = cache, heard' = heard, DaemonFits',
           \A c \in AllClients : clientItems'[c] \subseteq clientItems[c]
    PROVE  CurrentInv'
<1>1. adapterQ \in Seq(GoodMessages) /\ adapterQ # <<>> /\ Head(adapterQ).type # "xtraHears"
  BY QueueIsGood DEF Take
<1>2. \A i : /\ (\A k : ~TellsAt(adapterQ, i, k)) => \A k : ~TellsAt(adapterQ', i, k)
             /\ \A known, value : Hears(adapterQ, i, known, value) => Hears(adapterQ', i, known, value)
  BY <1>1, TakenOther
<1>3. NewsIsSomething'
  <2>1. \A k \in DOMAIN adapterQ' : k + 1 \in DOMAIN adapterQ /\ adapterQ'[k] = adapterQ[k + 1]
    BY <1>1
  <2> QED BY <2>1 DEF CurrentInv, NewsIsSomething
<1> QED BY <1>2, <1>3, QuietCurrent

\* sendCachedDataItems, seen from one item
LEMMA TellSays ==
    ASSUME IInv, NEW said \in [AllClients -> [AllItems -> Said]], adapterQ # <<>>,
           Head(adapterQ).type # "xtraHears", Tell(said), NEW i \in AllItems
    PROVE  /\ \A c \in Clients : heard'[c][i] = IF said[c][i] = None THEN heard[c][i] ELSE said[c][i]
           /\ heard'[Xtra] = heard[Xtra]
           /\ said[Xtra][i] = None =>
                  /\ (\A k : ~TellsAt(adapterQ, i, k)) => \A k : ~TellsAt(adapterQ', i, k)
                  /\ \A known, value : Hears(adapterQ, i, known, value) => Hears(adapterQ', i, known, value)
           /\ said[Xtra][i] # None => \A known : Hears(adapterQ', i, known, said[Xtra][i])
<1> DEFINE m == [type |-> "xtraHears", said |-> said[Xtra]]
           t == Tail(adapterQ)
<1>1. /\ adapterQ \in Seq(GoodMessages) /\ t \in Seq(GoodMessages)
      /\ heard \in [AllClients -> [AllItems -> Said]]
      /\ Xtra \in AllClients /\ Xtra \notin Clients /\ Clients \subseteq AllClients
  BY QueueIsGood, StatusParts, OsObserverAssumption DEF AllClients
<1>2. m \in GoodMessages /\ m.type = "xtraHears" /\ m.said = said[Xtra]
  BY <1>1 DEF GoodMessages, Messages, Carries
<1>3. /\ (\A k : ~TellsAt(adapterQ, i, k)) => \A k : ~TellsAt(t, i, k)
      /\ \A known, value : Hears(adapterQ, i, known, value) => Hears(t, i, known, value)
  BY <1>1, TakenOther
<1>4. \A c \in Clients : heard'[c][i] = IF said[c][i] = None THEN heard[c][i] ELSE said[c][i]
  BY <1>1 DEF Tell, Update
<1>5. heard'[Xtra] = heard[Xtra]
  BY <1>1 DEF Tell
<1>6. adapterQ' = t \/ adapterQ' = Append(t, m)
  <2>1. t \o <<>> = t
    BY <1>1
  <2>2. t \o <<m>> = Append(t, m)
    BY <1>1, <1>2
  <2> QED BY <2>1, <2>2 DEF Tell
<1>7. said[Xtra][i] # None => adapterQ' = Append(t, m)
  <2>1. t \o <<m>> = Append(t, m)
    BY <1>1, <1>2
  <2> QED BY <2>1 DEF Tell, Nothing
<1> HIDE DEF m, t
<1>8. ASSUME said[Xtra][i] = None
      PROVE  /\ (\A k : ~TellsAt(adapterQ, i, k)) => \A k : ~TellsAt(adapterQ', i, k)
             /\ \A known, value : Hears(adapterQ, i, known, value) => Hears(adapterQ', i, known, value)
  <2>1. CASE adapterQ' = t
    BY <1>3, <2>1
  <2>2. CASE adapterQ' = Append(t, m)
    <3>1. /\ \A k : TellsAt(Append(t, m), i, k) <=> TellsAt(t, i, k)
          /\ \A known, value : Hears(t, i, known, value) => Hears(Append(t, m), i, known, value)
      BY <1>1, <1>2, <1>8, AppendedOther
    <3> QED BY <1>3, <2>2, <3>1
  <2> QED BY <1>6, <2>1, <2>2
<1>9. ASSUME said[Xtra][i] # None, NEW known
      PROVE  Hears(adapterQ', i, known, said[Xtra][i])
  <2>1. Hears(Append(t, m), i, known, m.said[i])
    BY <1>1, <1>2, <1>9, AppendedTelling
  <2> QED BY <1>2, <1>7, <1>9, <2>1
<1> QED BY <1>4, <1>5, <1>8, <1>9

LEMMA TellNews ==
    ASSUME IInv, NewsIsSomething, NEW said \in [AllClients -> [AllItems -> Said]], adapterQ # <<>>, Tell(said)
    PROVE  NewsIsSomething'
<1> DEFINE m == [type |-> "xtraHears", said |-> said[Xtra]]
<1>1. adapterQ \in Seq(GoodMessages) /\ Tail(adapterQ) \in Seq(GoodMessages)
  BY QueueIsGood
<1>2. m \in GoodMessages
  BY DEF GoodMessages, Messages, Carries, AllClients
<1>3. adapterQ' = Tail(adapterQ) \/ adapterQ' = Append(Tail(adapterQ), m)
  <2>1. Tail(adapterQ) \o <<>> = Tail(adapterQ) /\ Tail(adapterQ) \o <<m>> = Append(Tail(adapterQ), m)
    BY <1>1, <1>2
  <2> QED BY <2>1 DEF Tell
<1>4. m.type = "xtraHears"
  OBVIOUS
<1> HIDE DEF m
<1>5. \A k \in DOMAIN adapterQ' : adapterQ'[k] = m \/ (k + 1 \in DOMAIN adapterQ /\ adapterQ'[k] = adapterQ[k + 1])
  BY <1>1, <1>2, <1>3
<1> QED BY <1>4, <1>5 DEF NewsIsSomething

\* whoever is told hears what the cache holds, and the others knew it
LEMMA TellCurrent ==
    ASSUME IInv, CurrentInv, NEW said \in [AllClients -> [AllItems -> Said]], adapterQ # <<>>,
           Head(adapterQ).type # "xtraHears", Tell(said), daemon' = daemon,
           \A c \in AllClients, i \in AllItems :
               /\ said[c][i] \in {None, cache'[i]}
               /\ said[c][i] = None /\ i \in clientItems'[c] =>
                      cache'[i] = cache[i] /\ (i \in clientItems[c] \/ cache[i] = None),
           \A i \in AllItems : cache'[i] = None => cache[i] = None
    PROVE  CurrentInv'
<1>0. Xtra \in AllClients /\ Clients \subseteq AllClients
  BY DEF AllClients
<1>1. ASSUME NEW i \in AllItems
      PROVE  /\ \A c \in Clients : heard'[c][i] = IF said[c][i] = None THEN heard[c][i] ELSE said[c][i]
             /\ heard'[Xtra] = heard[Xtra]
             /\ said[Xtra][i] = None =>
                    /\ (\A k : ~TellsAt(adapterQ, i, k)) => \A k : ~TellsAt(adapterQ', i, k)
                    /\ \A known, value : Hears(adapterQ, i, known, value) => Hears(adapterQ', i, known, value)
             /\ said[Xtra][i] # None => \A known : Hears(adapterQ', i, known, said[Xtra][i])
  BY <1>1, TellSays
<1>2. ASSUME NEW c \in Clients, NEW i \in AllItems, i \in clientItems'[c]
      PROVE  heard'[c][i] = cache'[i]
  <2>1. c \in AllClients /\ (cache[i] = None => heard[c][i] = None)
    BY <1>0 DEF CurrentInv, Unsaid
  <2>2. i \in clientItems[c] => heard[c][i] = cache[i]
    BY DEF CurrentInv, ClientFits
  <2> QED BY <1>1, <1>2, <2>1, <2>2
<1>3. ASSUME NEW i \in AllItems, i \in clientItems'[Xtra]
      PROVE  Hears(adapterQ', i, heard'[Xtra][i], cache'[i])
  <2>1. CASE said[Xtra][i] # None
    <3>1. said[Xtra][i] = cache'[i]
      BY <1>0, <2>1
    <3>2. PICK known : known = heard'[Xtra][i]
      OBVIOUS
    <3>3. Hears(adapterQ', i, known, said[Xtra][i])
      BY <1>1, <2>1
    <3> QED BY <3>1, <3>2, <3>3
  <2>2. CASE said[Xtra][i] = None
    <3>1. cache'[i] = cache[i] /\ (i \in clientItems[Xtra] \/ cache[i] = None)
      BY <1>0, <1>3, <2>2
    <3>2. Hears(adapterQ, i, heard[Xtra][i], cache[i])
      <4>1. CASE i \in clientItems[Xtra]
        BY <4>1 DEF CurrentInv, XtraFits
      <4>2. CASE cache[i] = None
        BY <1>0, <4>2 DEF CurrentInv, Unsaid, Hears
      <4> QED BY <3>1, <4>1, <4>2
    <3>3. Hears(adapterQ', i, heard[Xtra][i], cache[i])
      BY <1>1, <2>2, <3>2
    <3>4. heard'[Xtra][i] = heard[Xtra][i]
      BY <1>1
    <3> QED BY <3>1, <3>3, <3>4
  <2> QED BY <2>1, <2>2
<1>4. ASSUME NEW i \in AllItems, cache'[i] = None
      PROVE  Unsaid(i)'
  <2>1. /\ cache[i] = None /\ \A c \in AllClients : said[c][i] = None /\ heard[c][i] = None
        /\ \A k : ~TellsAt(adapterQ, i, k)
    BY <1>4 DEF CurrentInv, Unsaid
  <2>2. \A c \in AllClients : heard'[c][i] = None
    BY <1>1, <2>1 DEF AllClients
  <2>3. \A k : ~TellsAt(adapterQ', i, k)
    BY <1>0, <1>1, <2>1
  <2> QED BY <2>2, <2>3 DEF Unsaid, TellsAt
<1>5. DaemonFits'
  <2>1. DaemonFits
    BY DEF CurrentInv
  <2>2. \A i \in AllItems : heard'[Xtra][i] = heard[Xtra][i]
    BY <1>1
  <2> QED BY <2>1, <2>2 DEF DaemonFits
<1>6. NewsIsSomething'
  BY TellNews DEF CurrentInv
<1>7. \A i \in AllItems : XtraFits(i)'
  BY <1>3 DEF XtraFits, Hears, TellsAt
<1>8. \A c \in Clients, i \in AllItems : ClientFits(c, i)'
  BY <1>2 DEF ClientFits
<1> QED BY <1>4, <1>5, <1>6, <1>7, <1>8 DEF CurrentInv

LEMMA SubscribeCurrent == ASSUME IInv, CurrentInv, HandleSubscribe PROVE CurrentInv'
<1>1. PICK type \in {"subscribe", "requestData"} :
          /\ Take(type)
          /\ clientItems' = AddAll(clientItems, {Head(adapterQ).client}, Head(adapterQ).items)
          /\ TellOnly(Head(adapterQ).client, FirstResponse(Head(adapterQ)))
  BY DEF HandleSubscribe
<1>2. PICK m : m = Head(adapterQ)
  OBVIOUS
<1>3. adapterQ # <<>> /\ m \in Messages /\ m.type = type /\ cache' = cache /\ daemon' = daemon
  BY <1>1, <1>2, TakenIsGood DEF HandleSubscribe, statusVars
<1>4. m.client \in AllClients /\ m.items \in SUBSET AllItems
  BY <1>3, MessageParts DEF Requests
<1> DEFINE response == Cached(cache, m.items)
           said == [c \in AllClients |-> IF c = m.client THEN response ELSE Nothing]
<1>5. response \in [AllItems -> Said]
  BY CachedIsSaid, StatusParts
<1>6. said \in [AllClients -> [AllItems -> Said]] /\ Tell(said)
  BY <1>1, <1>2, <1>5, NothingIsSaid DEF TellOnly, FirstResponse
<1>7. ASSUME NEW c \in AllClients, NEW i \in AllItems
      PROVE  /\ said[c][i] \in {None, cache[i]}
             /\ said[c][i] = None /\ i \in clientItems'[c] => i \in clientItems[c] \/ cache[i] = None
  <2>1. said[c][i] = IF c = m.client /\ i \in m.items THEN cache[i] ELSE None
    BY DEF Cached, Nothing
  <2>2. clientItems'[c] = IF c = m.client THEN clientItems[c] \cup m.items ELSE clientItems[c]
    BY <1>1, <1>2, MapParts DEF AddAll
  <2> QED BY <2>1, <2>2
<1> HIDE DEF said
<1> QED BY <1>2, <1>3, <1>6, <1>7, TellCurrent

LEMMA NotifyCurrent == ASSUME IInv, MapsAreInverse, CurrentInv, HandleNotify PROVE CurrentInv'
<1>1. PICK i, value : i = Head(adapterQ).item /\ value = Head(adapterQ).value
  OBVIOUS
<1>2. /\ Take("notify") /\ adapterQ # <<>> /\ Head(adapterQ).type = "notify"
      /\ Head(adapterQ) \in GoodMessages /\ Head(adapterQ) \in Messages
      /\ clientItems' = clientItems /\ daemon' = daemon
  BY TakenIsGood DEF HandleNotify, mapVars
<1>3. i \in AllItems /\ value \in Said /\ (i = Net => value \in TableReports)
  BY <1>1, <1>2, MessageParts DEF GoodMessages, Carries
<1>4. value # None
  <2>1. 1 \in DOMAIN adapterQ /\ adapterQ[1] = Head(adapterQ)
    BY <1>2, QueueIsGood
  <2> QED BY <1>1, <1>2, <2>1 DEF CurrentInv, NewsIsSomething
<1>5. CASE NotNews(i, value) /\ adapterQ' = Tail(adapterQ) /\ UNCHANGED <<statusVars, heard>>
  <2>1. cache' = cache /\ heard' = heard /\ DaemonFits'
    BY <1>2, <1>5 DEF statusVars, CurrentInv, DaemonFits
  <2> QED BY <1>2, <1>5, <2>1, TakeCurrent
<1> DEFINE said == [c \in AllClients |->
                       IF c \in itemClients[i] THEN Cached(cache', clientItems[c] \cap {i})
                       ELSE Nothing]
<1>6. CASE Recorded(i, value) /\ Tell(said)
  <2>1. PICK v \in Said \ {None} : cache' = [cache EXCEPT ![i] = v]
    <3>1. CASE i = Net
      <4>1. Collated(reports, value) \in TableReports
        BY <1>3, <3>1, CollatedIsReport, IInvParts
      <4>2. Collated(reports, value) \in Said \ {None}
        BY <4>1, OsObserverAssumption DEF TableReports, Said
      <4> QED BY <1>6, <3>1, <4>2 DEF Recorded
    <3>2. CASE i # Net
      BY <1>3, <1>4, <1>6, <3>2 DEF Recorded
    <3> QED BY <3>1, <3>2
  <2>2. cache \in [AllItems -> Said]
    BY StatusParts
  <2>3. cache' \in [AllItems -> Said] /\ cache'[i] # None /\ \A j \in AllItems \ {i} : cache'[j] = cache[j]
    BY <1>3, <2>1, <2>2
  <2>4. said \in [AllClients -> [AllItems -> Said]]
    <3>1. \A items : Cached(cache', items) \in [AllItems -> Said]
      BY <2>3, CachedIsSaid
    <3> QED BY <3>1, NothingIsSaid
  <2>5. ASSUME NEW c \in AllClients, NEW j \in AllItems
        PROVE  /\ said[c][j] \in {None, cache'[j]}
               /\ said[c][j] = None /\ j \in clientItems'[c] => cache'[j] = cache[j] /\ j \in clientItems[c]
    <3>1. said[c][j] = IF c \in itemClients[i] /\ j = i /\ i \in clientItems[c] THEN cache'[j] ELSE None
      BY DEF Cached, Nothing
    <3>2. i \in clientItems[c] <=> c \in itemClients[i]
      BY <1>3 DEF MapsAreInverse
    <3> QED BY <1>2, <2>3, <3>1, <3>2
  <2>6. \A j \in AllItems : cache'[j] = None => cache[j] = None
    BY <2>3
  <2> HIDE DEF said
  <2> QED BY <1>2, <1>6, <2>4, <2>5, <2>6, TellCurrent
<1> QED BY <1>1, <1>5, <1>6 DEF HandleNotify

LEMMA XtraHearsCurrent == ASSUME IInv, CurrentInv, XtraHears PROVE CurrentInv'
<1>1. PICK said : said = Head(adapterQ).said
  OBVIOUS
<1>2. /\ Take("xtraHears") /\ adapterQ # <<>> /\ Head(adapterQ).type = "xtraHears"
      /\ said \in [AllItems -> Said] /\ adapterQ \in Seq(GoodMessages)
  BY <1>1, TakenIsGood, MessageParts, QueueIsGood DEF XtraHears
<1>3. /\ adapterQ' = Tail(adapterQ)
      /\ heard' = [heard EXCEPT ![Xtra] = Update(@, said)]
      /\ daemon' = IF daemon.asked THEN [daemon EXCEPT !.told = Update(@, said)] ELSE daemon
      /\ cache' = cache /\ clientItems' = clientItems
  BY <1>1 DEF XtraHears, mapVars, statusVars
<1>4. Xtra \in AllClients /\ Xtra \notin Clients /\ Clients \subseteq AllClients
  BY OsObserverAssumption DEF AllClients
<1>5. heard \in [AllClients -> [AllItems -> Said]] /\ daemon \in Daemons
  BY StatusParts
<1>6. \A i \in AllItems : heard'[Xtra][i] = IF said[i] = None THEN heard[Xtra][i] ELSE said[i]
  BY <1>3, <1>4, <1>5 DEF Update
<1>7. \A c \in Clients : heard'[c] = heard[c]
  BY <1>3, <1>4, <1>5
<1>8. ASSUME NEW c \in Clients, NEW i \in AllItems
      PROVE  ClientFits(c, i)'
  BY <1>3, <1>7 DEF CurrentInv, ClientFits
<1>9. ASSUME NEW i \in AllItems, said[i] # None
      PROVE  cache[i] # None /\ TellsAt(adapterQ, i, 1)
  <2>1. TellsAt(adapterQ, i, 1)
    BY <1>1, <1>2, <1>9, TakenTells
  <2> QED BY <2>1 DEF CurrentInv, Unsaid
<1>10. ASSUME NEW i \in AllItems, i \in clientItems[Xtra]
       PROVE  Hears(adapterQ', i, heard'[Xtra][i], cache[i])
  <2>1. Hears(adapterQ, i, heard[Xtra][i], cache[i])
    BY <1>10 DEF CurrentInv, XtraFits
  <2>2. CASE said[i] = None
    <3>1. Hears(Tail(adapterQ), i, heard[Xtra][i], cache[i])
      BY <1>1, <1>2, <2>1, <2>2, TakenOther
    <3> QED BY <1>3, <1>6, <2>2, <3>1
  <2>3. CASE said[i] # None
    <3>1. Hears(Tail(adapterQ), i, said[i], cache[i])
      BY <1>1, <1>2, <2>1, <2>3, TakenTelling
    <3> QED BY <1>3, <1>6, <2>3, <3>1
  <2> QED BY <2>2, <2>3
<1>11. \A i \in AllItems : XtraFits(i)'
  BY <1>3, <1>10 DEF XtraFits, Hears, TellsAt
<1>12. ASSUME NEW i \in AllItems, cache'[i] = None
       PROVE  Unsaid(i)'
  <2>1. Unsaid(i) /\ said[i] = None
    BY <1>3, <1>9, <1>12 DEF CurrentInv
  <2>2. \A k : ~TellsAt(Tail(adapterQ), i, k)
    BY <1>1, <1>2, <2>1, TakenOther DEF Unsaid
  <2>3. \A c \in AllClients : heard'[c][i] = None
    BY <1>4, <1>6, <1>7, <2>1 DEF Unsaid, AllClients
  <2> QED BY <1>3, <2>2, <2>3 DEF Unsaid, TellsAt
<1>13. DaemonFits'
  <2>1. CASE daemon.asked
    <3>1. /\ daemon'.told = Update(daemon.told, said)
          /\ daemon'.answered = daemon.answered /\ daemon'.asked = daemon.asked
      BY <1>3, <1>5, <2>1 DEF Daemons
    <3>2. \A i \in AllItems : daemon'.told[i] = IF said[i] = None THEN daemon.told[i] ELSE said[i]
      BY <3>1 DEF Update
    <3> QED BY <1>6, <2>1, <3>1, <3>2 DEF CurrentInv, DaemonFits
  <2>2. CASE ~daemon.asked
    BY <1>3, <1>6, <2>2 DEF CurrentInv, DaemonFits
  <2> QED BY <2>1, <2>2
<1>14. NewsIsSomething'
  <2>1. \A k \in DOMAIN adapterQ' : k + 1 \in DOMAIN adapterQ /\ adapterQ'[k] = adapterQ[k + 1]
    BY <1>2, <1>3
  <2> QED BY <2>1 DEF CurrentInv, NewsIsSomething
<1> QED BY <1>8, <1>11, <1>12, <1>13, <1>14 DEF CurrentInv

LEMMA StatusRequestedCurrent == ASSUME IInv, CurrentInv, StatusRequested PROVE CurrentInv'
<1>1. /\ Take("statusRequest") /\ adapterQ' = Tail(adapterQ)
      /\ cache' = cache /\ heard' = heard /\ clientItems' = clientItems
  BY DEF StatusRequested, mapVars, statusVars
<1>2. daemon \in Daemons /\ DaemonFits
  BY StatusParts DEF CurrentInv
<1>3. DaemonFits'
  <2>1. CASE daemon' = [daemon EXCEPT !.asked = TRUE]
    <3>1. daemon'.told = daemon.told /\ daemon'.answered = daemon.answered /\ daemon'.asked
      BY <1>2, <2>1 DEF Daemons
    <3> QED BY <1>1, <1>2, <3>1 DEF DaemonFits
  <2>2. CASE daemon' = [asked |-> TRUE, answered |-> TRUE, told |-> Update(daemon.told, heard[Xtra])]
    <3>1. /\ daemon'.asked
          /\ \A i \in AllItems : daemon'.told[i] = IF heard[Xtra][i] = None THEN daemon.told[i] ELSE heard[Xtra][i]
      BY <2>2 DEF Update
    <3> QED BY <1>1, <1>2, <3>1 DEF DaemonFits
  <2> QED BY <2>1, <2>2 DEF StatusRequested
<1> QED BY <1>1, <1>3, TakeCurrent

LEMMA ResetCurrent == ASSUME IInv, CurrentInv, ResetNetworkInfo PROVE CurrentInv'
<1> DEFINE gone == [k \in 1..Len(reports) |->
                [type |-> "notify", item |-> Net, value |-> Event(reports[k].network, FALSE)]]
<1>1. ASSUME NEW k \in 1..Len(reports)
      PROVE  gone[k] \in GoodMessages /\ gone[k].type = "notify" /\ gone[k].value # None
  <2>1. reports[k] \in TableReports
    BY IInvParts
  <2>2. reports[k].network \in Networks
    BY <2>1 DEF TableReports, Reports
  <2>3. Event(reports[k].network, FALSE) \in Reports
    BY <2>2, EventIsReport DEF TableReports
  <2> QED BY <2>2, <2>3, EventIsGood, OsObserverAssumption
<1>2. gone \in Seq(GoodMessages) /\ DOMAIN gone = 1..Len(reports)
  <2>1. Len(reports) \in Nat
    BY IInvParts
  <2>2. gone \in [1..Len(reports) -> GoodMessages]
    BY <1>1, Zenon
  <2> HIDE DEF gone
  <2> QED BY <2>1, <2>2
<1>3. /\ adapterQ' = adapterQ \o gone /\ adapterQ \in Seq(GoodMessages)
      /\ cache' = cache /\ heard' = heard /\ clientItems' = clientItems /\ daemon' = daemon
  BY QueueIsGood DEF ResetNetworkInfo, mapVars, statusVars
<1>4. \A k \in DOMAIN gone : gone[k].type = "notify" /\ gone[k].value # None
  BY <1>1, <1>2
<1> HIDE DEF gone
<1>5. \A i : /\ \A k : TellsAt(adapterQ', i, k) <=> TellsAt(adapterQ, i, k)
             /\ \A known, value : Hears(adapterQ, i, known, value) => Hears(adapterQ', i, known, value)
  BY <1>2, <1>3, <1>4, ConcatOther
<1>6. NewsIsSomething'
  <2>1. ASSUME NEW k \in DOMAIN adapterQ'
        PROVE  \/ k \in DOMAIN adapterQ /\ adapterQ'[k] = adapterQ[k]
               \/ k - Len(adapterQ) \in DOMAIN gone /\ adapterQ'[k] = gone[k - Len(adapterQ)]
    BY <1>2, <1>3
  <2> QED BY <1>4, <2>1 DEF CurrentInv, NewsIsSomething
<1>7. DaemonFits'
  BY <1>3 DEF CurrentInv, DaemonFits
<1> QED BY <1>3, <1>5, <1>6, <1>7, QuietCurrent

LEMMA CurrentStep == IInv /\ MapsAreInverse /\ CurrentInv /\ [Next]_vars => CurrentInv'
<1> SUFFICES ASSUME IInv, MapsAreInverse, CurrentInv, [Next]_vars PROVE CurrentInv'
  OBVIOUS
<1>1. CASE ClientCall
  <2>1. PICK c \in AllClients, type \in Requests, items \in SUBSET AllItems : Call(type, c, items)
    <3>1. Lists \subseteq SUBSET AllItems
      BY OsObserverAssumption DEF AllItems
    <3> QED BY <1>1, <3>1 DEF ClientCall, Requests
  <2> DEFINE m == [type |-> type, client |-> c, items |-> items]
  <2>2. m \in GoodMessages /\ Post(m) /\ m.type \notin {"xtraHears", "notify"}
    BY <2>1 DEF GoodMessages, Messages, Carries, Requests, Call
  <2> QED BY <2>2, PostCurrent
<1>2. CASE SetSubscriptionObj
  <2> DEFINE m == [type |-> "setObj"]
  <2>1. m \in GoodMessages /\ Post(m) /\ m.type \notin {"xtraHears", "notify"}
    BY <1>2 DEF GoodMessages, Messages, Carries, SetSubscriptionObj
  <2> QED BY <2>1, PostCurrent
<1>3. CASE ReportItem
  <2>1. PICK i \in Items, v \in Values : Post([type |-> "notify", item |-> i, value |-> v])
    BY <1>3 DEF ReportItem
  <2> DEFINE m == [type |-> "notify", item |-> i, value |-> v]
  <2>2. m \in GoodMessages /\ m.type # "xtraHears" /\ m.value # None
    BY OsObserverAssumption DEF GoodMessages, Messages, Carries, AllItems, Said
  <2> QED BY <2>1, <2>2, PostCurrent
<1>4. CASE ConnectionStatus
  <2>1. PICK n \in Networks, isUp \in BOOLEAN :
            Post([type |-> "notify", item |-> Net, value |-> Event(n, isUp)])
    BY <1>4 DEF ConnectionStatus
  <2> DEFINE m == [type |-> "notify", item |-> Net, value |-> Event(n, isUp)]
  <2>2. Event(n, isUp) \in Reports
    BY EventIsReport DEF TableReports
  <2>3. m \in GoodMessages /\ m.type # "xtraHears" /\ m.value # None
    BY <2>2, EventIsGood, OsObserverAssumption
  <2> QED BY <2>1, <2>3, PostCurrent
<1>5. CASE RequestStatus
  <2>1. PICK updated \in BOOLEAN : Post([type |-> "statusRequest", updated |-> updated])
    BY <1>5 DEF RequestStatus
  <2> DEFINE m == [type |-> "statusRequest", updated |-> updated]
  <2>2. m \in GoodMessages /\ m.type \notin {"xtraHears", "notify"}
    BY DEF GoodMessages, Messages, Carries
  <2> QED BY <2>1, <2>2, PostCurrent
<1>6. CASE DaemonRestarts \/ UNCHANGED vars
  <2>1. /\ adapterQ' = adapterQ /\ cache' = cache /\ heard' = heard /\ clientItems' = clientItems
    BY <1>6 DEF DaemonRestarts, vars, mapVars, statusVars
  <2>2. NewsIsSomething'
    BY <2>1 DEF CurrentInv, NewsIsSomething
  <2>3. DaemonFits'
    <3>1. CASE DaemonRestarts
      <4>1. ~daemon'.answered /\ daemon'.told = Nothing
        BY <3>1, StatusParts DEF DaemonRestarts, Daemons
      <4> QED BY <4>1 DEF DaemonFits, Nothing
    <3>2. CASE UNCHANGED vars
      BY <2>1, <3>2 DEF vars, CurrentInv, DaemonFits
    <3> QED BY <1>6, <3>1, <3>2
  <2> QED BY <2>1, <2>2, <2>3, QuietCurrent
<1>7. CASE HandleUnsubscribe
  <2>1. PICK type \in {"unsubscribe", "unsubscribeAll"} :
            /\ Take(type)
            /\ \E unused : clientItems' = Trim(clientItems, {Head(adapterQ).client}, unused)
    BY <1>7 DEF HandleUnsubscribe
  <2>2. \A c \in AllClients : clientItems'[c] \subseteq clientItems[c]
    BY <2>1, MapParts DEF Trim
  <2>3. adapterQ' = Tail(adapterQ) /\ cache' = cache /\ heard' = heard /\ daemon' = daemon
    BY <1>7 DEF HandleUnsubscribe, statusVars
  <2>4. DaemonFits'
    BY <2>3 DEF CurrentInv, DaemonFits
  <2> QED BY <2>1, <2>2, <2>3, <2>4, TakeCurrent
<1>8. CASE HandleSetObj
  <2>1. /\ Take("setObj") /\ adapterQ' = Tail(adapterQ) /\ cache' = cache /\ heard' = heard
        /\ daemon' = daemon /\ clientItems' = clientItems
    BY <1>8 DEF HandleSetObj, statusVars
  <2>2. DaemonFits'
    BY <2>1 DEF CurrentInv, DaemonFits
  <2> QED BY <2>1, <2>2, TakeCurrent
<1> QED
  BY <1>1, <1>2, <1>3, <1>4, <1>5, <1>6, <1>7, <1>8, ResetCurrent, SubscribeCurrent, NotifyCurrent,
     XtraHearsCurrent, StatusRequestedCurrent DEF Next

LEMMA CurrentInvariant == Spec => [](IInv /\ MapsAreInverse /\ CurrentInv)
<1>1. Init => CurrentInv
  <2> SUFFICES ASSUME Init PROVE CurrentInv
    OBVIOUS
  <2>1. \A i, k : ~TellsAt(adapterQ, i, k)
    BY DEF Init, TellsAt
  <2>2. /\ \A c \in AllClients : clientItems[c] = {}
        /\ \A c \in AllClients, i \in AllItems : heard[c][i] = None
        /\ \A i \in AllItems : daemon.told[i] = None
        /\ ~daemon.answered /\ adapterQ = <<>>
    BY DEF Init, Nothing
  <2>3. Xtra \in AllClients /\ Clients \subseteq AllClients
    BY DEF AllClients
  <2> QED BY <2>1, <2>2, <2>3 DEF CurrentInv, ClientFits, XtraFits, Unsaid, DaemonFits, NewsIsSomething
<1>2. Init => MapsAreInverse
  BY DEF Init, MapsAreInverse
<1> QED BY <1>1, <1>2, InitIInv, NextKeepsIInv, InverseStep, CurrentStep, PTL DEF Spec

\* When the adapter thread has nothing to do, every client knows what the cache
\* holds of its items, and so does a daemon that was answered, though
\* XtraSystemStatusObserver hears of it later than the others, the daemon may have
\* died in between, and clients come, go and come back.
THEOREM SubscribersCurrent == Spec => []SubscribersAreCurrent
<1>1. IInv /\ CurrentInv => SubscribersAreCurrent
  <2> SUFFICES ASSUME IInv, CurrentInv, adapterQ = <<>>
               PROVE  HeardIsCached /\ DaemonIsCurrent
    BY DEF SubscribersAreCurrent, AtRest
  <2>1. ASSUME NEW c \in AllClients
        PROVE  clientItems[c] \subseteq AllItems
    BY <2>1, MapParts
  <2>2. ASSUME NEW i \in AllItems, i \in clientItems[Xtra]
        PROVE  heard[Xtra][i] = cache[i]
    <3>1. \A k : ~TellsAt(adapterQ, i, k)
      BY DEF TellsAt
    <3> QED BY <2>2, <3>1 DEF CurrentInv, XtraFits, Hears
  <2>3. HeardIsCached
    BY <2>1, <2>2 DEF HeardIsCached, CurrentInv, ClientFits, AllClients
  <2>4. DaemonIsCurrent
    BY <2>1, <2>2 DEF DaemonIsCurrent, CurrentInv, DaemonFits, AllClients
  <2> QED BY <2>3, <2>4
<1> QED BY <1>1, CurrentInvariant, PTL
-----------------------------------------------------------------------------
(* The networks: after the reports under way are handled, the table names  *)
(* what is up.                                                             *)

\* Reports of a network under way, and those about network n.
Reporting(q, k) == k \in DOMAIN q /\ q[k].type = "notify" /\ q[k].item = Net
About(q, n, k) == Reporting(q, k) /\ q[k].value.network = n

\* Known to be up or not, a network is taken to be up or not once q is handled.
Becomes(q, n, known, value) ==
    \/ (\A k \in DOMAIN q : ~About(q, n, k)) /\ (known <=> value)
    \/ \E k \in DOMAIN q : /\ About(q, n, k) /\ (q[k].value.connected <=> value)
                           /\ \A l \in DOMAIN q : About(q, n, l) => l <= k

Member(n) == reports # <<>> /\ n \in Members(Last(reports).table)
Named(n) == Member(n) \/ n \in past.dropped
SoundMask(r) == r.mask \subseteq {TypeOf[n] : n \in Members(r.table)}

\* The cache holds the last report, and every report under way is of one network.
LastIsCached ==
    IF reports = <<>> THEN cache[Net] = None
    ELSE cache[Net] = Last(reports) /\ (past.dropped = {} => SoundMask(Last(reports)))
EventsOnly ==
    \A k \in DOMAIN adapterQ : Reporting(adapterQ, k) =>
        \E n \in Networks, isUp \in BOOLEAN : adapterQ[k].value = Event(n, isUp)

Orderly == used.restarts = 0 /\ ~past.odd

\* What is up is named or will be; and what is down is not or will not be, unless
\* the framework died or the first report was odd.
UpFits == \A n \in up : Becomes(adapterQ, n, Named(n), TRUE)
DownFits == Orderly => \A n \in Networks \ up : Becomes(adapterQ, n, Member(n), FALSE)

\* Known to be up or not, a network is taken to be up once k messages are handled.
UpAfter(q, k, n, known) ==
    \/ known /\ \A j \in 1..k : ~About(q, n, j)
    \/ \E j \in 1..k : /\ About(q, n, j) /\ q[j].value.connected
                       /\ \A l \in 1..k : About(q, n, l) => l <= j

Fits(S) == IsFiniteSet(S) /\ Cardinality(S) <= MaxNetworks

\* Whatever part of the messages was handled, the networks taken to be up are few enough.
HasRoom(q, k) ==
    \E S \in SUBSET Networks :
        Fits(S) /\ \A n \in Networks : UpAfter(q, k, n, Member(n)) => n \in S
RoomFits ==
    /\ IsFiniteSet(up)
    /\ ~past.crowded => Cardinality(up) <= MaxNetworks
    /\ Orderly /\ ~past.crowded => past.dropped = {} /\ \A k \in Nat : HasRoom(adapterQ, k)

NetworksInv == LastIsCached /\ EventsOnly /\ UpFits /\ DownFits /\ RoomFits

LEMMA AddedMembers ==
    ASSUME NEW table \in Seq(Networks), NEW n \in Networks
    PROVE  /\ ~IsFull(table, n) => Members(Added(table, n)) = Members(table) \cup {n}
           /\ IsFull(table, n) => Added(table, n) = table
<1>1. CASE n \in Members(table) \/ IsFull(table, n)
  BY <1>1 DEF Added, IsFull
<1>2. CASE n \notin Members(table) /\ ~IsFull(table, n)
  <2>1. PICK t \in Seq(Networks) : t = Append(table, n)
    <3>1. Append(table, n) \in Seq(Networks)
      OBVIOUS
    <3> QED BY <3>1
  <2>2. PICK l \in Nat : l = Len(table)
    OBVIOUS
  <2>3. Len(t) = l + 1 /\ t[l + 1] = n /\ \A k \in 1..l : t[k] = table[k]
    BY <2>1, <2>2
  <2>4. Members(t) = Members(table) \cup {n}
    <3>1. 1..(l + 1) = 1..l \cup {l + 1}
      BY <2>2
    <3> QED BY <2>2, <2>3, <3>1 DEF Members
  <2>5. Added(table, n) = t
    BY <1>2, <2>1 DEF Added
  <2> QED BY <1>2, <2>4, <2>5
<1> QED BY <1>1, <1>2

\* A table has room for a network if what it names and the network fit.
LEMMA RoomLeft ==
    ASSUME NEW table \in Seq(Networks), IsTable(table), NEW n \in Networks,
           NEW S, Fits(S), Members(table) \cup {n} \subseteq S
    PROVE  ~IsFull(table, n)
<1>1. CASE n \in Members(table)
  BY <1>1 DEF IsFull
<1>2. CASE n \notin Members(table)
  <2>1. PICK t \in Seq(Networks) : t = Append(table, n)
    <3>1. Append(table, n) \in Seq(Networks)
      OBVIOUS
    <3> QED BY <3>1
  <2>2. PICK l \in Nat : l = Len(table)
    OBVIOUS
  <2>3. Len(t) = l + 1 /\ t[l + 1] = n /\ \A k \in 1..l : t[k] = table[k]
    BY <2>1, <2>2
  <2>4. ASSUME NEW a \in 1..(l + 1), NEW b \in 1..(l + 1), t[a] = t[b]
        PROVE  a = b
    <3>1. \A k \in 1..l : t[k] # n
      BY <1>2, <2>2, <2>3 DEF Members
    <3>2. CASE a = l + 1 \/ b = l + 1
      BY <2>3, <2>4, <3>1, <3>2
    <3>3. CASE a \in 1..l /\ b \in 1..l
      BY <2>2, <2>3, <2>4, <3>3 DEF IsTable, IsInjective
    <3> QED BY <2>2, <3>2, <3>3
  <2>5. \A k \in 1..(l + 1) : t[k] \in S
    <3>1. 1..(l + 1) = 1..l \cup {l + 1}
      BY <2>2
    <3>2. \A k \in 1..l : table[k] \in Members(table)
      BY <2>2 DEF Members
    <3> QED BY <2>3, <3>1, <3>2
  <2>6. DOMAIN t = 1..(l + 1) /\ t \in [1..(l + 1) -> S]
    BY <2>3, <2>5
  <2>7. t \in Injection(1..(l + 1), S)
    BY <2>4, <2>6 DEF Injection, IsInjective
  <2>8. Cardinality(1..(l + 1)) = l + 1
    BY FS_Interval
  <2>9. Cardinality(1..(l + 1)) <= Cardinality(S)
    BY <2>7, FS_Injection DEF Fits
  <2>10. Cardinality(S) \in Nat
    BY FS_CardinalityType DEF Fits
  <2> QED BY <2>2, <2>8, <2>9, <2>10, NetworkAssumption DEF Fits, IsFull
<1> QED BY <1>1, <1>2

LEMMA DeletedMembers ==
    ASSUME NEW table \in Seq(Networks), IsTable(table), NEW n \in Networks
    PROVE  Members(Deleted(table, n)) = Members(table) \ {n}
<1>1. CASE n \notin Members(table)
  BY <1>1 DEF Deleted
<1>2. CASE n \in Members(table)
  <2>1. PICK at \in 1..Len(table) : table[at] = n
    BY <1>2 DEF Members
  <2>2. PICK l \in Nat : l = Len(table) - 1
    BY <2>1
  <2>3. PICK d : d = [k \in 1..l |-> IF table[k] = n THEN table[l + 1] ELSE table[k]]
    OBVIOUS
  <2>4. Deleted(table, n) = d /\ DOMAIN d = 1..l /\ Len(d) = l
    BY <1>2, <2>2, <2>3 DEF Deleted
  <2>5. \A k \in 1..l : d[k] = IF table[k] = n THEN table[l + 1] ELSE table[k]
    BY <2>3
  <2>6. \A a, b \in 1..(l + 1) : table[a] = table[b] => a = b
    BY <2>2 DEF IsTable, IsInjective
  <2>7. Members(d) = {d[k] : k \in 1..l} /\ Members(table) = {table[k] : k \in 1..(l + 1)}
    BY <2>2, <2>4 DEF Members
  <2>8. ASSUME NEW k \in 1..l PROVE d[k] \in Members(table) \ {n}
    BY <2>2, <2>5, <2>6, <2>7
  <2>9. ASSUME NEW m \in Members(table) \ {n} PROVE m \in Members(d)
    <3>1. PICK k \in 1..(l + 1) : table[k] = m
      BY <2>7
    <3>2. CASE k \in 1..l
      BY <2>5, <2>7, <3>1, <3>2
    <3>3. CASE k = l + 1
      <4>1. at # l + 1 /\ table[l + 1] = m
        BY <2>1, <3>1, <3>3
      <4>2. at \in 1..l
        BY <2>2, <4>1
      <4>3. d[at] = m
        BY ONLY <2>1, <2>5, <4>1, <4>2
      <4> QED BY <2>7, <4>2, <4>3
    <3> QED BY <2>2, <3>2, <3>3
  <2>10. Members(d) \subseteq Members(table) \ {n}
    BY ONLY <2>7, <2>8
  <2>11. Members(table) \ {n} \subseteq Members(d)
    BY ONLY <2>9
  <2> QED BY ONLY <2>4, <2>10, <2>11
<1> QED BY <1>1, <1>2

\* What an event makes of the latest report.
LEMMA CollatedMembers ==
    ASSUME NEW latest \in TableReports, NEW n \in Networks, NEW isUp \in BOOLEAN,
           NEW r, r = Collate(Event(n, isUp), latest)
    PROVE  /\ isUp /\ ~IsFull(latest.table, n) =>
                  Members(r.table) = Members(latest.table) \cup {n}
           /\ isUp /\ IsFull(latest.table, n) => r.table = latest.table
           /\ ~isUp => Members(r.table) = Members(latest.table) \ {n}
           /\ SoundMask(latest) /\ ~(isUp /\ IsFull(latest.table, n)) => SoundMask(r)
<1>1. latest.table \in Seq(Networks) /\ IsTable(latest.table)
  BY DEF TableReports, Reports
<1>2. PICK e : e = Event(n, isUp)
  OBVIOUS
<1>3. e.network = n /\ e.mask = {TypeOf[n]} /\ (e.connected <=> isUp)
  BY <1>2 DEF Event
<1>4. e \in [connected : BOOLEAN, network : {n}, mask : {{TypeOf[n]}}, table : {<<n>>}]
  BY <1>2 DEF Event
<1>5. CASE isUp
  <2>1. r = [e EXCEPT !.mask = @ \cup latest.mask, !.table = Added(latest.table, n)]
    BY <1>2, <1>3, <1>5 DEF Collate
  <2>2. r.mask = {TypeOf[n]} \cup latest.mask /\ r.table = Added(latest.table, n)
    BY <1>3, <1>4, <2>1
  <2>3. /\ ~IsFull(latest.table, n) => Members(r.table) = Members(latest.table) \cup {n}
        /\ IsFull(latest.table, n) => r.table = latest.table
    BY <1>1, <2>2, AddedMembers
  <2> QED BY <1>5, <2>2, <2>3 DEF SoundMask
<1>6. CASE ~isUp
  <2>1. PICK others : others = Others(latest.table, n)
    OBVIOUS
  <2>2. r = [e EXCEPT !.mask = IF others = {} THEN latest.mask \ @ ELSE @,
                      !.table = Deleted(latest.table, n)]
    BY <1>2, <1>3, <1>6, <2>1 DEF Collate
  <2>3. /\ r.mask = IF others = {} THEN latest.mask \ {TypeOf[n]} ELSE {TypeOf[n]}
        /\ r.table = Deleted(latest.table, n)
    BY <1>3, <1>4, <2>2
  <2>4. Members(r.table) = Members(latest.table) \ {n}
    BY <1>1, <2>3, DeletedMembers
  <2>5. others = {m \in Members(latest.table) \ {n} : TypeOf[m] = TypeOf[n]}
    BY <2>1 DEF Others
  <2>6. SoundMask(latest) => SoundMask(r)
    BY <2>3, <2>4, <2>5 DEF SoundMask
  <2> QED BY <1>6, <2>4, <2>6
<1> QED BY <1>5, <1>6

-----------------------------------------------------------------------------
(* ... what becomes of a network when messages are taken and posted        *)

LEMMA TakenBecomes ==
    ASSUME NEW p \in Seq(GoodMessages), p # <<>>, NEW q \in Seq(GoodMessages), NEW n,
           \A k \in Nat \ {0} : /\ About(q, n, k) <=> About(p, n, k + 1)
                                /\ About(q, n, k) => q[k] = p[k + 1],
           NEW known, NEW knows, NEW value, Becomes(p, n, known, value),
           About(p, n, 1) /\ (p[1].value.connected <=> value) => (knows <=> value),
           ~About(p, n, 1) /\ (known <=> value) => (knows <=> value)
    PROVE  Becomes(q, n, knows, value)
<1>1. \A k : About(p, n, k) => k \in DOMAIN p /\ k \in Nat \ {0}
  BY DEF About, Reporting
<1>2. \A k : About(q, n, k) => k \in DOMAIN q /\ k \in Nat \ {0}
  BY DEF About, Reporting
<1>3. CASE \A k \in DOMAIN p : ~About(p, n, k)
  <2>1. \A k : ~About(q, n, k)
    BY <1>1, <1>2, <1>3
  <2>2. known <=> value
    BY <1>3 DEF Becomes
  <2> QED BY <1>1, <1>3, <2>1, <2>2 DEF Becomes
<1>4. ASSUME NEW k \in DOMAIN p, About(p, n, k), p[k].value.connected <=> value,
             \A l \in DOMAIN p : About(p, n, l) => l <= k
      PROVE  Becomes(q, n, knows, value)
  <2>1. CASE k = 1
    <3>1. ASSUME NEW l, About(q, n, l) PROVE FALSE
      <4>1. l \in Nat \ {0} /\ About(p, n, l + 1)
        BY <1>2, <3>1
      <4>2. l + 1 <= 1
        BY <1>1, <1>4, <2>1, <4>1
      <4> QED BY <4>1, <4>2
    <3> QED BY <1>4, <2>1, <3>1 DEF Becomes
  <2>2. CASE k # 1
    <3>1. PICK j \in Nat \ {0} : j + 1 = k
      <4>1. k \in Nat /\ k # 0 /\ k # 1
        BY <1>1, <1>4, <2>2
      <4>2. \A i \in Nat : i # 0 /\ i # 1 => i - 1 \in Nat \ {0} /\ (i - 1) + 1 = i
        OBVIOUS
      <4> QED BY <4>1, <4>2
    <3>2. About(q, n, j) /\ q[j] = p[k] /\ j \in DOMAIN q
      BY <1>2, <1>4, <3>1
    <3>3. ASSUME NEW l \in DOMAIN q, About(q, n, l) PROVE l <= j
      <4>1. l \in Nat \ {0} /\ About(p, n, l + 1)
        BY <1>2, <3>3
      <4>2. l + 1 <= k
        BY <1>1, <1>4, <4>1
      <4> QED BY <3>1, <4>1, <4>2
    <3> QED BY <1>4, <3>2, <3>3 DEF Becomes
  <2> QED BY <2>1, <2>2
<1> QED BY <1>3, <1>4 DEF Becomes

LEMMA AppendedBecomes ==
    ASSUME NEW p \in Seq(GoodMessages), NEW m \in GoodMessages, NEW q, q = Append(p, m),
           NEW n, NEW known, NEW value
    PROVE  /\ m.type = "notify" /\ m.item = Net /\ m.value.network = n /\ (m.value.connected <=> value)
                => Becomes(q, n, known, value)
           /\ ~(m.type = "notify" /\ m.item = Net /\ m.value.network = n)
                => (Becomes(p, n, known, value) => Becomes(q, n, known, value))
<1>1. PICK l \in Nat : l = Len(p)
  OBVIOUS
<1>2. DOMAIN p = 1..l /\ DOMAIN q = 1..(l + 1) /\ q[l + 1] = m /\ \A k \in 1..l : q[k] = p[k]
  BY <1>1
<1>3. ASSUME m.type = "notify", m.item = Net, m.value.network = n, m.value.connected <=> value
      PROVE  Becomes(q, n, known, value)
  <2>1. About(q, n, l + 1) /\ l + 1 \in DOMAIN q
    BY <1>2, <1>3 DEF About, Reporting
  <2>2. \A k \in DOMAIN q : k <= l + 1
    BY <1>2
  <2> QED BY <1>2, <1>3, <2>1, <2>2 DEF Becomes
<1>4. ASSUME ~(m.type = "notify" /\ m.item = Net /\ m.value.network = n), Becomes(p, n, known, value)
      PROVE  Becomes(q, n, known, value)
  <2>1. \A k : About(q, n, k) <=> About(p, n, k)
    <3>1. ASSUME NEW k \in 1..l PROVE About(q, n, k) <=> About(p, n, k)
      BY <1>2 DEF About, Reporting
    <3>2. ~About(q, n, l + 1)
      BY <1>2, <1>4 DEF About, Reporting
    <3>3. 1..(l + 1) = 1..l \cup {l + 1}
      BY <1>1
    <3>4. \A k : About(q, n, k) => k \in 1..(l + 1)
      BY <1>2 DEF About, Reporting
    <3>5. \A k : About(p, n, k) => k \in 1..l
      BY <1>2 DEF About, Reporting
    <3> QED BY <3>1, <3>2, <3>3, <3>4, <3>5
  <2>2. \A k : About(p, n, k) => k \in DOMAIN p /\ k \in DOMAIN q /\ q[k] = p[k]
    BY <1>2 DEF About, Reporting
  <2>3. CASE \A k \in DOMAIN p : ~About(p, n, k)
    BY <1>4, <2>1, <2>2, <2>3 DEF Becomes
  <2>4. ASSUME NEW k \in DOMAIN p, About(p, n, k), p[k].value.connected <=> value,
               \A j \in DOMAIN p : About(p, n, j) => j <= k
        PROVE  Becomes(q, n, known, value)
    BY <2>1, <2>2, <2>4 DEF Becomes
  <2> QED BY <1>4, <2>3, <2>4 DEF Becomes
<1> QED BY <1>3, <1>4

\* ... and what is taken to be up after some of the messages

LEMMA TakenUpAfter ==
    ASSUME NEW p \in Seq(GoodMessages), p # <<>>, NEW q \in Seq(GoodMessages), NEW n,
           \A i \in Nat \ {0} : /\ About(q, n, i) <=> About(p, n, i + 1)
                                /\ About(q, n, i) => q[i] = p[i + 1],
           NEW known, NEW knows, NEW k \in Nat, UpAfter(q, k, n, knows),
           About(p, n, 1) /\ knows => p[1].value.connected,
           ~About(p, n, 1) /\ knows => known
    PROVE  UpAfter(p, k + 1, n, known)
<1>1. ASSUME NEW l \in 1..(k + 1), l # 1
      PROVE  \E i \in 1..k : i + 1 = l
  <2>1. l - 1 \in 1..k /\ (l - 1) + 1 = l
    BY <1>1
  <2> QED BY <2>1
<1>2. \A i \in 1..k : i \in Nat \ {0} /\ i + 1 \in 1..(k + 1)
  OBVIOUS
<1>3. CASE knows /\ \A i \in 1..k : ~About(q, n, i)
  <2>1. \A l \in 1..(k + 1) : About(p, n, l) => l = 1
    BY <1>1, <1>2, <1>3
  <2>2. 1 \in 1..(k + 1)
    OBVIOUS
  <2>3. CASE About(p, n, 1)
    <3>1. p[1].value.connected
      BY <1>3, <2>3
    <3>2. \A l \in 1..(k + 1) : About(p, n, l) => l <= 1
      BY <2>1
    <3> QED BY <2>2, <2>3, <3>1, <3>2 DEF UpAfter
  <2>4. CASE ~About(p, n, 1)
    BY <1>3, <2>1, <2>4 DEF UpAfter
  <2> QED BY <2>3, <2>4
<1>4. ASSUME NEW i \in 1..k, About(q, n, i), q[i].value.connected,
             \A l \in 1..k : About(q, n, l) => l <= i
      PROVE  UpAfter(p, k + 1, n, known)
  <2>1. i + 1 \in 1..(k + 1) /\ About(p, n, i + 1) /\ p[i + 1].value.connected
    BY <1>2, <1>4
  <2>2. ASSUME NEW l \in 1..(k + 1), About(p, n, l) PROVE l <= i + 1
    <3>1. CASE l = 1
      BY <3>1
    <3>2. CASE l # 1
      <4>1. PICK j \in 1..k : j + 1 = l
        BY <1>1, <3>2
      <4>2. j <= i
        BY <1>2, <1>4, <2>2, <4>1
      <4> QED BY <4>1, <4>2
    <3> QED BY <3>1, <3>2
  <2> QED BY <2>1, <2>2 DEF UpAfter
<1> QED BY <1>3, <1>4 DEF UpAfter

LEMMA AppendedUpAfter ==
    ASSUME NEW p \in Seq(GoodMessages), NEW m \in GoodMessages, NEW q, q = Append(p, m),
           NEW k \in Nat, k <= Len(p), NEW n, NEW known, UpAfter(q, k, n, known)
    PROVE  UpAfter(p, k, n, known)
<1>1. PICK l \in Nat : l = Len(p)
  OBVIOUS
<1>2. DOMAIN p = 1..l /\ DOMAIN q = 1..(l + 1) /\ \A j \in 1..l : q[j] = p[j]
  BY <1>1
<1>3. \A j \in 1..k : j \in 1..l /\ j \in 1..(l + 1)
  BY <1>1
<1>4. \A j \in 1..k : (About(q, n, j) <=> About(p, n, j)) /\ q[j] = p[j]
  BY <1>2, <1>3 DEF About, Reporting
<1> QED BY <1>4 DEF UpAfter

\* What will be taken to be down is not taken to be up after all the messages.
LEMMA DownAfter ==
    ASSUME NEW q \in Seq(GoodMessages), NEW n, NEW known, Becomes(q, n, known, FALSE),
           NEW k \in Nat, Len(q) <= k, UpAfter(q, k, n, known)
    PROVE  FALSE
<1>1. \A j : About(q, n, j) => j \in DOMAIN q /\ j \in 1..k /\ j \in Nat
  BY DEF About, Reporting
<1>2. CASE (\A j \in DOMAIN q : ~About(q, n, j)) /\ ~known
  BY <1>1, <1>2 DEF UpAfter
<1>3. ASSUME NEW i \in DOMAIN q, About(q, n, i), ~q[i].value.connected,
             \A l \in DOMAIN q : About(q, n, l) => l <= i
      PROVE  FALSE
  <2>1. PICK j \in 1..k : /\ About(q, n, j) /\ q[j].value.connected
                         /\ \A l \in 1..k : About(q, n, l) => l <= j
    BY <1>1, <1>3 DEF UpAfter
  <2>2. i <= j /\ j <= i /\ i \in Nat /\ j \in Nat
    BY <1>1, <1>3, <2>1
  <2>3. i = j
    BY <2>2
  <2> QED BY <1>3, <2>1, <2>3
<1> QED BY <1>2, <1>3 DEF Becomes

LEMMA QueueLemma ==
    ASSUME IInv
    PROVE  /\ adapterQ \in Seq(GoodMessages)
           /\ \A k \in DOMAIN adapterQ : k \in Nat /\ k # 0
BY IInvParts

\* A message more leaves room, if those that are up then are few enough.
LEMMA AppendedRoom ==
    ASSUME IInv, RoomFits, NEW m \in GoodMessages, NEW q, q = Append(adapterQ, m), adapterQ' = q,
           reports' = reports, used'.restarts = used.restarts,
           past'.odd <=> past.odd, past'.dropped = past.dropped, past.crowded => past'.crowded,
           up' \in SUBSET Networks, IsFiniteSet(up'),
           ~past'.crowded => Cardinality(up') <= MaxNetworks, DownFits'
    PROVE  RoomFits'
<1>1. PICK p \in Seq(GoodMessages) : p = adapterQ
  BY QueueLemma
<1>2. q \in Seq(GoodMessages) /\ Len(q) = Len(p) + 1 /\ Len(p) \in Nat
  BY <1>1
<1>3. \A n : Member(n)' <=> Member(n)
  BY DEF Member
<1>4. ASSUME Orderly', ~past'.crowded PROVE past'.dropped = {} /\ Orderly /\ ~past.crowded
  BY <1>4 DEF RoomFits, Orderly
<1>5. ASSUME Orderly', ~past'.crowded, NEW k \in Nat PROVE HasRoom(adapterQ, k)'
  <2>1. CASE k <= Len(p)
    <3>1. PICK S \in SUBSET Networks :
              Fits(S) /\ \A n \in Networks : UpAfter(p, k, n, Member(n)) => n \in S
      BY <1>1, <1>4, <1>5 DEF RoomFits, HasRoom
    <3>2. ASSUME NEW n \in Networks, UpAfter(q, k, n, Member(n)) PROVE n \in S
      <4>1. UpAfter(p, k, n, Member(n))
        BY <1>1, <2>1, <3>2, AppendedUpAfter
      <4> QED BY <3>1, <4>1
    <3>3. \A n \in Networks : UpAfter(q, k, n, Member(n)') => n \in S
      BY <1>3, <3>2 DEF UpAfter
    <3> QED BY <3>1, <3>3 DEF HasRoom, UpAfter, About, Reporting, Fits
  <2>2. CASE ~(k <= Len(p))
    <3>1. Len(q) <= k
      BY <1>2, <2>2
    <3>2. ASSUME NEW n \in Networks, n \notin up', UpAfter(q, k, n, Member(n)') PROVE FALSE
      <4>1. Becomes(q, n, Member(n)', FALSE)
        BY <1>5, <3>2 DEF DownFits, Becomes, About, Reporting
      <4> QED BY <1>2, <3>1, <3>2, <4>1, DownAfter
    <3>3. Fits(up')
      BY <1>5 DEF Fits
    <3> QED BY <3>2, <3>3 DEF HasRoom, UpAfter, About, Reporting, Fits
  <2> QED BY <2>1, <2>2
<1> QED BY <1>4, <1>5 DEF RoomFits

\* A call of another thread, which reports no network.
LEMMA PostNetworks ==
    ASSUME IInv, NetworksInv, NEW m \in GoodMessages, Post(m), ~(m.type = "notify" /\ m.item = Net),
           up' = up, past' = past, used'.restarts = used.restarts
    PROVE  NetworksInv'
<1>1. PICK q : q = Append(adapterQ, m)
  OBVIOUS
<1>2. /\ adapterQ' = q /\ cache' = cache /\ reports' = reports
      /\ adapterQ \in Seq(GoodMessages) /\ Len(adapterQ) \in Nat
  BY <1>1, QueueLemma DEF Post, Send, statusVars
<1>3. /\ DOMAIN q = 1..(Len(adapterQ) + 1) /\ DOMAIN adapterQ = 1..Len(adapterQ)
      /\ q[Len(adapterQ) + 1] = m /\ \A k \in DOMAIN adapterQ : q[k] = adapterQ[k]
  BY <1>1, <1>2
<1>4. \A k : Reporting(q, k) => k \in DOMAIN adapterQ /\ Reporting(adapterQ, k) /\ q[k] = adapterQ[k]
  BY <1>2, <1>3 DEF Reporting
<1>5. EventsOnly'
  BY <1>2, <1>4 DEF NetworksInv, EventsOnly
<1>6. \A n, known, value : Becomes(adapterQ, n, known, value) => Becomes(q, n, known, value)
  BY <1>1, <1>2, AppendedBecomes
<1>7. \A n : (Member(n)' <=> Member(n)) /\ (Named(n)' <=> Named(n))
  BY <1>2 DEF Member, Named
<1>8. \A n, value : /\ Becomes(adapterQ, n, Named(n), value) => Becomes(q, n, Named(n)', value)
                    /\ Becomes(adapterQ, n, Member(n), value) => Becomes(q, n, Member(n)', value)
  BY <1>6, <1>7 DEF Becomes
<1>9. UpFits'
  BY <1>2, <1>8 DEF NetworksInv, UpFits
<1>10. DownFits'
  BY <1>2, <1>8 DEF NetworksInv, DownFits, Orderly
<1>11. RoomFits'
  <2>1. /\ RoomFits /\ up' \in SUBSET Networks /\ IsFiniteSet(up')
        /\ ~past'.crowded => Cardinality(up') <= MaxNetworks
    BY IInvParts DEF NetworksInv, RoomFits
  <2> QED BY <1>1, <1>2, <1>10, <2>1, AppendedRoom
<1> QED BY <1>2, <1>5, <1>9, <1>10, <1>11 DEF NetworksInv, LastIsCached

\* A network comes or goes.
LEMMA ConnectionNetworks ==
    ASSUME IInv, NetworksInv, ConnectionStatus
    PROVE  NetworksInv'
<1>1. PICK n \in Networks, isUp \in BOOLEAN :
          /\ up' = IF isUp THEN up \cup {n} ELSE up \ {n}
          /\ Post([type |-> "notify", item |-> Net, value |-> Event(n, isUp)])
          /\ used' = [used EXCEPT !.news = @ + 1]
          /\ past' = [past EXCEPT !.crowded = @ \/ Cardinality(up') > MaxNetworks]
  BY DEF ConnectionStatus
<1>2. PICK m \in GoodMessages : m = [type |-> "notify", item |-> Net, value |-> Event(n, isUp)]
  BY EventIsGood
<1>3. m.type = "notify" /\ m.item = Net /\ m.value = Event(n, isUp)
  BY <1>2
<1>4. m.value.network = n /\ (m.value.connected <=> isUp)
  BY <1>3 DEF Event
<1>5. PICK q : q = Append(adapterQ, m)
  OBVIOUS
<1>6. /\ adapterQ' = q /\ cache' = cache /\ reports' = reports
      /\ adapterQ \in Seq(GoodMessages) /\ Len(adapterQ) \in Nat
  BY <1>1, <1>2, <1>5, QueueLemma DEF Post, Send, statusVars
<1>7. /\ DOMAIN q = 1..(Len(adapterQ) + 1) /\ DOMAIN adapterQ = 1..Len(adapterQ)
      /\ q[Len(adapterQ) + 1] = m /\ \A k \in DOMAIN adapterQ : q[k] = adapterQ[k]
  BY <1>5, <1>6
<1>8. ASSUME NEW k, Reporting(q, k)
      PROVE  \/ k \in DOMAIN adapterQ /\ Reporting(adapterQ, k) /\ q[k] = adapterQ[k]
             \/ k = Len(adapterQ) + 1 /\ q[k] = m
  BY <1>6, <1>7, <1>8 DEF Reporting
<1>9. EventsOnly'
  <2>1. ASSUME NEW k, Reporting(q, k)
        PROVE  \E x \in Networks, y \in BOOLEAN : q[k].value = Event(x, y)
    BY <1>3, <1>8, <2>1 DEF NetworksInv, EventsOnly
  <2> QED BY <1>6, <2>1 DEF EventsOnly
<1>10. /\ past'.odd = past.odd /\ past'.dropped = past.dropped
       /\ past'.crowded <=> past.crowded \/ Cardinality(up') > MaxNetworks
  BY <1>1, IInvParts DEF Pasts
<1>11. \A x : (Member(x)' <=> Member(x)) /\ (Named(x)' <=> Named(x))
  BY <1>6, <1>10 DEF Member, Named
<1>12. ASSUME NEW known PROVE Becomes(q, n, known, isUp)
  <2>1. m.type = "notify" /\ m.item = Net /\ m.value.network = n /\ (m.value.connected <=> isUp)
            => Becomes(q, n, known, isUp)
    BY <1>5, <1>6, AppendedBecomes
  <2> QED BY <1>3, <1>4, <2>1
<1>13. ASSUME NEW x, x # n, NEW known, NEW value, Becomes(adapterQ, x, known, value)
       PROVE  Becomes(q, x, known, value)
  <2>1. ~(m.type = "notify" /\ m.item = Net /\ m.value.network = x)
    BY <1>4, <1>13
  <2> QED BY <1>5, <1>6, <1>13, <2>1, AppendedBecomes
<1>14. UpFits'
  <2>1. ASSUME NEW x \in up' PROVE Becomes(q, x, Named(x)', TRUE)
    <3>1. CASE x = n
      <4>1. isUp = TRUE
        BY <1>1, <2>1, <3>1
      <4> QED BY <1>12, <3>1, <4>1
    <3>2. CASE x # n
      <4>1. x \in up
        BY <1>1, <2>1, <3>2
      <4>2. Becomes(q, x, Named(x), TRUE)
        BY <1>13, <3>2, <4>1 DEF NetworksInv, UpFits
      <4> QED BY <1>11, <4>2 DEF Becomes
    <3> QED BY <3>1, <3>2
  <2> QED BY <1>6, <2>1 DEF UpFits
<1>15. used'.restarts = used.restarts
  BY <1>1, IInvParts
<1>16. DownFits'
  <2>1. Orderly' <=> Orderly
    BY <1>10, <1>15 DEF Orderly
  <2>2. ASSUME Orderly, NEW x \in Networks, x \notin up' PROVE Becomes(q, x, Member(x)', FALSE)
    <3>1. CASE x = n
      <4>1. isUp = FALSE
        BY <1>1, <2>2, <3>1
      <4> QED BY <1>12, <3>1, <4>1
    <3>2. CASE x # n
      <4>1. x \in Networks \ up
        BY <1>1, <2>2, <3>2
      <4>2. Becomes(q, x, Member(x), FALSE)
        BY <1>13, <2>2, <3>2, <4>1 DEF NetworksInv, DownFits
      <4> QED BY <1>11, <4>2 DEF Becomes
    <3> QED BY <3>1, <3>2
  <2> QED BY <1>6, <2>1, <2>2 DEF DownFits
<1>17. RoomFits'
  <2>1. IsFiniteSet(up) /\ up \in SUBSET Networks /\ RoomFits
    BY IInvParts DEF NetworksInv, RoomFits
  <2>2. up' \in SUBSET Networks /\ IsFiniteSet(up')
    BY <1>1, <2>1, FS_AddElement, FS_RemoveElement
  <2>3. Cardinality(up') \in Nat
    BY <2>2, FS_CardinalityType
  <2>4. past.crowded => past'.crowded
    BY <1>10
  <2>5. ~past'.crowded => Cardinality(up') <= MaxNetworks
    BY <1>10, <2>3, NetworkAssumption
  <2> QED BY <1>5, <1>6, <1>10, <1>15, <1>16, <2>1, <2>2, <2>4, <2>5, AppendedRoom
<1> QED BY <1>6, <1>9, <1>10, <1>14, <1>16, <1>17 DEF NetworksInv, LastIsCached

\* The framework dies: nothing is up any more, and all that was reported is reported gone.
LEMMA ResetNetworks ==
    ASSUME IInv, NetworksInv, ResetNetworkInfo
    PROVE  NetworksInv'
<1> DEFINE down(k) == [type |-> "notify", item |-> Net, value |-> Event(reports[k].network, FALSE)]
<1>1. PICK l \in Nat : l = Len(reports)
  BY IInvParts
<1>2. \A k \in 1..l : reports[k].network \in Networks
  <2>1. \A k \in 1..l : reports[k] \in TableReports
    BY <1>1, IInvParts
  <2> QED BY <2>1 DEF TableReports, Reports
<1>3. PICK gone : gone = [k \in 1..l |-> down(k)]
  OBVIOUS
<1>4. gone \in Seq(GoodMessages) /\ Len(gone) = l
  <2>1. \A k \in 1..l : down(k) \in GoodMessages
    BY <1>2, EventIsGood
  <2>2. gone \in [1..l -> GoodMessages]
    BY <1>3, <2>1
  <2> QED BY <2>2
<1>5. \A k \in 1..l : gone[k].value = Event(reports[k].network, FALSE)
  BY <1>3
<1>6. PICK q : q = adapterQ \o gone
  OBVIOUS
<1>7. /\ adapterQ' = q /\ cache' = cache /\ reports' = reports /\ up' = {} /\ past' = past
      /\ used' = [used EXCEPT !.restarts = @ + 1]
      /\ adapterQ \in Seq(GoodMessages)
  BY <1>1, <1>3, <1>6, QueueLemma DEF ResetNetworkInfo, statusVars
<1>8. ASSUME NEW k \in DOMAIN q
      PROVE  \/ k \in DOMAIN adapterQ /\ q[k] = adapterQ[k]
             \/ k - Len(adapterQ) \in 1..l /\ q[k] = gone[k - Len(adapterQ)]
  BY <1>4, <1>6, <1>7, <1>8
<1>9. EventsOnly'
  <2>1. ASSUME NEW k \in DOMAIN q, Reporting(q, k)
        PROVE  \E x \in Networks, y \in BOOLEAN : q[k].value = Event(x, y)
    <3>1. CASE k \in DOMAIN adapterQ /\ q[k] = adapterQ[k]
      BY <2>1, <3>1 DEF NetworksInv, EventsOnly, Reporting
    <3>2. CASE k - Len(adapterQ) \in 1..l /\ q[k] = gone[k - Len(adapterQ)]
      BY <1>2, <1>5, <3>2
    <3> QED BY <1>8, <2>1, <3>1, <3>2
  <2> QED BY <1>7, <2>1 DEF EventsOnly
<1>10. ~Orderly'
  BY <1>7, IInvParts DEF Orderly
<1>11. IsFiniteSet({}) /\ Cardinality({}) = 0
  BY FS_EmptySet
<1>12. RoomFits'
  BY <1>7, <1>10, <1>11, NetworkAssumption DEF RoomFits
<1> QED BY <1>7, <1>9, <1>10, <1>12 DEF NetworksInv, LastIsCached, UpFits, DownFits

\* The handled message leaves the queue, which may grow by a message that is no report.
Taken(q) ==
    /\ adapterQ # <<>> /\ q \in Seq(GoodMessages)
    /\ \A k \in Nat \ {0} : /\ Reporting(q, k) <=> Reporting(adapterQ, k + 1)
                            /\ Reporting(q, k) => q[k] = adapterQ[k + 1]

LEMMA TakenAt ==
    ASSUME NEW q, Taken(q), NEW k \in Nat \ {0}
    PROVE  /\ Reporting(q, k) <=> Reporting(adapterQ, k + 1)
           /\ Reporting(q, k) => q[k] = adapterQ[k + 1]
BY Zenon DEF Taken

LEMMA TailIsTaken ==
    ASSUME IInv, adapterQ # <<>>
    PROVE  Taken(Tail(adapterQ))
<1>1. PICK p \in Seq(GoodMessages) : p = adapterQ
  BY QueueLemma
<1>2. PICK l \in Nat : Len(p) = l + 1
  <2>1. Len(p) \in Nat /\ Len(p) # 0
    BY <1>1
  <2>2. Len(p) - 1 \in Nat /\ Len(p) = (Len(p) - 1) + 1
    BY <2>1
  <2> QED BY <2>2
<1>3. PICK q \in Seq(GoodMessages) : q = Tail(p)
  <2>1. Tail(p) \in Seq(GoodMessages)
    BY <1>1
  <2> QED BY <2>1
<1>4. DOMAIN q = 1..l /\ DOMAIN p = 1..(l + 1) /\ \A k \in 1..l : q[k] = p[k + 1]
  BY <1>1, <1>2, <1>3
<1>5. \A k \in Nat \ {0} : k \in 1..l <=> k + 1 \in 1..(l + 1)
  OBVIOUS
<1>6. ASSUME NEW k \in Nat \ {0}
      PROVE  /\ Reporting(q, k) <=> Reporting(p, k + 1)
             /\ Reporting(q, k) => q[k] = p[k + 1]
  <2>1. CASE k \in 1..l
    <3>1. k + 1 \in 1..(l + 1) /\ q[k] = p[k + 1]
      BY <1>4, <2>1
    <3> QED BY <1>4, <2>1, <3>1 DEF Reporting
  <2>2. CASE k \notin 1..l
    BY <1>4, <1>5, <2>2 DEF Reporting
  <2> QED BY <2>1, <2>2
<1>7. Taken(q)
  BY <1>1, <1>6, Zenon DEF Taken
<1> QED BY <1>1, <1>3, <1>7

LEMMA TakenAndMore ==
    ASSUME IInv, NEW p \in Seq(GoodMessages), Taken(p), NEW m \in GoodMessages, m.type # "notify"
    PROVE  Taken(p \o <<m>>)
<1>1. PICK q \in Seq(GoodMessages) : q = p \o <<m>>
  <2>1. p \o <<m>> \in Seq(GoodMessages)
    OBVIOUS
  <2> QED BY <2>1
<1>2. PICK l \in Nat : l = Len(p)
  OBVIOUS
<1>3. /\ DOMAIN p = 1..l /\ DOMAIN q = 1..(l + 1)
      /\ q[l + 1] = m /\ \A k \in 1..l : q[k] = p[k]
  BY <1>1, <1>2
<1>4. 1..(l + 1) = 1..l \cup {l + 1} /\ l + 1 \notin 1..l
  OBVIOUS
<1>5. ASSUME NEW k PROVE Reporting(q, k) <=> Reporting(p, k)
  BY <1>3, <1>4 DEF Reporting
<1>6. ASSUME NEW k, Reporting(q, k) PROVE q[k] = p[k]
  BY <1>3, <1>5, <1>6 DEF Reporting
<1>7. ASSUME NEW k \in Nat \ {0}
      PROVE  /\ Reporting(q, k) <=> Reporting(adapterQ, k + 1)
             /\ Reporting(q, k) => q[k] = adapterQ[k + 1]
  BY <1>5, <1>6, TakenAt
<1>8. adapterQ # <<>>
  BY DEF Taken
<1>9. Taken(q)
  BY <1>7, <1>8, Zenon DEF Taken
<1> QED BY <1>1, <1>9

LEMMA TakeNetworks ==
    ASSUME IInv, IInv', NetworksInv, NEW q, adapterQ' = q, Taken(q), up' = up, used' = used, LastIsCached',
           past'.crowded <=> past.crowded, past.odd => past'.odd,
           \A n \in Networks :
               /\ About(adapterQ, n, 1) /\ adapterQ[1].value.connected => Named(n)'
               /\ ~About(adapterQ, n, 1) /\ Named(n) => Named(n)',
           Orderly' => \A n \in Networks :
               /\ About(adapterQ, n, 1) /\ Member(n)' => adapterQ[1].value.connected
               /\ ~About(adapterQ, n, 1) /\ Member(n)' => Member(n),
           Orderly' /\ ~past'.crowded => past'.dropped = {}
    PROVE  NetworksInv'
<1>1. adapterQ \in Seq(GoodMessages) /\ adapterQ # <<>> /\ q \in Seq(GoodMessages)
  BY QueueLemma DEF Taken
<1>2. ASSUME NEW k, Reporting(q, k)
      PROVE  /\ k \in Nat \ {0} /\ k \in DOMAIN q
             /\ k + 1 \in DOMAIN adapterQ /\ Reporting(adapterQ, k + 1) /\ q[k] = adapterQ[k + 1]
  <2>1. k \in DOMAIN q /\ k \in Nat \ {0}
    BY <1>1, <1>2 DEF Reporting
  <2>2. Reporting(adapterQ, k + 1) /\ q[k] = adapterQ[k + 1]
    BY <1>2, <2>1, TakenAt
  <2> QED BY <2>1, <2>2 DEF Reporting
<1>3. EventsOnly'
  BY <1>2 DEF NetworksInv, EventsOnly
<1>4. ASSUME NEW n
      PROVE  \A k \in Nat \ {0} : /\ About(q, n, k) <=> About(adapterQ, n, k + 1)
                                  /\ About(q, n, k) => q[k] = adapterQ[k + 1]
  BY TakenAt DEF About
<1>5. up \subseteq Networks
  BY IInvParts
<1>6. UpFits'
  <2>1. ASSUME NEW n \in up PROVE Becomes(q, n, Named(n)', TRUE)
    <3>1. Becomes(adapterQ, n, Named(n), TRUE)
      BY DEF NetworksInv, UpFits
    <3>2. /\ About(adapterQ, n, 1) /\ (adapterQ[1].value.connected <=> TRUE) => (Named(n)' <=> TRUE)
          /\ ~About(adapterQ, n, 1) /\ (Named(n) <=> TRUE) => (Named(n)' <=> TRUE)
      BY <1>5
    <3> QED BY <1>1, <1>4, <3>1, <3>2, TakenBecomes
  <2> QED BY <2>1 DEF UpFits
<1>7. Orderly' => Orderly
  BY DEF Orderly
<1>8. DownFits'
  <2>1. ASSUME Orderly', NEW n \in Networks \ up PROVE Becomes(q, n, Member(n)', FALSE)
    <3>1. Becomes(adapterQ, n, Member(n), FALSE)
      BY <1>7, <2>1 DEF NetworksInv, DownFits
    <3>2. /\ About(adapterQ, n, 1) /\ (adapterQ[1].value.connected <=> FALSE) => (Member(n)' <=> FALSE)
          /\ ~About(adapterQ, n, 1) /\ (Member(n) <=> FALSE) => (Member(n)' <=> FALSE)
      BY <2>1
    <3> QED BY <1>1, <1>4, <3>1, <3>2, TakenBecomes
  <2> QED BY <2>1 DEF DownFits
<1>9. RoomFits'
  <2>1. ASSUME Orderly', ~past'.crowded, NEW k \in Nat PROVE HasRoom(q, k)'
    <3>1. PICK S \in SUBSET Networks :
              Fits(S) /\ \A n \in Networks : UpAfter(adapterQ, k + 1, n, Member(n)) => n \in S
      BY <1>7, <2>1 DEF NetworksInv, RoomFits, HasRoom
    <3>2. ASSUME NEW n \in Networks, UpAfter(q, k, n, Member(n)') PROVE n \in S
      <4>1. /\ About(adapterQ, n, 1) /\ Member(n)' => adapterQ[1].value.connected
            /\ ~About(adapterQ, n, 1) /\ Member(n)' => Member(n)
        BY <2>1
      <4>2. UpAfter(adapterQ, k + 1, n, Member(n))
        BY <1>1, <1>4, <3>2, <4>1, TakenUpAfter
      <4> QED BY <3>1, <4>2
    <3> QED BY <3>1, <3>2 DEF HasRoom, UpAfter, About, Reporting, Fits
  <2> QED BY <2>1 DEF NetworksInv, RoomFits
<1> QED BY <1>3, <1>6, <1>8, <1>9 DEF NetworksInv

\* Only reports of networks change what is known of them.
LEMMA OtherNetworks ==
    ASSUME IInv, IInv', NetworksInv, Taken(adapterQ'), ~Reporting(adapterQ, 1), reports' = reports,
           cache'[Net] = cache[Net], up' = up, used' = used, past' = past
    PROVE  NetworksInv'
<1>1. LastIsCached'
  BY DEF NetworksInv, LastIsCached
<1>2. \A n : ~About(adapterQ, n, 1) /\ (Member(n)' <=> Member(n)) /\ (Named(n)' <=> Named(n))
  BY DEF About, Member, Named
<1>3. PICK q : q = adapterQ'
  OBVIOUS
<1>4. Taken(q)
  BY <1>3
<1>5. (Orderly' <=> Orderly) /\ (Orderly' /\ ~past'.crowded => past'.dropped = {})
  BY DEF Orderly, NetworksInv, RoomFits
<1> QED BY <1>1, <1>2, <1>3, <1>4, <1>5, TakeNetworks

LEMMA RememberedLast ==
    ASSUME NEW known \in Seq(TableReports), NEW r \in TableReports, IsNews(known, r)
    PROVE  Remember(known, r) # <<>> /\ Last(Remember(known, r)) = r
<1>1. \A s \in Seq(TableReports) : Append(s, r) # <<>> /\ Last(Append(s, r)) = r
  BY DEF Last
<1>2. known # <<>> => Tail(known) \in Seq(TableReports)
  OBVIOUS
<1>3. known = <<>> => Len(known) < MaxItem
  BY NetworkAssumption
<1> QED BY <1>1, <1>2, <1>3 DEF Remember

\* A report of network m leaves what it says of m, if the table has room.
LEMMA NotifyNetworks ==
    ASSUME IInv, IInv', NetworksInv, HandleNotify, Taken(adapterQ')
    PROVE  NetworksInv'
<1>1. PICK i, value : i = Head(adapterQ).item /\ value = Head(adapterQ).value
  OBVIOUS
<1>2. /\ adapterQ \in Seq(GoodMessages) /\ adapterQ # <<>> /\ 1 \in DOMAIN adapterQ
      /\ adapterQ[1] = Head(adapterQ) /\ Head(adapterQ).type = "notify"
  BY QueueLemma DEF HandleNotify, Take
<1>3. /\ up' = up /\ used' = used
      /\ Recorded(i, value) \/ (NotNews(i, value) /\ reports' = reports /\ cache' = cache)
      /\ past' = IF i = Net THEN Noted(value) ELSE past
  BY <1>1 DEF HandleNotify, statusVars
<1>4. CASE i # Net
  <2>1. ~Reporting(adapterQ, 1) /\ i \in AllItems
    <3>1. Head(adapterQ) \in Messages
      BY TakenIsGood DEF HandleNotify
    <3> QED BY <1>1, <1>2, <1>4, <3>1, MessageParts DEF Reporting
  <2>2. reports' = reports /\ cache'[Net] = cache[Net]
    BY <1>3, <1>4, StatusParts DEF Recorded, AllItems
  <2> QED BY <1>3, <1>4, <2>1, <2>2, OtherNetworks
<1>5. CASE i = Net
  <2>1. Reporting(adapterQ, 1) /\ adapterQ[1].value = value
    BY <1>1, <1>2, <1>5 DEF Reporting
  <2>2. PICK m \in Networks, isUp \in BOOLEAN : value = Event(m, isUp)
    BY <1>2, <2>1 DEF NetworksInv, EventsOnly
  <2>3. /\ value \in TableReports /\ value.network = m /\ (value.connected <=> isUp)
        /\ value.mask = {TypeOf[m]} /\ value.table = <<m>>
    BY <2>2, EventIsReport DEF Event
  <2>4. \A n : About(adapterQ, n, 1) <=> n = m
    BY <2>1, <2>3 DEF About
  <2>5. PICK r \in TableReports : r = Collated(reports, value)
    BY <2>3, CollatedIsReport, IInvParts
  <2>6. PICK full \in BOOLEAN : full <=> reports # <<>> /\ isUp /\ IsFull(Last(reports).table, m)
    OBVIOUS
  <2>7. /\ past'.crowded = past.crowded
        /\ past'.odd <=> past.odd \/ (reports = <<>> /\ ~isUp)
        /\ past'.dropped = IF full THEN past.dropped \cup {m} ELSE past.dropped
    <3>1. past \in Pasts /\ past' = Noted(value)
      BY <1>3, <1>5, IInvParts
    <3> QED BY <2>3, <2>6, <3>1 DEF Noted, Pasts
  <2>8. /\ past'.dropped = {} => SoundMask(r)
        /\ \A n \in Networks : n # m => (n \in Members(r.table) <=> Member(n))
        /\ isUp => m \in Members(r.table) \/ full
        /\ ~isUp /\ reports # <<>> => m \notin Members(r.table)
    <3>1. CASE reports = <<>>
      <4>1. r = value
        BY <2>5, <3>1 DEF Collated
      <4>2. Members(r.table) = {m}
        <5>1. PICK t : t = <<m>>
          OBVIOUS
        <5>2. Len(t) = 1 /\ t[1] = m
          BY <5>1
        <5>3. Members(t) = {t[k] : k \in 1..1}
          BY <5>2 DEF Members
        <5> QED BY <2>3, <4>1, <5>1, <5>2, <5>3
      <4>3. SoundMask(r)
        BY <2>3, <4>1, <4>2 DEF SoundMask
      <4> QED BY <3>1, <4>2, <4>3 DEF Member
    <3>2. CASE reports # <<>>
      <4>1. PICK latest \in TableReports : latest = Last(reports)
        BY <3>2, LastIsElement, IInvParts
      <4>2. /\ past.dropped = {} => SoundMask(latest)
            /\ \A n : Member(n) <=> n \in Members(latest.table)
        BY <3>2, <4>1 DEF NetworksInv, LastIsCached, Member
      <4>3. r = Collate(Event(m, isUp), latest)
        BY <2>2, <2>5, <3>2, <4>1 DEF Collated
      <4>4. /\ isUp /\ ~IsFull(latest.table, m) => Members(r.table) = Members(latest.table) \cup {m}
            /\ isUp /\ IsFull(latest.table, m) => r.table = latest.table
            /\ ~isUp => Members(r.table) = Members(latest.table) \ {m}
            /\ SoundMask(latest) /\ ~(isUp /\ IsFull(latest.table, m)) => SoundMask(r)
        BY <4>3, CollatedMembers
      <4>5. full <=> isUp /\ IsFull(latest.table, m)
        BY <2>6, <3>2, <4>1
      <4>6. past'.dropped = {} => ~full /\ past.dropped = {}
        BY <2>7
      <4>7. CASE isUp
        BY <4>2, <4>4, <4>5, <4>6, <4>7
      <4>8. CASE ~isUp
        BY <4>2, <4>4, <4>5, <4>6, <4>8
      <4> QED BY <4>7, <4>8
    <3> QED BY <3>1, <3>2
  <2>9. /\ reports' # <<>> /\ cache'[Net] = Last(reports')
        /\ past'.dropped = {} => SoundMask(Last(reports'))
        /\ Members(Last(reports').table) = Members(r.table)
    <3>1. CASE Recorded(i, value)
      <4>1. /\ IsNews(reports, r) /\ reports' = Remember(reports, r)
            /\ cache' = [cache EXCEPT ![Net] = r]
        BY <1>5, <2>5, <3>1 DEF Recorded
      <4>2. reports' # <<>> /\ Last(reports') = r
        BY <4>1, RememberedLast, IInvParts
      <4>3. cache'[Net] = r
        BY <4>1, StatusParts DEF AllItems
      <4> QED BY <2>8, <4>2, <4>3
    <3>2. CASE NotNews(i, value) /\ reports' = reports /\ cache' = cache
      <4>1. ~IsNews(reports, r)
        BY <1>5, <2>5, <3>2 DEF NotNews
      <4>2. reports # <<>> /\ Last(reports).table = r.table
        BY <4>1 DEF IsNews, Same
      <4>3. past'.dropped = {} => past.dropped = {}
        BY <2>7
      <4> QED BY <3>2, <4>2, <4>3 DEF NetworksInv, LastIsCached
    <3> QED BY <1>3, <3>1, <3>2
  <2>10. LastIsCached'
    BY <2>9 DEF LastIsCached
  <2>11. \A n : Member(n)' <=> n \in Members(r.table)
    BY <2>9 DEF Member
  <2>12. ASSUME NEW n \in Networks
         PROVE  /\ About(adapterQ, n, 1) /\ adapterQ[1].value.connected => Named(n)'
                /\ ~About(adapterQ, n, 1) /\ Named(n) => Named(n)'
    <3>1. Named(n)' <=> n \in Members(r.table) \/ n \in past'.dropped
      BY <2>11 DEF Named
    <3>2. CASE n = m
      BY <2>1, <2>3, <2>4, <2>7, <2>8, <3>1, <3>2
    <3>3. CASE n # m
      BY <2>4, <2>7, <2>8, <3>1, <3>3 DEF Named
    <3> QED BY <3>2, <3>3
  <2>13. ASSUME Orderly', NEW n \in Networks
         PROVE  /\ About(adapterQ, n, 1) /\ Member(n)' => adapterQ[1].value.connected
                /\ ~About(adapterQ, n, 1) /\ Member(n)' => Member(n)
    <3>1. reports = <<>> => isUp
      BY <2>7, <2>13 DEF Orderly
    <3>2. CASE n = m
      BY <2>1, <2>3, <2>4, <2>8, <2>11, <3>1, <3>2
    <3>3. CASE n # m
      BY <2>4, <2>8, <2>11, <3>3
    <3> QED BY <3>2, <3>3
  <2>14. ASSUME Orderly', ~past'.crowded PROVE past'.dropped = {}
    <3>1. Orderly /\ ~past.crowded
      BY <1>3, <2>7, <2>14 DEF Orderly
    <3>2. past.dropped = {} /\ HasRoom(adapterQ, 1)
      BY <3>1 DEF NetworksInv, RoomFits
    <3>3. PICK S \in SUBSET Networks :
              Fits(S) /\ \A n \in Networks : UpAfter(adapterQ, 1, n, Member(n)) => n \in S
      BY <3>2 DEF HasRoom
    <3>4. ASSUME full PROVE FALSE
      <4>1. reports # <<>> /\ isUp /\ IsFull(Last(reports).table, m)
        BY <2>6, <3>4
      <4>2. PICK latest \in TableReports : latest = Last(reports)
        BY <4>1, LastIsElement, IInvParts
      <4>3. latest.table \in Seq(Networks) /\ IsTable(latest.table)
        BY <4>2 DEF TableReports, Reports
      <4>4. UpAfter(adapterQ, 1, m, Member(m))
        BY <2>1, <2>3, <2>4, <4>1 DEF UpAfter
      <4>5. ASSUME NEW n \in Members(latest.table), n # m PROVE n \in S
        <5>1. Member(n) /\ n \in Networks
          BY <4>1, <4>2, <4>3 DEF Member, Members
        <5>2. \A k \in 1..1 : ~About(adapterQ, n, k)
          BY <2>4, <4>5
        <5> QED BY <3>3, <5>1, <5>2 DEF UpAfter
      <4>6. Members(latest.table) \cup {m} \subseteq S
        BY <3>3, <4>4, <4>5
      <4> QED BY <3>3, <4>1, <4>2, <4>3, <4>6, RoomLeft
    <3> QED BY <2>7, <3>2, <3>4
  <2>15. PICK q : q = adapterQ' /\ Taken(q)
    OBVIOUS
  <2>16. (past'.crowded <=> past.crowded) /\ (past.odd => past'.odd)
    BY <2>7
  <2> QED BY <1>3, <2>10, <2>12, <2>13, <2>14, <2>15, <2>16, TakeNetworks
<1> QED BY <1>4, <1>5

\* sendCachedDataItems posts nothing but what Xtra is to hear.
LEMMA TellTakes ==
    ASSUME IInv, adapterQ # <<>>, NEW said \in [AllClients -> [AllItems -> Said]], Tell(said)
    PROVE  Taken(adapterQ')
<1>1. PICK p \in Seq(GoodMessages) : p = Tail(adapterQ)
  <2>1. Tail(adapterQ) \in Seq(GoodMessages)
    BY GoodParts, QueueLemma
  <2> QED BY <2>1
<1>2. Taken(p)
  BY <1>1, TailIsTaken
<1>3. CASE said[Xtra] = Nothing
  <2>1. adapterQ' = p \o <<>>
    BY <1>1, <1>3 DEF Tell
  <2>2. adapterQ' = p
    BY <2>1
  <2> QED BY <1>2, <2>2
<1>4. CASE said[Xtra] # Nothing
  <2>1. said[Xtra] \in [AllItems -> Said]
    BY DEF AllClients
  <2>2. PICK m : m = [type |-> "xtraHears", said |-> said[Xtra]]
    OBVIOUS
  <2>3. m \in GoodMessages /\ m.type # "notify"
    BY <2>1, <2>2 DEF GoodMessages, Messages, Carries
  <2>4. adapterQ' = p \o <<m>>
    BY <1>1, <1>4, <2>2 DEF Tell
  <2>5. Taken(p \o <<m>>)
    BY <1>2, <2>3, TakenAndMore
  <2> QED BY <2>4, <2>5
<1> QED BY <1>3, <1>4

LEMMA HandlersTake ==
    ASSUME IInv, \/ HandleSubscribe \/ HandleUnsubscribe \/ HandleSetObj
                 \/ HandleNotify \/ XtraHears \/ StatusRequested
    PROVE  Taken(adapterQ')
<1>1. adapterQ # <<>>
  BY DEF HandleSubscribe, HandleUnsubscribe, HandleSetObj, HandleNotify, XtraHears,
         StatusRequested, Take
<1>2. ASSUME adapterQ' = Tail(adapterQ) PROVE Taken(adapterQ')
  BY <1>1, <1>2, TailIsTaken
<1>3. CASE HandleSubscribe
  <2>1. PICK m : m = Head(adapterQ) /\ TellOnly(m.client, FirstResponse(m))
    BY <1>3 DEF HandleSubscribe
  <2>2. FirstResponse(m) \in [AllItems -> Said]
    BY StatusParts, CachedIsSaid DEF FirstResponse
  <2>3. PICK said : said = [c \in AllClients |-> IF c = m.client THEN FirstResponse(m) ELSE Nothing]
    OBVIOUS
  <2>4. said \in [AllClients -> [AllItems -> Said]] /\ Tell(said)
    BY <2>1, <2>2, <2>3, NothingIsSaid DEF TellOnly
  <2> QED BY <1>1, <2>4, TellTakes
<1>4. CASE HandleNotify
  <2>1. CASE adapterQ' = Tail(adapterQ)
    BY <1>2, <2>1
  <2>2. CASE adapterQ' # Tail(adapterQ)
    <3>1. PICK i : i = Head(adapterQ).item
      OBVIOUS
    <3>2. PICK said : said = [c \in AllClients |->
                           IF c \in itemClients[i] THEN Cached(cache', clientItems[c] \cap {i})
                           ELSE Nothing]
      OBVIOUS
    <3>3. Tell(said)
      BY <1>4, <2>2, <3>1, <3>2 DEF HandleNotify
    <3>4. cache' \in [AllItems -> Said]
      <4>1. IInv'
        BY <1>4, NotifyKeeps
      <4> QED BY <4>1 DEF IInv, TypeOK
    <3>5. \A items : Cached(cache', items) \in [AllItems -> Said]
      BY <3>4, CachedIsSaid
    <3>6. said \in [AllClients -> [AllItems -> Said]]
      BY <3>2, <3>5, NothingIsSaid
    <3> QED BY <1>1, <3>3, <3>6, TellTakes
  <2> QED BY <2>1, <2>2
<1> QED BY <1>2, <1>3, <1>4 DEF HandleUnsubscribe, HandleSetObj, XtraHears, StatusRequested

LEMMA NetworksStep ==
    ASSUME IInv, NetworksInv, [Next]_vars
    PROVE  NetworksInv'
<1>0. IInv'
  BY NextKeepsIInv
<1>1. ASSUME NEW m \in GoodMessages, Post(m), m.type # "notify" \/ m.item # Net, up' = up, past' = past,
             \/ used' = used
             \/ used' = [used EXCEPT !.calls = @ + 1]
             \/ used' = [used EXCEPT !.news = @ + 1]
      PROVE  NetworksInv'
  <2>1. used'.restarts = used.restarts
    BY <1>1, IInvParts
  <2> QED BY <1>1, <2>1, PostNetworks
<1>2. CASE ClientCall
  <2>1. PICK c \in AllClients, type \in Requests, items \in SUBSET AllItems : Call(type, c, items)
    <3>1. Lists \subseteq SUBSET AllItems
      BY OsObserverAssumption DEF AllItems
    <3> QED BY <1>2, <3>1 DEF ClientCall, Requests
  <2>2. PICK m : m = [type |-> type, client |-> c, items |-> items]
    OBVIOUS
  <2>3. m \in GoodMessages /\ m.type # "notify"
    BY <2>2 DEF GoodMessages, Messages, Carries, Requests
  <2> QED BY <1>1, <2>1, <2>2, <2>3 DEF Call
<1>3. CASE SetSubscriptionObj
  <2>1. PICK m : m = [type |-> "setObj"]
    OBVIOUS
  <2>2. m \in GoodMessages /\ m.type # "notify"
    BY <2>1 DEF GoodMessages, Messages, Carries
  <2> QED BY <1>1, <1>3, <2>1, <2>2 DEF SetSubscriptionObj
<1>4. CASE ReportItem
  <2>1. PICK i \in Items, v \in Values : Post([type |-> "notify", item |-> i, value |-> v])
    BY <1>4 DEF ReportItem
  <2>2. PICK m : m = [type |-> "notify", item |-> i, value |-> v]
    OBVIOUS
  <2>3. m \in GoodMessages /\ m.item # Net
    BY <2>2, OsObserverAssumption DEF GoodMessages, Messages, Carries, AllItems, Said
  <2> QED BY <1>1, <1>4, <2>1, <2>2, <2>3 DEF ReportItem
<1>5. CASE RequestStatus
  <2>1. PICK updated \in BOOLEAN : Post([type |-> "statusRequest", updated |-> updated])
    BY <1>5 DEF RequestStatus
  <2>2. PICK m : m = [type |-> "statusRequest", updated |-> updated]
    OBVIOUS
  <2>3. m \in GoodMessages /\ m.type # "notify"
    BY <2>2 DEF GoodMessages, Messages, Carries
  <2> QED BY <1>1, <1>5, <2>1, <2>2, <2>3 DEF RequestStatus
<1>6. CASE DaemonRestarts \/ UNCHANGED vars
  <2>1. UNCHANGED <<cache, reports, adapterQ, up, past>>
    BY <1>6 DEF DaemonRestarts, vars, statusVars
  <2>2. Orderly' => Orderly
    <3>1. used'.restarts = 0 => used.restarts = 0
      BY <1>6, IInvParts DEF DaemonRestarts, vars
    <3> QED BY <2>1, <3>1 DEF Orderly
  <2>3. \A n : (Member(n)' <=> Member(n)) /\ (Named(n)' <=> Named(n))
    BY <2>1 DEF Member, Named
  <2>4. LastIsCached' /\ EventsOnly'
    BY <2>1 DEF NetworksInv, LastIsCached, EventsOnly, Reporting
  <2>5. UpFits' /\ DownFits'
    BY <2>1, <2>2, <2>3 DEF NetworksInv, UpFits, DownFits, Becomes, About, Reporting
  <2>6. RoomFits'
    BY <2>1, <2>2, <2>3 DEF NetworksInv, RoomFits, HasRoom, UpAfter, About, Reporting, Fits
  <2> QED BY <2>4, <2>5, <2>6 DEF NetworksInv
<1>7. CASE HandleSubscribe \/ HandleUnsubscribe \/ HandleSetObj \/ XtraHears \/ StatusRequested
  <2>1. PICK type : Take(type) /\ type # "notify"
    BY <1>7 DEF HandleSubscribe, HandleUnsubscribe, HandleSetObj, XtraHears, StatusRequested
  <2>2. ~Reporting(adapterQ, 1)
    BY <2>1, QueueLemma DEF Take, Reporting
  <2>3. UNCHANGED <<cache, reports, up, used, past>>
    BY <1>7 DEF HandleSubscribe, HandleUnsubscribe, HandleSetObj, XtraHears, StatusRequested, statusVars
  <2> QED BY <1>0, <1>7, <2>2, <2>3, HandlersTake, OtherNetworks
<1>8. CASE HandleNotify
  BY <1>0, <1>8, HandlersTake, NotifyNetworks
<1> QED BY <1>2, <1>3, <1>4, <1>5, <1>6, <1>7, <1>8, ConnectionNetworks, ResetNetworks DEF Next

\* What clients hear of the networks is true, whatever the order of the events, however
\* many networks there ever were, however many of the reports are forgotten, and whether
\* or not the framework dies: as long as the table dropped none, the mask claims no type
\* of which no network is in it; at rest the table holds all that is up but what it
\* dropped, and nothing else unless the framework died or the first report was odd; and
\* but for these two it drops none if those up at once fit
\* (SystemStatusNetworkInfo::collate, setIteminReport, resetNetworkInfo).
THEOREM NetworksCurrent == Spec => []NetworksAreCurrent
<1>1. Init => NetworksInv
  <2> SUFFICES ASSUME Init PROVE NetworksInv
    OBVIOUS
  <2>1. /\ reports = <<>> /\ adapterQ = <<>> /\ DOMAIN adapterQ = {} /\ up = {}
        /\ cache[Net] = None /\ past.dropped = {} /\ used.restarts = 0
    BY DEF Init, Nothing, AllItems
  <2>2. IsFiniteSet({}) /\ Cardinality({}) = 0
    BY FS_EmptySet
  <2>3. \A n : ~Member(n) /\ Becomes(adapterQ, n, Member(n), FALSE)
    BY <2>1 DEF Member, Becomes
  <2>4. ASSUME NEW k \in Nat PROVE HasRoom(adapterQ, k)
    <3>1. \A n : ~UpAfter(adapterQ, k, n, Member(n))
      BY <2>1, <2>3 DEF UpAfter, About, Reporting
    <3> QED BY <2>2, <3>1, NetworkAssumption DEF HasRoom, Fits
  <2>5. RoomFits
    BY <2>1, <2>2, <2>4, NetworkAssumption DEF RoomFits
  <2> QED BY <2>1, <2>3, <2>5 DEF NetworksInv, LastIsCached, EventsOnly, Reporting, UpFits, DownFits
<1>2. IInv /\ NetworksInv /\ [Next]_vars => NetworksInv'
  BY NetworksStep
<1>3. IInv /\ NetworksInv => NetworksAreCurrent
  <2> SUFFICES ASSUME IInv, NetworksInv PROVE NetworksAreCurrent
    OBVIOUS
  <2>1. TableHasRoom
    BY DEF NetworksInv, RoomFits, Orderly, TableHasRoom
  <2>2. ASSUME cache[Net] # None
        PROVE  (past.dropped = {} => MaskIsSound) /\ (AtRest => TableIsCurrent)
    <3>1. /\ reports # <<>> /\ cache[Net] = Last(reports)
          /\ past.dropped = {} => SoundMask(Last(reports))
      BY <2>2 DEF NetworksInv, LastIsCached
    <3>2. \A n : Member(n) <=> n \in Members(cache[Net].table)
      BY <3>1 DEF Member
    <3>3. past.dropped = {} => MaskIsSound
      BY <3>1 DEF MaskIsSound, SoundMask
    <3>4. ASSUME AtRest PROVE TableIsCurrent
      <4>1. \A n, known, value : Becomes(adapterQ, n, known, value) => (known <=> value)
        BY <3>4 DEF AtRest, Becomes
      <4>2. up \subseteq Members(cache[Net].table) \cup past.dropped
        <5>1. ASSUME NEW n \in up PROVE Named(n)
          <6>1. Becomes(adapterQ, n, Named(n), TRUE)
            BY DEF NetworksInv, UpFits
          <6>2. PICK named \in BOOLEAN : named <=> Named(n)
            OBVIOUS
          <6>3. Becomes(adapterQ, n, named, TRUE)
            BY <6>1, <6>2 DEF Becomes
          <6>4. named <=> TRUE
            BY <4>1, <6>3, Zenon
          <6> QED BY <6>2, <6>4
        <5> QED BY <3>2, <5>1 DEF Named
      <4>3. Members(cache[Net].table) \subseteq Networks
        <5>1. PICK latest \in TableReports : latest = Last(reports)
          BY <3>1, LastIsElement, IInvParts
        <5>2. latest.table \in Seq(Networks)
          BY <5>1 DEF TableReports, Reports
        <5>3. \A k \in 1..Len(latest.table) : latest.table[k] \in Networks
          BY <5>2
        <5> QED BY <3>1, <5>1, <5>3 DEF Members
      <4>4. Orderly => Members(cache[Net].table) \subseteq up
        BY <3>2, <4>1, <4>3 DEF NetworksInv, DownFits
      <4> QED BY <4>2, <4>4 DEF TableIsCurrent, Orderly
    <3> QED BY <3>3, <3>4
  <2> QED BY <2>1, <2>2 DEF NetworksAreCurrent
<1> QED BY <1>1, <1>2, <1>3, InitIInv, NextKeepsIInv, PTL DEF Spec
=============================================================================
