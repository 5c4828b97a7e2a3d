------------------------- MODULE Reporting_proofs -------------------------
(***************************************************************************)
(* Proofs about what becomes of the engine's reports.                      *)
(*                                                                         *)
(* First Reports: its variables keep their types, the adapter asks for     *)
(* exactly the events its clients need, the engine is opened with what was *)
(* asked for last, clients know the newest system information, and         *)
(* satellites are marked by the newest fix.                                *)
(*                                                                         *)
(* Then Nmea, for every report of satellites, however long: how they are   *)
(* spread over the GSV sentences, by what is said of the groups that are   *)
(* done with (SvInv) and of the numbers that were given (NameInv); and,    *)
(* about the sentences of a position alone, that the time they show never  *)
(* stops or goes back and that they agree with each other.                 *)
(***************************************************************************)
EXTENDS Reports, Nmea, FiniteSetTheorems, TLAPS

\* What clients, the engine and the hub hand over is of the declared kinds.
ConstantsFit ==
    /\ CallbackSets \subseteq SUBSET Kinds /\ FixKinds \subseteq Fixes
    /\ NmeaByModem \in BOOLEAN

ApiMessages == [op : {"open"}, first : BOOLEAN] \cup [op : {"ssr"}]

-----------------------------------------------------------------------------
(* Queues                                                                   *)

LEMMA Shortened ==
    ASSUME NEW S, NEW q \in Seq(S), q # <<>>
    PROVE  /\ Head(q) \in S /\ Head(q) = q[1]
           /\ Tail(q) \in Seq(S) /\ Len(Tail(q)) = Len(q) - 1
           /\ \A i \in 1..(Len(q) - 1) : Tail(q)[i] = q[i + 1]
OBVIOUS

LEMMA Appended ==
    ASSUME NEW S, NEW q \in Seq(S), NEW e \in S
    PROVE  /\ Append(q, e) \in Seq(S) /\ Len(Append(q, e)) = Len(q) + 1
           /\ \A i \in 1..Len(q) : Append(q, e)[i] = q[i]
           /\ Append(q, e)[Len(q) + 1] = e
           /\ Append(q, e) # <<>>
OBVIOUS

LEMMA FieldsOfMessages ==
    ASSUME NEW m \in AdapterMessages
    PROVE  /\ m.type = "add" => m.client \in Clients /\ m.callbacks \in SUBSET Kinds
           /\ m.type = "remove" => m.client \in Clients
           /\ m.type = "session" => m.client \in Clients /\ m.on \in BOOLEAN
           /\ m.type = "init" => m.service \in Services
           /\ m.type \in ReportTypes => m.n \in Nat /\ m.n > 0
           /\ m.type = "system" => m.pieces \in SUBSET Pieces
BY DEF AdapterMessages, ReportTypes

-----------------------------------------------------------------------------
(* Types                                                                    *)

LEMMA EventsOfKinds ==
    ASSUME NEW k \in Kinds
    PROVE  EventsOf(k) \subseteq Events
<1>1. {"position"} \subseteq Events /\ {"sv"} \subseteq Events /\ {"nmea"} \subseteq Events
      /\ {"meas"} \subseteq Events /\ {"position", "nmea"} \subseteq Events
  BY DEF Events, HubEvents
<1> QED BY <1>1 DEF EventsOf, Kinds

LEMMA MaskIsEvents ==
    ASSUME NEW data \in [Clients -> SUBSET Kinds], services \subseteq Services,
           evtMask \subseteq Events
    PROVE  ClientsEventMask(data) \subseteq Events
<1>1. KindsIn(data) \subseteq Kinds
  BY DEF KindsIn
<1>2. \A k \in KindsIn(data) : EventsOf(k) \subseteq Events
  BY <1>1, EventsOfKinds
<1>3. UNION {EventsOf(k) : k \in KindsIn(data)} \subseteq Events
  BY <1>2
<1> QED BY <1>3 DEF ClientsEventMask, Events, Always, HubEvents

LEMMA Asking ==
    ASSUME TypeOK, NEW mask \in SUBSET Events, AskFor(mask)
    PROVE  /\ evtMask' \subseteq Events
           /\ apiQ' \in Seq(ApiMessages) /\ apiQ' # <<>>
<1>1. [op |-> "open", first |-> FALSE] \in ApiMessages
  BY DEF ApiMessages
<1>2. apiQ \in Seq(ApiMessages)
  BY DEF TypeOK, ApiMessages
<1>3. evtMask' = mask /\ apiQ' = Append(apiQ, [op |-> "open", first |-> FALSE])
  BY DEF AskFor
<1> QED BY <1>1, <1>2, <1>3, Appended

LEMMA Handling ==
    ASSUME TypeOK, Handled, adapterQ # <<>>
    PROVE  /\ Message \in AdapterMessages
           /\ adapterQ' \in Seq(AdapterMessages)
           /\ engine'.up \in BOOLEAN /\ made' \in Nat /\ hub' = hub
<1>1. adapterQ \in Seq(AdapterMessages)
  BY DEF TypeOK
<1>2. Head(adapterQ) \in AdapterMessages /\ Tail(adapterQ) \in Seq(AdapterMessages)
  BY <1>1, Shortened
<1> QED BY <1>2 DEF TypeOK, Handled, Message

LEMMA Posting ==
    ASSUME TypeOK, NEW m \in AdapterMessages, Post(m)
    PROVE  adapterQ' \in Seq(AdapterMessages)
BY Appended DEF TypeOK, Post

LEMMA Giving ==
    ASSUME TypeOK, NEW n \in Nat, NEW kinds, Give(n, kinds)
    PROVE  received' \in [Clients -> [Kinds -> Nat]]
BY DEF TypeOK, Give

LEMMA KeepingSvs ==
    ASSUME TypeOK, NEW fix, fix.n \in Nat, KeepSvsUsed(fix)
    PROVE  svUsed' \in Nat /\ mbUsed' \in Nat
BY DEF TypeOK, KeepSvsUsed

LEMMA TypeInit == Init => TypeOK
<1> SUFFICES ASSUME Init PROVE TypeOK
  OBVIOUS
<1>1. apiQ \in Seq([op : {"open"}, first : BOOLEAN] \cup [op : {"ssr"}])
  BY DEF Init
<1>2. adapterQ \in Seq(AdapterMessages)
  BY DEF Init
<1>3. Nothing \in [Pieces -> Nat]
  BY DEF Nothing
<1>4. evtMask \subseteq Events /\ engine.up \in BOOLEAN
      /\ hub \in [wants : {"nothing", "more", "less"}, mask : SUBSET Events]
      /\ hub.wants = "nothing"
  BY DEF Init
<1> QED BY <1>1, <1>2, <1>3, <1>4 DEF Init, TypeOK

LEMMA CommandKeepsTypes ==
    ASSUME ConstantsFit, TypeOK, Command
    PROVE  TypeOK'
<1>1. CASE Call /\ UNCHANGED <<hub, apiQ>> /\ adapterQ' \in Seq(AdapterMessages)
  BY <1>1 DEF TypeOK, Call, clientVars, infoVars, fixVars
<1>2. ASSUME NEW m \in AdapterMessages, AdapterCommand(m) PROVE TypeOK'
  BY <1>1, <1>2, Posting DEF AdapterCommand
<1>3. CASE AddClientCommand
  <2>1. PICK c \in Clients, cbs \in CallbackSets :
          AdapterCommand([type |-> "add", client |-> c, callbacks |-> cbs])
    BY <1>3 DEF AddClientCommand
  <2>2. [type |-> "add", client |-> c, callbacks |-> cbs] \in AdapterMessages
    BY DEF AdapterMessages, ConstantsFit
  <2> QED BY <1>2, <2>1, <2>2
<1>4. CASE RemoveClientCommand
  <2>1. PICK c \in Clients : AdapterCommand([type |-> "remove", client |-> c])
    BY <1>4 DEF RemoveClientCommand
  <2>2. [type |-> "remove", client |-> c] \in AdapterMessages
    BY DEF AdapterMessages
  <2> QED BY <1>2, <2>1, <2>2
<1>5. CASE SessionCommand
  <2>1. PICK c \in Clients, b \in BOOLEAN :
          AdapterCommand([type |-> "session", client |-> c, on |-> b])
    BY <1>5 DEF SessionCommand
  <2>2. [type |-> "session", client |-> c, on |-> b] \in AdapterMessages
    BY DEF AdapterMessages
  <2> QED BY <1>2, <2>1, <2>2
<1>6. CASE InitCommand
  <2>1. PICK s \in Services : AdapterCommand([type |-> "init", service |-> s])
    BY <1>6 DEF InitCommand
  <2>2. [type |-> "init", service |-> s] \in AdapterMessages
    BY DEF AdapterMessages
  <2> QED BY <1>2, <2>1, <2>2
<1>8. CASE OthersUpdateEvtMask
  <2>1. Call /\ apiQ' = Append(apiQ, [op |-> "open", first |-> FALSE])
        /\ UNCHANGED <<hub, adapterQ>>
    BY <1>8 DEF OthersUpdateEvtMask
  <2>2. [op |-> "open", first |-> FALSE] \in ApiMessages
    BY DEF ApiMessages
  <2>3. apiQ' \in Seq(ApiMessages)
    BY <2>1, <2>2, Appended DEF TypeOK, ApiMessages
  <2> QED BY <2>1, <2>3 DEF TypeOK, Call, ApiMessages, clientVars, infoVars, fixVars
<1> QED BY <1>3, <1>4, <1>5, <1>6, <1>8 DEF Command

LEMMA AdapterKeepsTypes ==
    ASSUME TypeOK, AdapterThread
    PROVE  TypeOK'
<1> DEFINE m == Message
           Rest == /\ engine'.up \in BOOLEAN /\ made' \in Nat /\ hub' = hub
                   /\ adapterQ' \in Seq(AdapterMessages)
<1>0. ASSUME NEW t, Receive(t), Handled
      PROVE  m \in AdapterMessages /\ m.type = t /\ Rest
  BY <1>0, Handling DEF Receive, Message
<1>1. CASE AddClient
  <2>1. m.client \in Clients /\ m.callbacks \in SUBSET Kinds /\ Rest
    BY <1>0, <1>1, FieldsOfMessages DEF AddClient
  <2>2. clientData' \in [Clients -> SUBSET Kinds] /\ told' \in [Clients -> [Pieces -> Nat]]
    BY <1>1, <2>1 DEF AddClient, TypeOK, ToldOnAdding
  <2>3. ClientsEventMask(clientData') \subseteq Events
    BY <2>2, MaskIsEvents DEF TypeOK
  <2>4. AskFor(ClientsEventMask(clientData')) /\ UNCHANGED <<sessions, nmeaMask, services,
                                                            sysInfo, fixVars>>
    BY <1>1 DEF AddClient
  <2>5. evtMask' \subseteq Events /\ apiQ' \in Seq(ApiMessages)
    BY <2>3, <2>4, Asking
  <2> QED BY <2>1, <2>2, <2>4, <2>5 DEF TypeOK, fixVars, ApiMessages
<1>2. CASE RemoveClient
  <2>1. m.client \in Clients /\ Rest
    BY <1>0, <1>2, FieldsOfMessages DEF RemoveClient
  <2>2. clientData' \in [Clients -> SUBSET Kinds] /\ sessions' \subseteq Clients
    BY <1>2, <2>1 DEF RemoveClient, TypeOK
  <2>3. ClientsEventMask(clientData') \subseteq Events
    BY <2>2, MaskIsEvents DEF TypeOK
  <2>4. AskFor(ClientsEventMask(clientData')) /\ UNCHANGED <<nmeaMask, services, infoVars,
                                                            fixVars>>
    BY <1>2 DEF RemoveClient
  <2>5. evtMask' \subseteq Events /\ apiQ' \in Seq(ApiMessages)
    BY <2>3, <2>4, Asking
  <2> QED BY <2>1, <2>2, <2>4, <2>5 DEF TypeOK, infoVars, fixVars, ApiMessages
<1>3. CASE Session
  <2>1. m.client \in Clients /\ Rest
    BY <1>0, <1>3, FieldsOfMessages DEF Session
  <2>2. sessions' \subseteq Clients
    BY <1>3, <2>1 DEF Session, TypeOK
  <2> QED BY <1>3, <2>1, <2>2 DEF Session, TypeOK, infoVars, fixVars
<1>4. CASE InitService
  <2>1. m.service \in Services /\ Rest
    BY <1>0, <1>4, FieldsOfMessages DEF InitService
  <2>2. services' \subseteq Services /\ evtMask \cup {m.service} \subseteq Events
    BY <1>4, <2>1 DEF InitService, TypeOK, Events
  <2>3. AskFor(evtMask \cup {m.service})
        /\ UNCHANGED <<clientData, sessions, nmeaMask, infoVars, fixVars>>
    BY <1>4 DEF InitService
  <2>4. evtMask' \subseteq Events /\ apiQ' \in Seq(ApiMessages)
    BY <2>2, <2>3, Asking
  <2> QED BY <2>1, <2>2, <2>3, <2>4 DEF TypeOK, infoVars, fixVars, ApiMessages
<1>6. CASE HandleEngineUp
  <2>1. Rest /\ UNCHANGED <<clientData, sessions, services, infoVars, fixVars>>
        /\ nmeaMask' = NmeaByModem
    BY <1>0, <1>6 DEF HandleEngineUp
  <2>2. AskFor(evtMask \cup {"nmea"}) \/ UNCHANGED <<evtMask, apiQ>>
    BY <1>6 DEF HandleEngineUp
  <2>3. evtMask \cup {"nmea"} \subseteq Events
    BY DEF TypeOK, Events
  <2>4. evtMask' \subseteq Events /\ apiQ' \in Seq(ApiMessages)
    BY <2>2, <2>3, Asking DEF TypeOK, ApiMessages
  <2> QED BY <2>1, <2>4 DEF TypeOK, infoVars, fixVars, ApiMessages
<1>7. ASSUME Rest, Reported, UNCHANGED infoVars, svUsed' \in Nat, mbUsed' \in Nat,
             received' \in [Clients -> [Kinds -> Nat]]
      PROVE  TypeOK'
  BY <1>7 DEF TypeOK, Reported, clientVars, infoVars
<1>8. CASE Position
  <2>1. Rest /\ Message.n \in Nat /\ Reported /\ UNCHANGED infoVars
    BY <1>0, <1>8, FieldsOfMessages DEF Position, Reported, ReportTypes
  <2>2. CASE sessions = {} \/ Message.unpropagated
    BY <1>7, <1>8, <2>1, <2>2 DEF Position, fixVars, TypeOK
  <2>3. CASE ~(sessions = {} \/ Message.unpropagated)
    <3>1. \E kinds : Give(Message.n, kinds)
      BY <1>8, <2>3 DEF Position
    <3>2. UNCHANGED <<svUsed, mbUsed>> \/ KeepSvsUsed(Message)
      BY <1>8, <2>3 DEF Position
    <3>3. received' \in [Clients -> [Kinds -> Nat]]
      BY <2>1, <3>1, Giving
    <3>4. svUsed' \in Nat /\ mbUsed' \in Nat
      BY <2>1, <3>2, KeepingSvs DEF TypeOK
    <3> QED BY <1>7, <2>1, <3>3, <3>4
  <2> QED BY <2>2, <2>3
<1>9. CASE EnginePositions
  <2>1. Rest /\ Message.n \in Nat /\ Reported /\ UNCHANGED infoVars
    BY <1>0, <1>9, FieldsOfMessages DEF EnginePositions, Reported, ReportTypes
  <2>2. \E kinds : Give(Message.n, kinds)
    BY <1>9 DEF EnginePositions
  <2>3. UNCHANGED <<svUsed, mbUsed>> \/ KeepSvsUsed(Message)
    BY <1>9 DEF EnginePositions
  <2>4. received' \in [Clients -> [Kinds -> Nat]]
    BY <2>1, <2>2, Giving
  <2>5. svUsed' \in Nat /\ mbUsed' \in Nat
    BY <2>1, <2>3, KeepingSvs DEF TypeOK
  <2> QED BY <1>7, <2>1, <2>4, <2>5
<1>10. CASE Sv
  <2>1. Rest /\ Message.n \in Nat /\ Reported /\ UNCHANGED infoVars
    BY <1>0, <1>10, FieldsOfMessages DEF Sv, Reported, ReportTypes
  <2>2. received' \in [Clients -> [Kinds -> Nat]]
    BY <1>10, <2>1, Giving DEF Sv, GiveTo
  <2> QED BY <1>7, <1>10, <2>1, <2>2 DEF Sv
<1>11. CASE Forward
  <2>1. PICK k \in {"nmea", "data", "meas"} : Receive(k) /\ GiveTo(k)
    BY <1>11 DEF Forward
  <2>2. Rest /\ Message.n \in Nat /\ Reported /\ UNCHANGED infoVars
        /\ UNCHANGED <<svUsed, mbUsed>>
    BY <1>0, <1>11, <2>1, FieldsOfMessages DEF Forward, Reported, ReportTypes
  <2>3. received' \in [Clients -> [Kinds -> Nat]]
    BY <2>1, <2>2, Giving DEF GiveTo
  <2> QED BY <1>7, <2>2, <2>3 DEF TypeOK
<1>12. CASE SystemInfo
  <2>1. Rest /\ Message.n \in Nat /\ Reported /\ UNCHANGED <<svUsed, mbUsed>>
    BY <1>0, <1>12, FieldsOfMessages DEF SystemInfo, Reported, ReportTypes
  <2>2. received' \in [Clients -> [Kinds -> Nat]]
    BY <1>12, <2>1, Giving DEF SystemInfo, GiveTo
  <2>3. sysInfo' \in [Pieces -> Nat] /\ told' \in [Clients -> [Pieces -> Nat]]
    BY <1>12, <2>1 DEF SystemInfo, TypeOK
  <2> QED BY <2>1, <2>2, <2>3 DEF TypeOK, Reported, clientVars
<1> QED BY <1>1, <1>2, <1>3, <1>4, <1>6, <1>8, <1>9, <1>10, <1>11, <1>12 DEF AdapterThread

LEMMA ApiKeepsTypes ==
    ASSUME TypeOK, ApiThread
    PROVE  TypeOK'
<1>1. apiQ \in Seq(ApiMessages)
  BY DEF TypeOK, ApiMessages
<1>2. apiQ # <<>> /\ apiQ' = Tail(apiQ)
  BY DEF ApiThread, Open, OpenFails, Restart, Opened, Serve
<1>3. apiQ' \in Seq(ApiMessages)
  BY <1>1, <1>2, Shortened
<1>4. adapterQ' \in Seq(AdapterMessages)
  <2>1. [type |-> "engineUp"] \in AdapterMessages
    BY DEF AdapterMessages
  <2>2. CASE Post([type |-> "engineUp"])
    BY <2>1, <2>2, Posting
  <2>3. CASE UNCHANGED adapterQ
    BY <2>3 DEF TypeOK
  <2> QED BY <2>2, <2>3 DEF ApiThread, Open, OpenFails, Restart
<1>5. engine'.up \in BOOLEAN
  <2>1. CASE Opened
    <3>1. engine'.up = TRUE
      BY <2>1 DEF Opened
    <3> QED BY <3>1
  <2>2. CASE UNCHANGED engine
    BY <2>2 DEF TypeOK
  <2> QED BY <2>1, <2>2 DEF ApiThread, Open, OpenFails, Restart
<1>6. UNCHANGED <<clientVars, hub, infoVars, fixVars, made>>
  BY DEF ApiThread, Open, OpenFails, Restart, Opened
<1> QED BY <1>3, <1>4, <1>5, <1>6 DEF TypeOK, ApiMessages, clientVars, infoVars, fixVars

LEMMA FixesArePosted ==
    ASSUME ConstantsFit, TypeOK, NEW t \in {"position", "enginePositions"},
           made' \in Nat \ {0}, PostFix(t)
    PROVE  \E m \in AdapterMessages : Post(m) /\ m.type = t /\ m.n = made'
<1>1. PICK f \in FixKinds :
        Post([type |-> t, n |-> made', status |-> f.status, good |-> f.good,
              sensors |-> f.sensors, svs |-> f.svs, unpropagated |-> f.unpropagated,
              data |-> f.data, fused |-> f.fused])
  BY DEF PostFix
<1>2. f \in Fixes
  BY DEF ConstantsFit
<1>3. [type |-> t, n |-> made', status |-> f.status, good |-> f.good,
       sensors |-> f.sensors, svs |-> f.svs, unpropagated |-> f.unpropagated,
       data |-> f.data, fused |-> f.fused]
      \in [type : {"position", "enginePositions"}, n : Nat \ {0},
           status : {"success", "intermediate", "failure"}, good : BOOLEAN,
           sensors : BOOLEAN, svs : {"none", "single", "multiband"},
           unpropagated : BOOLEAN, data : BOOLEAN, fused : BOOLEAN]
  BY <1>2 DEF Fixes
<1> QED BY <1>1, <1>3 DEF AdapterMessages

\* The engine and the hub post one report, with the next number.
LEMMA ReportsArePosted ==
    ASSUME ConstantsFit, TypeOK, ReportPositionEvent \/ ReportEvent \/ HubReport
    PROVE  /\ Report
           /\ \E m \in AdapterMessages : Post(m) /\ m.type \in ReportTypes /\ m.n = made + 1
<1>1. Report /\ made' = made + 1 /\ made' \in Nat \ {0}
  BY DEF ReportPositionEvent, ReportEvent, HubReport, Report, TypeOK
<1>2. CASE \E t \in {"position", "enginePositions"} : PostFix(t)
  BY <1>1, <1>2, FixesArePosted DEF ReportTypes
<1>3. ASSUME NEW k \in {"sv", "nmea", "data", "meas"}, Post([type |-> k, n |-> made'])
      PROVE  \E m \in AdapterMessages : Post(m) /\ m.type \in ReportTypes /\ m.n = made + 1
  <2>1. [type |-> k, n |-> made'] \in AdapterMessages
    BY <1>1 DEF AdapterMessages
  <2> QED BY <1>1, <1>3, <2>1 DEF ReportTypes
<1>4. ASSUME NEW ps \in SUBSET Pieces, Post([type |-> "system", n |-> made', pieces |-> ps])
      PROVE  \E m \in AdapterMessages : Post(m) /\ m.type \in ReportTypes /\ m.n = made + 1
  <2>1. [type |-> "system", n |-> made', pieces |-> ps] \in AdapterMessages
    BY <1>1 DEF AdapterMessages
  <2> QED BY <1>1, <1>4, <2>1 DEF ReportTypes
<1>5. CASE ReportPositionEvent
  BY <1>2, <1>5 DEF ReportPositionEvent
<1>6. CASE ReportEvent
  <2>1. \/ \E k \in {"sv", "nmea", "data", "meas"} : Post([type |-> k, n |-> made'])
        \/ \E ps \in SUBSET Pieces : Post([type |-> "system", n |-> made', pieces |-> ps])
    BY <1>6 DEF ReportEvent
  <2> QED BY <1>1, <1>3, <1>4, <2>1
<1>7. CASE HubReport
  <2>1. \/ \E t \in {"position", "enginePositions"} : PostFix(t)
        \/ \E k \in {"sv", "nmea", "data", "meas"} : Post([type |-> k, n |-> made'])
    BY <1>7 DEF HubReport
  <2> QED BY <1>1, <1>2, <1>3, <2>1
<1> QED BY <1>1, <1>5, <1>6, <1>7

LEMMA EngineKeepsTypes ==
    ASSUME ConstantsFit, TypeOK, ReportPositionEvent \/ ReportEvent \/ HubReport \/ EngineDown
    PROVE  TypeOK'
<1>1. CASE ReportPositionEvent \/ ReportEvent \/ HubReport
  <2>1. Report /\ adapterQ' \in Seq(AdapterMessages)
    BY <1>1, ReportsArePosted, Posting
  <2>2. made' \in Nat
    BY <2>1 DEF TypeOK, Report
  <2>3. UNCHANGED <<clientData, sessions, nmeaMask, services, evtMask, hub, apiQ, engine,
                    sysInfo, told, svUsed, mbUsed, received>>
    BY <2>1 DEF Report, clientVars, infoVars, fixVars
  <2> QED BY <2>1, <2>2, <2>3 DEF TypeOK
<1>2. CASE EngineDown
  <2>1. [op |-> "ssr"] \in ApiMessages
    BY DEF ApiMessages
  <2>2. apiQ' \in Seq(ApiMessages) /\ engine'.up \in BOOLEAN
    BY <1>2, <2>1, Appended DEF EngineDown, TypeOK, ApiMessages
  <2> QED BY <1>2, <2>2 DEF EngineDown, TypeOK, ApiMessages, clientVars, infoVars, fixVars
<1> QED BY <1>1, <1>2

LEMMA HubKeepsTypes ==
    ASSUME TypeOK, NHzRead \/ NHzWrite
    PROVE  TypeOK'
<1>1. CASE NHzRead
  <2>1. hub' = [wants |-> IF "nHz" \in evtMask THEN "less" ELSE "more", mask |-> evtMask]
        /\ HubLoaded
    BY <1>1 DEF NHzRead
  <2>2. hub' \in [wants : {"nothing", "more", "less"}, mask : SUBSET Events]
    BY <2>1 DEF TypeOK
  <2> QED BY <1>1, <2>1, <2>2 DEF TypeOK, NHzRead, clientVars, infoVars, fixVars
<1>2. CASE NHzWrite
  <2>1. hub.mask \subseteq Events /\ evtMask \subseteq Events /\ "nHz" \in Events
    BY DEF TypeOK, Events
  <2>2. \E mask \in SUBSET Events : AskFor(mask)
    BY <1>2, <2>1 DEF NHzWrite
  <2>3. evtMask' \subseteq Events /\ apiQ' \in Seq(ApiMessages)
    BY <2>2, Asking
  <2>4. hub' = [wants |-> "nothing", mask |-> {}]
    BY <1>2 DEF NHzWrite
  <2>5. hub' \in [wants : {"nothing", "more", "less"}, mask : SUBSET Events]
        /\ hub'.wants = "nothing"
    BY <2>4
  <2>6. UNCHANGED <<clientData, sessions, nmeaMask, services, adapterQ, engine, sysInfo, told,
                    svUsed, mbUsed, received, made>>
    BY <1>2 DEF NHzWrite, infoVars, fixVars
  <2> QED BY <2>3, <2>5, <2>6 DEF TypeOK, ApiMessages
<1> QED BY <1>1, <1>2

\* Every variable of the fan-out keeps its type: no report reaches a client that
\* is not there, and no mask names an event that does not exist.
THEOREM TypeCorrect ==
    ASSUME ConstantsFit
    PROVE  Spec => []TypeOK
<1>1. TypeOK /\ [Next]_vars => TypeOK'
  <2>1. ASSUME TypeOK, Next PROVE TypeOK'
    BY <2>1, CommandKeepsTypes, AdapterKeepsTypes, ApiKeepsTypes, EngineKeepsTypes,
       HubKeepsTypes DEF Next
  <2>2. ASSUME TypeOK, UNCHANGED vars PROVE TypeOK'
    BY <2>2 DEF TypeOK, vars
  <2> QED BY <2>1, <2>2
<1> QED BY TypeInit, <1>1, PTL DEF Spec

-----------------------------------------------------------------------------
(* What the adapter asks for                                                *)

\* The events that these callbacks need, with or without NMEA types (b).
NeededBy(ks, b) ==
    {e \in {"position", "sv", "nmea", "meas"} :
        \/ e = "position" /\ \E k \in ks : k \in {"tracking", "info", "engine", "data"}
        \/ e = "sv" /\ "sv" \in ks
        \/ e = "nmea" /\ ("data" \in ks \/ (b = TRUE /\ "nmea" \in ks))
        \/ e = "meas" /\ "meas" \in ks}

LEMMA CallbacksNeed ==
    ASSUME NEW ks \in SUBSET Kinds, nmeaMask \in BOOLEAN
    PROVE  UNION {EventsOf(k) : k \in ks} = NeededBy(ks, nmeaMask)
<1>1. \A k \in {"tracking", "info", "engine"} : EventsOf(k) = {"position"}
  BY DEF EventsOf
<1>2. EventsOf("sv") = {"sv"} /\ EventsOf("meas") = {"meas"} /\ EventsOf("system") = {}
      /\ EventsOf("data") = {"position", "nmea"}
  BY DEF EventsOf
<1>3. EventsOf("nmea") = IF nmeaMask THEN {"nmea"} ELSE {}
  BY DEF EventsOf
<1>4. ASSUME NEW k \in Kinds, NEW e
      PROVE  e \in EventsOf(k) <=>
                \/ e = "position" /\ k \in {"tracking", "info", "engine", "data"}
                \/ e = "sv" /\ k = "sv"
                \/ e = "nmea" /\ (k = "data" \/ (nmeaMask = TRUE /\ k = "nmea"))
                \/ e = "meas" /\ k = "meas"
  BY <1>1, <1>2, <1>3 DEF Kinds
<1>5. ASSUME NEW e
      PROVE  e \in UNION {EventsOf(k) : k \in ks} <=> e \in NeededBy(ks, nmeaMask)
  <2>1. e \in UNION {EventsOf(k) : k \in ks} <=> \E k \in ks : e \in EventsOf(k)
    OBVIOUS
  <2>2. (\E k \in ks : e \in EventsOf(k)) <=> e \in NeededBy(ks, nmeaMask)
    BY <1>4 DEF NeededBy
  <2> QED BY <2>1, <2>2
<1> QED BY <1>5

LEMMA NeededIs ==
    ConstantsFit /\ TypeOK =>
        /\ Needed = NeededBy(KindsIn(clientData), nmeaMask)
        /\ KindsIn(clientData) \subseteq Kinds
<1>1. TypeOK => KindsIn(clientData) \subseteq Kinds
  BY DEF TypeOK, KindsIn
<1>2. ConstantsFit /\ TypeOK => nmeaMask \in BOOLEAN
  BY DEF ConstantsFit, TypeOK
<1> QED BY <1>1, <1>2, CallbacksNeed DEF Needed

LEMMA MaskIsNeeded ==
    ASSUME ConstantsFit, TypeOK, TypeOK', AskFor(ClientsEventMask(clientData')),
           UNCHANGED <<nmeaMask, services>>
    PROVE  AskedIsNeeded'
<1>1. KindsIn(clientData') \subseteq Kinds /\ nmeaMask \in BOOLEAN
  <2>1. clientData' \in [Clients -> SUBSET Kinds]
    BY DEF TypeOK
  <2>2. KindsIn(clientData') \subseteq Kinds
    BY <2>1 DEF KindsIn
  <2> QED BY <2>2 DEF TypeOK, ConstantsFit
<1>2. UNION {EventsOf(k) : k \in KindsIn(clientData')}
        = NeededBy(KindsIn(clientData'), nmeaMask)
  BY <1>1, CallbacksNeed
<1>3. Needed' = NeededBy(KindsIn(clientData)', nmeaMask')
  <2>1. (Needed = NeededBy(KindsIn(clientData), nmeaMask))'
    BY NeededIs, PTL
  <2> QED BY <2>1 DEF NeededBy
<1> QED BY <1>2, <1>3 DEF AskFor, ClientsEventMask, AskedIsNeeded, ForCallbacks, Always, HubEvents,
           TypeOK, Services

\* A step that leaves the callbacks and the NMEA types alone leaves what is
\* needed, and then the mask may only gain or lose what is asked for otherwise.
LEMMA OtherEvents ==
    ASSUME ~HubLoaded, AskedIsNeeded, UNCHANGED <<clientData, nmeaMask>>,
           services' \subseteq evtMask', Needed \subseteq evtMask',
           evtMask' \cap ForCallbacks \subseteq evtMask
    PROVE  AskedIsNeeded'
<1>1. Needed' = Needed
  BY DEF Needed, KindsIn, EventsOf
<1> QED BY <1>1 DEF AskedIsNeeded, ForCallbacks

LEMMA MaskKeptNeeded ==
    ASSUME ConstantsFit, ~HubLoaded, TypeOK, TypeOK', AskedIsNeeded, [Next]_vars
    PROVE  AskedIsNeeded'
<1>1. CASE AddClient
  <2>1. AskFor(ClientsEventMask(clientData')) /\ UNCHANGED <<nmeaMask, services>>
    BY <1>1 DEF AddClient
  <2> QED BY <2>1, MaskIsNeeded
<1>2. CASE RemoveClient
  <2>1. AskFor(ClientsEventMask(clientData')) /\ UNCHANGED <<nmeaMask, services>>
    BY <1>2 DEF RemoveClient
  <2> QED BY <2>1, MaskIsNeeded
<1>3. CASE UNCHANGED <<clientData, nmeaMask, services, evtMask>>
  BY <1>3, OtherEvents DEF AskedIsNeeded
<1>4. CASE InitService
  <2>1. UNCHANGED <<clientData, nmeaMask>> /\ services' = services \cup {Message.service}
        /\ evtMask' = evtMask \cup {Message.service}
    BY <1>4 DEF InitService, AskFor
  <2>2. services' \subseteq Services
    BY DEF TypeOK
  <2> QED BY <2>1, <2>2, OtherEvents DEF AskedIsNeeded, Services, ForCallbacks
<1>6. CASE HandleEngineUp
  <2>1. UNCHANGED <<clientData, services>> /\ nmeaMask' = NmeaByModem
        /\ evtMask' = IF nmeaMask' # nmeaMask /\ "nmea" \in KindsIn(clientData)
                      THEN evtMask \cup {"nmea"} ELSE evtMask
    BY <1>6 DEF HandleEngineUp, AskFor
  <2>2. KindsIn(clientData)' = KindsIn(clientData)
    BY <2>1 DEF KindsIn
  <2>3. (Needed = NeededBy(KindsIn(clientData), nmeaMask))'
    BY NeededIs, PTL
  <2>4. Needed' = NeededBy(KindsIn(clientData), nmeaMask')
    BY <2>2, <2>3 DEF NeededBy
  <2>5. Needed = NeededBy(KindsIn(clientData), nmeaMask)
    BY NeededIs
  <2>6. nmeaMask \in BOOLEAN /\ nmeaMask' \in BOOLEAN /\ (nmeaMask = TRUE => nmeaMask' = TRUE)
    BY <2>1 DEF TypeOK, ConstantsFit
  <2>7. CASE nmeaMask' = nmeaMask
    BY <2>1, <2>7, OtherEvents DEF AskedIsNeeded
  <2>8. CASE nmeaMask' # nmeaMask
    <3>1. nmeaMask = FALSE /\ nmeaMask' = TRUE
      BY <2>6, <2>8
    <3>2. Needed' = Needed \cup IF "nmea" \in KindsIn(clientData) THEN {"nmea"} ELSE {}
      BY <2>4, <2>5, <3>1 DEF NeededBy
    <3>3. evtMask' = evtMask \cup IF "nmea" \in KindsIn(clientData) THEN {"nmea"} ELSE {}
      BY <2>1, <2>8
    <3> QED BY <2>1, <3>2, <3>3 DEF AskedIsNeeded, ForCallbacks
  <2> QED BY <2>7, <2>8
<1>7. CASE Command \/ Session \/ Position \/ EnginePositions \/ Sv \/ Forward \/ SystemInfo
           \/ ApiThread \/ ReportPositionEvent \/ ReportEvent \/ HubReport \/ EngineDown
           \/ UNCHANGED vars
  <2>1. UNCHANGED <<clientData, nmeaMask, services, evtMask>>
    BY <1>7 DEF Command, AddClientCommand, RemoveClientCommand, SessionCommand, InitCommand,
       OthersUpdateEvtMask, AdapterCommand, Call, Session, Position,
       EnginePositions, Sv, Forward, SystemInfo, Reported, ApiThread, Open, OpenFails, Restart,
       Opened, ReportPositionEvent, ReportEvent, HubReport, Report, EngineDown, clientVars, vars
  <2> QED BY <1>3, <2>1
<1>8. ~(NHzRead \/ NHzWrite)
  BY DEF NHzRead, NHzWrite, TypeOK
<1> QED BY <1>1, <1>2, <1>4, <1>6, <1>7, <1>8 DEF Next, AdapterThread

\* The adapter asks the engine for exactly the events that the callbacks of its
\* clients need, and for what AGPS and ODCPI need, in whichever order clients come
\* and go and the services and the NMEA types are set (updateClientsEventMask,
\* setConfig, initAgps, initOdcpi).  A hub that writes the mask, too, is excluded.
THEOREM MaskIsRight ==
    ASSUME ConstantsFit
    PROVE  Spec => []AskedIsNeeded
<1>1. Init => AskedIsNeeded
  <2> SUFFICES ASSUME Init PROVE AskedIsNeeded
    OBVIOUS
  <2>1. KindsIn(clientData) = {}
    BY DEF Init, KindsIn
  <2>2. Needed = {}
    BY <2>1 DEF Needed
  <2> QED BY <2>2 DEF Init, AskedIsNeeded
<1>2. TypeOK /\ TypeOK' /\ AskedIsNeeded /\ [Next]_vars => AskedIsNeeded'
  <2>1. CASE HubLoaded
    BY <2>1 DEF AskedIsNeeded
  <2>2. CASE ~HubLoaded
    BY <2>2, MaskKeptNeeded
  <2> QED BY <2>1, <2>2
<1> QED BY <1>1, <1>2, TypeCorrect, PTL DEF Spec

-----------------------------------------------------------------------------
(* What the engine was opened with                                          *)

\* Whoever asks for other events has the engine opened again.
LEMMA MaskOpens ==
    ASSUME TypeOK, Command \/ AdapterThread
    PROVE  /\ UNCHANGED engine
           /\ \/ UNCHANGED <<apiQ, evtMask, othersMask>>
              \/ apiQ' = Append(apiQ, [op |-> "open", first |-> FALSE])
BY DEF Command, AddClientCommand, RemoveClientCommand, SessionCommand, InitCommand,
   OthersUpdateEvtMask, AdapterCommand, Call, clientVars, AdapterThread,
   AddClient, RemoveClient, Session, InitService, HandleEngineUp, Position,
   EnginePositions, Sv, Forward, SystemInfo, Reported, Handled, AskFor

LEMMA EngineKept ==
    ASSUME TypeOK, RestartWaits, EngineIsAsked, [Next]_vars
    PROVE  RestartWaits' /\ EngineIsAsked'
<1>0. apiQ \in Seq(ApiMessages)
  BY DEF TypeOK, ApiMessages
<1>1. CASE UNCHANGED <<engine, apiQ, evtMask, othersMask>>
  BY <1>1 DEF RestartWaits, EngineIsAsked
<1>2. CASE UNCHANGED engine /\ apiQ' = Append(apiQ, [op |-> "open", first |-> FALSE])
  <2>1. [op |-> "open", first |-> FALSE] \in ApiMessages
    BY DEF ApiMessages
  <2>2. apiQ' # <<>> /\ Len(apiQ') = Len(apiQ) + 1 /\ \A i \in 1..Len(apiQ) : apiQ'[i] = apiQ[i]
        /\ apiQ' \in Seq(ApiMessages)
    BY <1>0, <1>2, <2>1, Appended
  <2> QED BY <1>0, <1>2, <2>2 DEF RestartWaits, EngineIsAsked
<1>3. CASE Command \/ AdapterThread
  BY <1>1, <1>2, <1>3, MaskOpens
<1>4. CASE Opened
  <2>1. engine' = [up |-> TRUE, events |-> (evtMask \cup othersMask) \ Excluded]
        /\ UNCHANGED <<evtMask, othersMask>>
    BY <1>4 DEF Opened, clientVars
  <2> QED BY <2>1 DEF RestartWaits, EngineIsAsked
<1>5. CASE OpenFails
  <2>1. apiQ # <<>> /\ Head(apiQ).op = "open" /\ apiQ' = Tail(apiQ)
        /\ ~engine.up /\ UNCHANGED engine
    BY <1>5 DEF OpenFails, Serve
  <2>2. PICK i \in 1..Len(apiQ) : apiQ[i].op = "ssr"
    BY <1>0, <2>1 DEF RestartWaits
  <2>3. i # 1 /\ i - 1 \in 1..Len(apiQ') /\ apiQ'[i - 1] = apiQ[i] /\ apiQ' \in Seq(ApiMessages)
    BY <1>0, <2>1, <2>2, Shortened
  <2>4. i - 1 \in DOMAIN apiQ' /\ apiQ'[i - 1].op = "ssr"
    BY <2>2, <2>3
  <2>5. apiQ' # <<>>
    BY <2>3
  <2> QED BY <2>4, <2>5 DEF RestartWaits, EngineIsAsked
<1>6. CASE EngineDown
  <2>1. [op |-> "ssr"] \in ApiMessages
    BY DEF ApiMessages
  <2>2. apiQ' = Append(apiQ, [op |-> "ssr"])
    BY <1>6 DEF EngineDown
  <2>3. apiQ' # <<>> /\ Len(apiQ) + 1 \in DOMAIN apiQ' /\ apiQ'[Len(apiQ) + 1].op = "ssr"
    BY <1>0, <2>1, <2>2, Appended
  <2> QED BY <2>3 DEF RestartWaits, EngineIsAsked
<1>7. CASE ReportPositionEvent \/ ReportEvent \/ HubReport \/ NHzRead \/ UNCHANGED vars
  BY <1>1, <1>7 DEF ReportPositionEvent, ReportEvent, HubReport, Report, NHzRead, clientVars, vars
<1>8. CASE NHzWrite
  BY <1>2, <1>8 DEF NHzWrite, AskFor
<1> QED BY <1>3, <1>4, <1>5, <1>6, <1>7, <1>8 DEF Next, ApiThread, Open, Restart

\* Once the LocApi's queue is empty the engine is up and reports exactly the events
\* of all adapters' masks, whatever was asked for while it was opened, closed or
\* down (updateEvtMask, LocOpenMsg, LocSsrMsg).
THEOREM EngineFollows ==
    ASSUME ConstantsFit
    PROVE  Spec => []EngineIsAsked
<1>1. Init => RestartWaits /\ EngineIsAsked
  <2> SUFFICES ASSUME Init PROVE RestartWaits /\ EngineIsAsked
    OBVIOUS
  <2>1. engine.up = TRUE /\ apiQ # <<>>
    BY DEF Init
  <2> QED BY <2>1 DEF RestartWaits, EngineIsAsked
<1>2. TypeOK /\ RestartWaits /\ EngineIsAsked /\ [Next]_vars => RestartWaits' /\ EngineIsAsked'
  BY EngineKept
<1> QED BY <1>1, <1>2, TypeCorrect, PTL DEF Spec

-----------------------------------------------------------------------------
(* System information                                                       *)

LEMMA InfoKept ==
    ASSUME TypeOK, TypeOK', NothingTold, InfoIsKnown, [Next]_vars
    PROVE  NothingTold' /\ InfoIsKnown'
<1>0. clientData \in [Clients -> SUBSET Kinds] /\ told \in [Clients -> [Pieces -> Nat]]
      /\ sysInfo \in [Pieces -> Nat]
  BY DEF TypeOK
<1>1. CASE AddClient
  <2>1. clientData' = [clientData EXCEPT ![Message.client] = Message.callbacks]
        /\ told' = ToldOnAdding(Message.client, Message.callbacks) /\ UNCHANGED sysInfo
    BY <1>1 DEF AddClient
  <2>0. NothingTold'
    BY <2>1 DEF NothingTold, ToldOnAdding
  <2>2. SUFFICES ASSUME NEW c \in Clients, "system" \in clientData'[c]
                 PROVE  told'[c] = sysInfo
    BY <2>0, <2>1 DEF InfoIsKnown
  <2>3. CASE c # Message.client
    <3>1. "system" \in clientData[c] /\ told'[c] = told[c]
      BY <1>0, <2>1, <2>2, <2>3 DEF ToldOnAdding
    <3> QED BY <3>1 DEF InfoIsKnown
  <2>4. CASE c = Message.client
    <3>1. "system" \in Message.callbacks
      BY <1>0, <2>1, <2>2, <2>4
    <3>2. CASE "system" \in clientData[c]
      <4>1. told' = told
        BY <2>1, <2>4, <3>2 DEF ToldOnAdding
      <4> QED BY <3>2, <4>1 DEF InfoIsKnown
    <3>3. CASE "system" \notin clientData[c] /\ sysInfo # Nothing
      <4>1. told' = [told EXCEPT ![c] = sysInfo]
        BY <2>1, <2>4, <3>1, <3>3 DEF ToldOnAdding
      <4> QED BY <1>0, <4>1
    <3>4. CASE sysInfo = Nothing
      BY <2>1, <3>4 DEF ToldOnAdding, NothingTold
    <3> QED BY <3>2, <3>3, <3>4
  <2> QED BY <2>3, <2>4
<1>2. CASE RemoveClient
  <2>1. clientData' = [clientData EXCEPT ![Message.client] = {}] /\ UNCHANGED <<told, sysInfo>>
    BY <1>2 DEF RemoveClient, infoVars
  <2>2. ASSUME NEW c \in Clients, "system" \in clientData'[c] PROVE "system" \in clientData[c]
    BY <1>0, <2>1, <2>2
  <2> QED BY <2>1, <2>2 DEF InfoIsKnown, NothingTold
<1>3. CASE SystemInfo
  <2> DEFINE Newer(info) == [p \in Pieces |-> IF p \in Message.pieces THEN Message.n ELSE info[p]]
  <2>1. sysInfo' = Newer(sysInfo) /\ UNCHANGED clientData
        /\ told' = [c \in Clients |->
                      IF "system" \in clientData[c] THEN Newer(told[c]) ELSE told[c]]
    BY <1>3 DEF SystemInfo, Reported, clientVars
  <2>2. ASSUME NEW c \in Clients, "system" \in clientData'[c] PROVE told'[c] = sysInfo'
    <3>1. told[c] = sysInfo
      BY <2>1, <2>2 DEF InfoIsKnown
    <3> QED BY <2>1, <2>2, <3>1
  <2>3. NothingTold'
    <3>1. SUFFICES ASSUME Newer(sysInfo) = Nothing PROVE \A c \in Clients : told'[c] = Nothing
      BY <2>1 DEF NothingTold
    <3>2. Message.n \in Nat /\ Message.n > 0
      BY <1>3, Handling, FieldsOfMessages DEF SystemInfo, Reported, Receive, Message, ReportTypes
    <3>3. \A p \in Pieces : p \notin Message.pieces
      BY <3>1, <3>2 DEF Nothing
    <3>4. Newer(sysInfo) = sysInfo /\ \A c \in Clients : Newer(told[c]) = told[c]
      BY <1>0, <3>3
    <3> QED BY <2>1, <3>1, <3>4 DEF NothingTold
  <2> QED BY <2>2, <2>3 DEF InfoIsKnown
<1>4. CASE Command \/ Session \/ InitService \/ HandleEngineUp \/ Position
           \/ EnginePositions \/ Sv \/ Forward
           \/ ApiThread \/ ReportPositionEvent \/ ReportEvent \/ HubReport \/ EngineDown
           \/ NHzRead \/ NHzWrite \/ UNCHANGED vars
  <2>1. UNCHANGED <<clientData, told, sysInfo>>
    BY <1>4 DEF Command, AddClientCommand, RemoveClientCommand, SessionCommand, InitCommand,
       OthersUpdateEvtMask, AdapterCommand, Call, Session, InitService,
       HandleEngineUp, Position, EnginePositions, Sv, Forward, Reported, ApiThread, Open,
       OpenFails, Restart, Opened, ReportPositionEvent, ReportEvent, HubReport, Report,
       EngineDown, NHzRead, NHzWrite, clientVars, infoVars, vars
  <2> QED BY <2>1 DEF InfoIsKnown, NothingTold
<1> QED BY <1>1, <1>2, <1>3, <1>4 DEF Next, AdapterThread

\* Every client that asks for the system information has been told the newest of
\* every piece reported, before it came or after
\* (notifyClientOfCachedLocationSystemInfo, reportLocationSystemInfo).
THEOREM InfoReachesAll ==
    ASSUME ConstantsFit
    PROVE  Spec => []InfoIsKnown
<1>1. Init => NothingTold /\ InfoIsKnown
  BY DEF Init, NothingTold, InfoIsKnown
<1>2. TypeOK /\ TypeOK' /\ NothingTold /\ InfoIsKnown /\ [Next]_vars => NothingTold' /\ InfoIsKnown'
  BY InfoKept
<1> QED BY <1>1, <1>2, TypeCorrect, PTL DEF Spec

-----------------------------------------------------------------------------
(* Satellites used in fixes                                                 *)

\* InOrder, index by index.
LEMMA OrderIs ==
    ASSUME adapterQ \in Seq(AdapterMessages), InOrder
    PROVE  /\ \A i \in 1..Len(adapterQ) : adapterQ[i].type \in ReportTypes =>
                 /\ adapterQ[i].n \in 1..made
                 /\ \A c \in Clients, k \in Kinds : received[c][k] < adapterQ[i].n
                 /\ \A j \in 1..Len(adapterQ) :
                      adapterQ[j].type \in ReportTypes /\ i < j => adapterQ[i].n < adapterQ[j].n
           /\ \A c \in Clients, k \in Kinds : received[c][k] <= made
BY DEF InOrder

LEMMA OrderOnPosting ==
    ASSUME TypeOK, TypeOK', InOrder, UNCHANGED received, NEW m \in AdapterMessages, Post(m),
           \/ m.type \notin ReportTypes /\ UNCHANGED made
           \/ m.type \in ReportTypes /\ m.n = made + 1 /\ made' = made + 1
    PROVE  InOrder'
<1> DEFINE q == adapterQ
           r == adapterQ'
<1>1. q \in Seq(AdapterMessages) /\ made \in Nat
      /\ \A c \in Clients, k \in Kinds : received[c][k] \in Nat
  BY DEF TypeOK
<1>2. /\ r \in Seq(AdapterMessages) /\ Len(r) = Len(q) + 1 /\ r[Len(q) + 1] = m
      /\ \A i \in 1..Len(q) : r[i] = q[i]
  BY <1>1, Appended DEF Post
<1>3. /\ \A i \in 1..Len(q) : q[i].type \in ReportTypes =>
            /\ q[i].n \in 1..made
            /\ \A c \in Clients, k \in Kinds : received[c][k] < q[i].n
            /\ \A j \in 1..Len(q) : q[j].type \in ReportTypes /\ i < j => q[i].n < q[j].n
      /\ \A c \in Clients, k \in Kinds : received[c][k] <= made
  BY <1>1, OrderIs
<1>4. made' >= made /\ made' \in Nat /\ received' = received
  BY <1>1
<1>5. ASSUME NEW i \in 1..Len(r), r[i].type \in ReportTypes
      PROVE  /\ r[i].n \in 1..made'
             /\ \A c \in Clients, k \in Kinds : received[c][k] < r[i].n
             /\ \A j \in 1..Len(r) : r[j].type \in ReportTypes /\ i < j => r[i].n < r[j].n
  <2>1. Len(q) \in Nat
    BY <1>1
  <2>2. CASE i \in 1..Len(q)
    <3>1. r[i] = q[i] /\ r[i].n \in 1..made
      BY <1>2, <1>3, <1>5, <2>2
    <3>2. ASSUME NEW j \in 1..Len(r), r[j].type \in ReportTypes, i < j PROVE r[i].n < r[j].n
      <4>1. CASE j \in 1..Len(q)
        BY <1>2, <1>3, <1>5, <2>2, <3>1, <3>2, <4>1
      <4>2. CASE j = Len(q) + 1
        <5>1. m.n = made + 1
          BY <1>2, <3>2, <4>2
        <5> QED BY <1>1, <1>2, <3>1, <4>2, <5>1
      <4> QED BY <1>2, <2>1, <4>1, <4>2
    <3> QED BY <1>1, <1>2, <1>3, <1>4, <1>5, <2>2, <3>1, <3>2
  <2>3. CASE i = Len(q) + 1
    <3>1. r[i] = m /\ m.n = made + 1 /\ made' = made + 1
      BY <1>2, <1>5, <2>3
    <3> QED BY <1>1, <1>2, <1>3, <2>1, <2>3, <3>1
  <2> QED BY <1>2, <2>1, <2>2, <2>3
<1>6. \A c \in Clients, k \in Kinds : received[c][k] <= made'
  BY <1>1, <1>3, <1>4
<1> QED BY <1>2, <1>4, <1>5, <1>6 DEF InOrder

\* The reports behind the one that is handled are newer, whomever it is given to.
LEMMA OrderOnHandling ==
    ASSUME TypeOK, TypeOK', InOrder, Handled, adapterQ # <<>>,
           \/ UNCHANGED received
           \/ /\ Message.type \in ReportTypes
              /\ \A c \in Clients, k \in Kinds : received'[c][k] \in {received[c][k], Message.n}
    PROVE  InOrder'
<1> DEFINE q == adapterQ
           r == adapterQ'
<1>1. q \in Seq(AdapterMessages) /\ made \in Nat
      /\ \A c \in Clients, k \in Kinds : received[c][k] \in Nat
  BY DEF TypeOK
<1>2. /\ r \in Seq(AdapterMessages) /\ Len(r) = Len(q) - 1 /\ Message = q[1]
      /\ \A i \in 1..Len(r) : r[i] = q[i + 1]
      /\ made' = made /\ Len(q) \in Nat /\ Len(q) > 0
  BY <1>1, Shortened DEF Handled, Message
<1>3. /\ \A i \in 1..Len(q) : q[i].type \in ReportTypes =>
            /\ q[i].n \in 1..made
            /\ \A c \in Clients, k \in Kinds : received[c][k] < q[i].n
            /\ \A j \in 1..Len(q) : q[j].type \in ReportTypes /\ i < j => q[i].n < q[j].n
      /\ \A c \in Clients, k \in Kinds : received[c][k] <= made
  BY <1>1, OrderIs
<1>4. ASSUME NEW i \in 1..Len(r), r[i].type \in ReportTypes
      PROVE  /\ r[i].n \in 1..made'
             /\ \A c \in Clients, k \in Kinds : received'[c][k] < r[i].n
             /\ \A j \in 1..Len(r) : r[j].type \in ReportTypes /\ i < j => r[i].n < r[j].n
  <2>1. i + 1 \in 1..Len(q) /\ r[i] = q[i + 1]
    BY <1>2
  <2>2. r[i].n \in 1..made'
    BY <1>2, <1>3, <1>4, <2>1
  <2>3. ASSUME NEW j \in 1..Len(r), r[j].type \in ReportTypes, i < j PROVE r[i].n < r[j].n
    <3>1. j + 1 \in 1..Len(q) /\ r[j] = q[j + 1]
      BY <1>2
    <3>2. i + 1 < j + 1
      BY <2>3
    <3> QED BY <1>3, <1>4, <2>1, <2>3, <3>1, <3>2
  <2>4. ASSUME NEW c \in Clients, NEW k \in Kinds PROVE received'[c][k] < r[i].n
    <3>1. received[c][k] < r[i].n
      BY <1>3, <1>4, <2>1
    <3>2. CASE Message.type \in ReportTypes
      <4>1. Message.n < r[i].n
        BY <1>2, <1>3, <1>4, <2>1, <3>2
      <4> QED BY <3>1, <4>1
    <3> QED BY <3>1, <3>2
  <2> QED BY <2>2, <2>3, <2>4
<1>5. ASSUME NEW c \in Clients, NEW k \in Kinds PROVE received'[c][k] <= made'
  <2>1. Message.type \in ReportTypes => Message.n \in 1..made
    BY <1>2, <1>3
  <2> QED BY <1>1, <1>2, <1>3, <2>1
<1> QED BY <1>2, <1>4, <1>5 DEF InOrder

LEMMA Given ==
    ASSUME TypeOK, NEW n, NEW kinds, Give(n, kinds)
    PROVE  \A c \in Clients, k \in Kinds :
              received'[c][k] = IF k \in clientData[c] \cap kinds[c] THEN n ELSE received[c][k]
BY DEF Give

LEMMA OrderKept ==
    ASSUME ConstantsFit, TypeOK, TypeOK', InOrder, [Next]_vars
    PROVE  InOrder'
<1>1. CASE UNCHANGED <<adapterQ, made, received>>
  BY <1>1 DEF InOrder
<1>2. ASSUME NEW m \in AdapterMessages, m.type \notin ReportTypes, Post(m),
             UNCHANGED <<made, received>>
      PROVE  InOrder'
  BY <1>2, OrderOnPosting
<1>3. CASE Command
  <2>1. Call
    BY <1>3 DEF Command, AddClientCommand, RemoveClientCommand, SessionCommand, InitCommand,
       OthersUpdateEvtMask, AdapterCommand
  <2>2. UNCHANGED <<made, received>>
    BY <2>1 DEF Call, fixVars
  <2>3. CASE OthersUpdateEvtMask
    BY <1>1, <2>2, <2>3 DEF OthersUpdateEvtMask
  <2>4. CASE AddClientCommand
    <3>1. PICK c \in Clients, cbs \in CallbackSets :
            Post([type |-> "add", client |-> c, callbacks |-> cbs])
      BY <2>4 DEF AddClientCommand, AdapterCommand
    <3>2. [type |-> "add", client |-> c, callbacks |-> cbs] \in AdapterMessages
      BY DEF AdapterMessages, ConstantsFit
    <3> QED BY <1>2, <2>2, <3>1, <3>2 DEF ReportTypes
  <2>5. CASE RemoveClientCommand
    <3>1. PICK c \in Clients : Post([type |-> "remove", client |-> c])
      BY <2>5 DEF RemoveClientCommand, AdapterCommand
    <3>2. [type |-> "remove", client |-> c] \in AdapterMessages
      BY DEF AdapterMessages
    <3> QED BY <1>2, <2>2, <3>1, <3>2 DEF ReportTypes
  <2>6. CASE SessionCommand
    <3>1. PICK c \in Clients, b \in BOOLEAN :
            Post([type |-> "session", client |-> c, on |-> b])
      BY <2>6 DEF SessionCommand, AdapterCommand
    <3>2. [type |-> "session", client |-> c, on |-> b] \in AdapterMessages
      BY DEF AdapterMessages
    <3> QED BY <1>2, <2>2, <3>1, <3>2 DEF ReportTypes
  <2>7. CASE InitCommand
    <3>1. PICK t \in Services : Post([type |-> "init", service |-> t])
      BY <2>7 DEF InitCommand, AdapterCommand
    <3>2. [type |-> "init", service |-> t] \in AdapterMessages
      BY DEF AdapterMessages
    <3> QED BY <1>2, <2>2, <3>1, <3>2 DEF ReportTypes
  <2> QED BY <1>3, <2>3, <2>4, <2>5, <2>6, <2>7 DEF Command
<1>4. CASE AddClient \/ RemoveClient \/ Session \/ InitService \/ HandleEngineUp
  <2>1. Handled /\ adapterQ # <<>> /\ UNCHANGED received
    BY <1>4 DEF AddClient, RemoveClient, Session, InitService, HandleEngineUp,
       Receive, fixVars
  <2> QED BY <2>1, OrderOnHandling
<1>5. CASE Position \/ EnginePositions \/ Sv \/ Forward \/ SystemInfo
  <2>1. Handled /\ adapterQ # <<>> /\ Message.type \in ReportTypes
    BY <1>5 DEF Position, EnginePositions, Sv, Forward, SystemInfo, Reported, Receive, Message,
       ReportTypes
  <2>2. UNCHANGED received \/ \E kinds : Give(Message.n, kinds)
    BY <1>5 DEF Position, EnginePositions, Sv, Forward, SystemInfo, GiveTo, fixVars
  <2>3. UNCHANGED received
        \/ \A c \in Clients, k \in Kinds : received'[c][k] \in {received[c][k], Message.n}
    BY <2>2, Given
  <2> QED BY <2>1, <2>3, OrderOnHandling
<1>6. CASE Open \/ OpenFails \/ Restart
  <2>1. UNCHANGED <<made, received>>
    BY <1>6 DEF Open, OpenFails, Restart, Opened, fixVars
  <2>2. UNCHANGED adapterQ \/ Post([type |-> "engineUp"])
    BY <1>6 DEF Open, OpenFails, Restart
  <2>3. [type |-> "engineUp"] \in AdapterMessages
    BY DEF AdapterMessages
  <2> QED BY <1>1, <1>2, <2>1, <2>2, <2>3 DEF ReportTypes
<1>7. CASE ReportPositionEvent \/ ReportEvent \/ HubReport
  <2>1. /\ Report
        /\ \E m \in AdapterMessages : Post(m) /\ m.type \in ReportTypes /\ m.n = made + 1
    BY <1>7, ReportsArePosted
  <2>2. made' = made + 1 /\ UNCHANGED received
    BY <2>1 DEF Report, fixVars
  <2> QED BY <2>1, <2>2, OrderOnPosting
<1>8. CASE EngineDown \/ NHzRead \/ NHzWrite \/ UNCHANGED vars
  BY <1>1, <1>8 DEF EngineDown, NHzRead, NHzWrite, fixVars, vars
<1> QED BY <1>3, <1>4, <1>5, <1>6, <1>7, <1>8 DEF Next, AdapterThread, ApiThread

LEMMA MarksKept ==
    ASSUME TypeOK, TypeOK', InOrder, MarksAreFresh, [Next]_vars
    PROVE  MarksAreFresh'
<1> DEFINE Same == \A c \in Clients, k \in {"tracking", "info"} : received'[c][k] = received[c][k]
<1>0. /\ svUsed \in Nat /\ mbUsed \in Nat
      /\ \A c \in Clients, k \in {"tracking", "info"} : k \in Kinds /\ received[c][k] \in Nat
  <2>1. svUsed \in Nat /\ mbUsed \in Nat /\ received \in [Clients -> [Kinds -> Nat]]
    BY DEF TypeOK
  <2> QED BY <2>1 DEF Kinds
<1>1. CASE UNCHANGED <<svUsed, mbUsed>> /\ Same
  BY <1>1 DEF MarksAreFresh, PositionsGiven
<1>2. CASE svUsed' = 0 /\ mbUsed' = 0
  BY <1>2 DEF MarksAreFresh
<1>3. ASSUME NEW t \in ReportTypes, Receive(t), NEW kinds, Give(Message.n, kinds)
      PROVE  /\ \A c \in Clients, k \in {"tracking", "info"} : received'[c][k] <= Message.n
             /\ (\A c \in Clients : kinds[c] \cap {"tracking", "info"} = {}) => Same
  <2>1. adapterQ \in Seq(AdapterMessages) /\ adapterQ # <<>> /\ Message = adapterQ[1]
        /\ Message.type = t
    BY <1>3 DEF TypeOK, Receive, Message
  <2>2. \A c \in Clients, k \in Kinds : received[c][k] < Message.n
    BY <2>1, OrderIs
  <2>3. Message.n \in Nat
    BY <2>1, FieldsOfMessages
  <2>4. \A c \in Clients, k \in Kinds :
           received'[c][k] = IF k \in clientData[c] \cap kinds[c] THEN Message.n ELSE received[c][k]
    BY <1>3, Given
  <2> QED BY <1>0, <2>2, <2>3, <2>4
<1>4. ASSUME NEW t \in ReportTypes, Receive(t), NEW kinds, Give(Message.n, kinds),
             \/ KeepSvsUsed(Message)
             \/ UNCHANGED <<svUsed, mbUsed>> /\ \A c \in Clients : kinds[c] \cap {"tracking", "info"} = {},
             \A c \in Clients : kinds[c] \cap {"tracking", "info"} # {}
                => NeedReportForGnssClient(Message) \/ NeedReportForFlpClient(Message)
      PROVE  MarksAreFresh'
  <2>1. CASE KeepSvsUsed(Message) /\ (NeedReportForGnssClient(Message) \/ NeedReportForFlpClient(Message))
    <3>1. svUsed' \in {0, Message.n} /\ mbUsed' \in {0, svUsed'}
      BY <2>1 DEF KeepSvsUsed
    <3> QED BY <1>3, <1>4, <3>1 DEF MarksAreFresh, PositionsGiven
  <2>2. CASE UNCHANGED <<svUsed, mbUsed>> /\ \A c \in Clients : kinds[c] \cap {"tracking", "info"} = {}
    BY <1>1, <1>3, <1>4, <2>2
  <2>3. CASE KeepSvsUsed(Message) /\ ~(NeedReportForGnssClient(Message) \/ NeedReportForFlpClient(Message))
    <3>1. UNCHANGED <<svUsed, mbUsed>>
      BY <2>3 DEF KeepSvsUsed
    <3>2. \A c \in Clients : kinds[c] \cap {"tracking", "info"} = {}
      BY <1>4, <2>3
    <3> QED BY <2>2, <3>1, <3>2
  <2> QED BY <1>4, <2>1, <2>2, <2>3
<1>5. CASE Position
  <2> DEFINE fix == Message
             KindsFor(c) == (IF fix.data THEN {"data"} ELSE {})
                         \cup IF HubLoaded THEN {"engine"} ELSE PositionKinds(c, fix)
             kinds == [c \in Clients |-> KindsFor(c)]
  <2>1. Receive("position") /\ "position" \in ReportTypes
    BY <1>5 DEF Position, ReportTypes
  <2>2. CASE sessions = {} \/ fix.unpropagated
    BY <1>1, <1>5, <2>2 DEF Position, fixVars
  <2>3. CASE ~(sessions = {} \/ fix.unpropagated)
    <3>1. Give(Message.n, kinds)
          /\ IF HubLoaded THEN UNCHANGED <<svUsed, mbUsed>> ELSE KeepSvsUsed(Message)
      BY <1>5, <2>3 DEF Position
    <3>2. HubLoaded => \A c \in Clients : kinds[c] \cap {"tracking", "info"} = {}
      OBVIOUS
    <3>3. ~HubLoaded => \A c \in Clients : kinds[c] \cap {"tracking", "info"} # {}
             => NeedReportForGnssClient(Message) \/ NeedReportForFlpClient(Message)
      BY DEF PositionKinds
    <3> HIDE DEF kinds
    <3> QED BY <1>4, <2>1, <3>1, <3>2, <3>3
  <2> QED BY <2>2, <2>3
<1>6. CASE EnginePositions
  <2> DEFINE fix == Message
             kinds == [c \in Clients |-> {"engine"} \cup
                                IF fix.fused THEN PositionKinds(c, fix) ELSE {}]
  <2>1. Receive("enginePositions") /\ "enginePositions" \in ReportTypes
        /\ Give(Message.n, kinds)
        /\ IF fix.fused THEN KeepSvsUsed(Message) ELSE UNCHANGED <<svUsed, mbUsed>>
    BY <1>6 DEF EnginePositions, ReportTypes
  <2>2. ~fix.fused => \A c \in Clients : kinds[c] \cap {"tracking", "info"} = {}
    OBVIOUS
  <2>3. fix.fused => \A c \in Clients : kinds[c] \cap {"tracking", "info"} # {}
           => NeedReportForGnssClient(Message) \/ NeedReportForFlpClient(Message)
    BY DEF PositionKinds
  <2> HIDE DEF kinds
  <2> QED BY <1>4, <2>1, <2>2, <2>3
<1>7. CASE Sv
  BY <1>2, <1>7 DEF Sv
<1>8. CASE Forward \/ SystemInfo
  <2>1. PICK t \in ReportTypes : Receive(t) /\ GiveTo(t) /\ t \notin {"tracking", "info"}
    BY <1>8 DEF Forward, SystemInfo, ReportTypes
  <2>2. Same
    BY <1>3, <2>1 DEF GiveTo
  <2> QED BY <1>1, <1>8, <2>2 DEF Forward, SystemInfo
<1>9. CASE \/ Command \/ ApiThread
           \/ AddClient \/ RemoveClient \/ Session \/ InitService \/ HandleEngineUp
           \/ ReportPositionEvent \/ ReportEvent \/ HubReport \/ EngineDown
           \/ NHzRead \/ NHzWrite \/ UNCHANGED vars
  <2>1. UNCHANGED <<svUsed, mbUsed, received>>
    BY <1>9 DEF Command, AddClientCommand, RemoveClientCommand, SessionCommand, InitCommand,
       OthersUpdateEvtMask, AdapterCommand, Call, AddClient, RemoveClient,
       Session, InitService, HandleEngineUp, ApiThread, Open, OpenFails, Restart,
       Opened, ReportPositionEvent, ReportEvent, HubReport, Report, EngineDown, NHzRead, NHzWrite, fixVars,
       vars
  <2> QED BY <1>1, <2>1
<1> QED BY <1>5, <1>6, <1>7, <1>8, <1>9 DEF Next, AdapterThread

\* Satellites are marked as used in a fix no older than any a client was given, and
\* by signal only after the fix they are marked by (mGnssSvIdUsedInPosAvail,
\* mGnssMbSvIdUsedInPosAvail in reportPosition and reportSv).
THEOREM MarksAreRight ==
    ASSUME ConstantsFit
    PROVE  Spec => []MarksAreFresh
<1>1. Init => InOrder /\ MarksAreFresh
  <2> SUFFICES ASSUME Init PROVE InOrder /\ MarksAreFresh
    OBVIOUS
  <2>1. adapterQ = <<>> /\ svUsed = 0 /\ mbUsed = 0 /\ made = 0
        /\ \A c \in Clients, k \in Kinds : received[c][k] = 0
    BY DEF Init
  <2> QED BY <2>1 DEF InOrder, MarksAreFresh
<1>2. TypeOK /\ TypeOK' /\ InOrder /\ MarksAreFresh /\ [Next]_vars => InOrder' /\ MarksAreFresh'
  BY OrderKept, MarksKept
<1> QED BY <1>1, <1>2, TypeCorrect, PTL DEF Spec
-----------------------------------------------------------------------------
(* From here on: the sentences of Nmea.                                     *)

NmeaConstantsFit ==
    /\ FixReports \subseteq FixKind
    /\ SvReports \subseteq Seq(Satellites)
    /\ LeapReports \subseteq LeapSeconds

-----------------------------------------------------------------------------
(* The groups.                                                             *)

LEMMA GroupCount == DOMAIN Groups = 1..15 /\ Len(Groups) = 15
  BY DEF Groups

LEMMA GroupTypes ==
    /\ \A g \in 1..3 : Groups[g].types = {"gps", "sbas"}
    /\ \A g \in 4..5 : Groups[g].types = {"glo"}
    /\ \A g \in 6..8 : Groups[g].types = {"gal"}
    /\ \A g \in 9..11 : Groups[g].types = {"qzss"}
    /\ \A g \in 12..14 : Groups[g].types = {"bds"}
    /\ Groups[15].types = {"navic"}
  <1>1. \A g \in 1..3 : Groups[g].types = {"gps", "sbas"}
    BY DEF Groups
  <1>2. \A g \in 4..5 : Groups[g].types = {"glo"}
    BY DEF Groups
  <1>3. \A g \in 6..8 : Groups[g].types = {"gal"}
    BY DEF Groups
  <1>4. \A g \in 9..11 : Groups[g].types = {"qzss"}
    BY DEF Groups
  <1>5. \A g \in 12..14 : Groups[g].types = {"bds"}
    BY DEF Groups
  <1>6. Groups[15].types = {"navic"}
    BY DEF Groups
  <1> QED
    BY <1>1, <1>2, <1>3, <1>4, <1>5, <1>6

LEMMA GroupSignals ==
    /\ Groups[1].signal = "GPS_L1CA" /\ Groups[2].signal = "GPS_L5" /\ Groups[3].signal = "GPS_L2"
    /\ Groups[4].signal = "GLO_G1" /\ Groups[5].signal = "GLO_G2"
    /\ Groups[6].signal = "GAL_E1" /\ Groups[7].signal = "GAL_E5A" /\ Groups[8].signal = "GAL_E5B"
    /\ Groups[9].signal = "QZSS_L1CA" /\ Groups[10].signal = "QZSS_L5"
    /\ Groups[11].signal = "QZSS_L2"
    /\ Groups[12].signal = "BDS_B1I" /\ Groups[13].signal = "BDS_B1C"
    /\ Groups[14].signal = "BDS_B2AI" /\ Groups[15].signal = "NAVIC_L5"
  BY DEF Groups

LEMMA SignalIds ==
    /\ \A s \in {"GPS_L1CA", "SBAS_L1", "GLO_G1", "GAL_E5A", "QZSS_L1CA", "BDS_B1I", "NAVIC_L5"} :
          SignalId(s) = 1
    /\ SignalId("GAL_E5B") = 2
    /\ \A s \in {"GLO_G2", "BDS_B1C"} : SignalId(s) = 3
    /\ \A s \in {"BDS_B2AI", "BDS_B2AQ"} : SignalId(s) = 5
    /\ \A s \in {"GPS_L2", "QZSS_L2"} : SignalId(s) = 6
    /\ SignalId("GAL_E1") = 7
    /\ \A s \in {"GPS_L5", "QZSS_L5"} : SignalId(s) = 8
    /\ SignalId("BDS_B2I") = 11
    /\ SignalId("GPS_L1C") = 0 /\ SignalId("QZSS_L1S") = 0
  BY DEF SignalId

LEMMA GroupIds ==
    /\ SignalId(Groups[1].signal) = 1 /\ SignalId(Groups[2].signal) = 8
    /\ SignalId(Groups[3].signal) = 6 /\ SignalId(Groups[4].signal) = 1
    /\ SignalId(Groups[5].signal) = 3 /\ SignalId(Groups[6].signal) = 7
    /\ SignalId(Groups[7].signal) = 1 /\ SignalId(Groups[8].signal) = 2
    /\ SignalId(Groups[9].signal) = 1 /\ SignalId(Groups[10].signal) = 8
    /\ SignalId(Groups[11].signal) = 6 /\ SignalId(Groups[12].signal) = 1
    /\ SignalId(Groups[13].signal) = 3 /\ SignalId(Groups[14].signal) = 5
    /\ SignalId(Groups[15].signal) = 1
  BY GroupSignals, SignalIds

Ids == <<1, 8, 6, 1, 3, 7, 1, 2, 1, 8, 6, 1, 3, 5, 1>>

LEMMA GroupId ==
    ASSUME NEW g \in 1..15
    PROVE  SignalId(Groups[g].signal) = Ids[g]
  <1>1. CASE g = 1
    BY <1>1, GroupIds DEF Ids
  <1>2. CASE g = 2
    BY <1>2, GroupIds DEF Ids
  <1>3. CASE g = 3
    BY <1>3, GroupIds DEF Ids
  <1>4. CASE g = 4
    BY <1>4, GroupIds DEF Ids
  <1>5. CASE g = 5
    BY <1>5, GroupIds DEF Ids
  <1>6. CASE g = 6
    BY <1>6, GroupIds DEF Ids
  <1>7. CASE g = 7
    BY <1>7, GroupIds DEF Ids
  <1>8. CASE g = 8
    BY <1>8, GroupIds DEF Ids
  <1>9. CASE g = 9
    BY <1>9, GroupIds DEF Ids
  <1>10. CASE g = 10
    BY <1>10, GroupIds DEF Ids
  <1>11. CASE g = 11
    BY <1>11, GroupIds DEF Ids
  <1>12. CASE g = 12
    BY <1>12, GroupIds DEF Ids
  <1>13. CASE g = 13
    BY <1>13, GroupIds DEF Ids
  <1>14. CASE g = 14
    BY <1>14, GroupIds DEF Ids
  <1>15. CASE g = 15
    BY <1>15, GroupIds DEF Ids
  <1> QED
    BY <1>1, <1>2, <1>3, <1>4, <1>5, <1>6, <1>7, <1>8, <1>9, <1>10, <1>11, <1>12, <1>13, <1>14, <1>15

\* Which satellites are shown in which group: no two groups have the same of a constellation.
LEMMA OneGroup ==
    ASSUME NEW sv, NEW g \in 1..15, NEW h \in 1..15, IsShown(sv, g), IsShown(sv, h)
    PROVE  g = h
  <1>1. sv.type \in Groups[g].types /\ sv.type \in Groups[h].types /\ Ids[g] = Ids[h]
    BY GroupId DEF IsShown
  <1>2. CASE g \in 1..3
    <2>1. h \in 1..3
      BY <1>1, <1>2, GroupTypes
    <2> QED
      BY <1>1, <1>2, <2>1 DEF Ids
  <1>3. CASE g \in 4..5
    <2>1. h \in 4..5
      BY <1>1, <1>3, GroupTypes
    <2> QED
      BY <1>1, <1>3, <2>1 DEF Ids
  <1>4. CASE g \in 6..8
    <2>1. h \in 6..8
      BY <1>1, <1>4, GroupTypes
    <2> QED
      BY <1>1, <1>4, <2>1 DEF Ids
  <1>5. CASE g \in 9..11
    <2>1. h \in 9..11
      BY <1>1, <1>5, GroupTypes
    <2> QED
      BY <1>1, <1>5, <2>1 DEF Ids
  <1>6. CASE g \in 12..14
    <2>1. h \in 12..14
      BY <1>1, <1>6, GroupTypes
    <2> QED
      BY <1>1, <1>6, <2>1 DEF Ids
  <1>7. CASE g = 15
    BY <1>1, <1>7, GroupTypes
  <1> QED
    BY <1>2, <1>3, <1>4, <1>5, <1>6, <1>7

\* A satellite without a signal is treated as one of the default signal.
LEMMA SignalOf ==
    ASSUME NEW sv \in Satellites
    PROVE  /\ sv.type = "gps" => sv.signal \in {"none", "GPS_L1CA", "GPS_L1C", "GPS_L2", "GPS_L5"}
           /\ sv.type = "glo" => sv.signal \in {"none", "GLO_G1", "GLO_G2"}
           /\ sv.type = "gal" => sv.signal \in {"none", "GAL_E1", "GAL_E5A", "GAL_E5B"}
           /\ sv.type = "bds" => sv.signal \in {"none", "BDS_B1I", "BDS_B1C", "BDS_B2I",
                                                "BDS_B2AI", "BDS_B2AQ"}
           /\ sv.type = "qzss" => sv.signal \in {"none", "QZSS_L1CA", "QZSS_L1S", "QZSS_L2",
                                                 "QZSS_L5"}
           /\ sv.type = "navic" => sv.signal \in {"none", "NAVIC_L5"}
           /\ sv.type = "sbas" => sv.signal \in {"none", "SBAS_L1"}
           /\ sv.type \in Types /\ sv.svId \in Nat /\ sv.used \in BOOLEAN
  BY DEF Satellites, SignalsOf

LEMMA ShownIsCounted ==
    ASSUME NEW sv \in Satellites, NEW g \in 1..15, IsShown(sv, g)
    PROVE  IsCounted(sv, g)
  <1> DEFINE signal == IF sv.signal = "none" THEN DefaultSignal[sv.type] ELSE sv.signal
  <1>1. sv.type \in Groups[g].types /\ SignalId(signal) = SignalId(Groups[g].signal)
    BY DEF IsShown
  <1> SUFFICES sv.signal \in Groups[g].counts
    BY <1>1 DEF IsCounted
  <1>2. CASE g \in 1..3
    <2>1. sv.type \in {"gps", "sbas"}
      BY <1>1, <1>2, GroupTypes
    <2>2. CASE g = 1
      <3>1. SignalId(signal) = 1
        BY <1>1, <2>2, GroupIds
      <3>2. sv.signal \in {"none", "GPS_L1CA", "GPS_L1C", "SBAS_L1"}
        BY <2>1, <3>1, SignalOf, SignalIds
      <3> QED
        BY <2>2, <3>2 DEF Groups
    <2>3. CASE g = 2
      <3>1. sv.signal = "GPS_L5"
        BY <1>1, <2>1, <2>3, SignalOf, SignalIds, GroupIds DEF DefaultSignal
      <3> QED
        BY <2>3, <3>1 DEF Groups
    <2>4. CASE g = 3
      <3>1. sv.signal = "GPS_L2"
        BY <1>1, <2>1, <2>4, SignalOf, SignalIds, GroupIds DEF DefaultSignal
      <3> QED
        BY <2>4, <3>1 DEF Groups
    <2> QED
      BY <1>2, <2>2, <2>3, <2>4
  <1>3. CASE g \in 4..5
    <2>1. sv.type = "glo"
      BY <1>1, <1>3, GroupTypes
    <2>2. CASE g = 4
      <3>1. sv.signal \in {"none", "GLO_G1"}
        BY <1>1, <2>1, <2>2, SignalOf, SignalIds, GroupIds
      <3> QED
        BY <2>2, <3>1 DEF Groups
    <2>3. CASE g = 5
      <3>1. sv.signal = "GLO_G2"
        BY <1>1, <2>1, <2>3, SignalOf, SignalIds, GroupIds DEF DefaultSignal
      <3> QED
        BY <2>3, <3>1 DEF Groups
    <2> QED
      BY <1>3, <2>2, <2>3
  <1>4. CASE g \in 6..8
    <2>1. sv.type = "gal"
      BY <1>1, <1>4, GroupTypes
    <2>2. CASE g = 6
      <3>1. sv.signal \in {"none", "GAL_E1"}
        BY <1>1, <2>1, <2>2, SignalOf, SignalIds, GroupIds
      <3> QED
        BY <2>2, <3>1 DEF Groups
    <2>3. CASE g = 7
      <3>1. sv.signal = "GAL_E5A"
        BY <1>1, <2>1, <2>3, SignalOf, SignalIds, GroupIds DEF DefaultSignal
      <3> QED
        BY <2>3, <3>1 DEF Groups
    <2>4. CASE g = 8
      <3>1. sv.signal = "GAL_E5B"
        BY <1>1, <2>1, <2>4, SignalOf, SignalIds, GroupIds DEF DefaultSignal
      <3> QED
        BY <2>4, <3>1 DEF Groups
    <2> QED
      BY <1>4, <2>2, <2>3, <2>4
  <1>5. CASE g \in 9..11
    <2>1. sv.type = "qzss"
      BY <1>1, <1>5, GroupTypes
    <2>2. CASE g = 9
      <3>1. sv.signal \in {"none", "QZSS_L1CA"}
        BY <1>1, <2>1, <2>2, SignalOf, SignalIds, GroupIds
      <3> QED
        BY <2>2, <3>1 DEF Groups
    <2>3. CASE g = 10
      <3>1. sv.signal = "QZSS_L5"
        BY <1>1, <2>1, <2>3, SignalOf, SignalIds, GroupIds DEF DefaultSignal
      <3> QED
        BY <2>3, <3>1 DEF Groups
    <2>4. CASE g = 11
      <3>1. sv.signal = "QZSS_L2"
        BY <1>1, <2>1, <2>4, SignalOf, SignalIds, GroupIds DEF DefaultSignal
      <3> QED
        BY <2>4, <3>1 DEF Groups
    <2> QED
      BY <1>5, <2>2, <2>3, <2>4
  <1>6. CASE g \in 12..14
    <2>1. sv.type = "bds"
      BY <1>1, <1>6, GroupTypes
    <2>2. CASE g = 12
      <3>1. sv.signal \in {"none", "BDS_B1I"}
        BY <1>1, <2>1, <2>2, SignalOf, SignalIds, GroupIds
      <3> QED
        BY <2>2, <3>1 DEF Groups
    <2>3. CASE g = 13
      <3>1. sv.signal = "BDS_B1C"
        BY <1>1, <2>1, <2>3, SignalOf, SignalIds, GroupIds DEF DefaultSignal
      <3> QED
        BY <2>3, <3>1 DEF Groups
    <2>4. CASE g = 14
      <3>1. sv.signal \in {"BDS_B2AI", "BDS_B2AQ"}
        BY <1>1, <2>1, <2>4, SignalOf, SignalIds, GroupIds DEF DefaultSignal
      <3> QED
        BY <2>4, <3>1 DEF Groups
    <2> QED
      BY <1>6, <2>2, <2>3, <2>4
  <1>7. CASE g = 15
    <2>1. sv.signal \in {"none", "NAVIC_L5"}
      BY <1>1, <1>7, GroupTypes, SignalOf
    <2> QED
      BY <1>7, <2>1 DEF Groups
  <1> QED
    BY <1>2, <1>3, <1>4, <1>5, <1>6, <1>7

LEMMA OffsetOfGroup ==
    ASSUME NEW g \in 1..15
    PROVE  /\ OffsetOf(g) \in Nat
           /\ \A t \in Groups[g].types \ {"sbas"} : OwnOffset[t] = OffsetOf(g)
  <1>1. ASSUME NEW t \in Types \ {"sbas"},
               \A u \in Types \ {"sbas"} : u \in Groups[g].types <=> u = t,
               Groups[g].types \subseteq Types
        PROVE  /\ OffsetOf(g) \in Nat
               /\ \A u \in Groups[g].types \ {"sbas"} : OwnOffset[u] = OffsetOf(g)
    <2>1. OffsetOf(g) = OwnOffset[t]
      <3>1. (CHOOSE u \in Types \ {"sbas"} : u \in Groups[g].types) = t
        BY <1>1
      <3> QED
        BY <3>1 DEF OffsetOf
    <2>2. OwnOffset[t] \in Nat
      BY DEF OwnOffset, Types, Masked
    <2> QED
      BY <1>1, <2>1, <2>2
  <1>2. CASE g \in 1..3
    <2>1. Groups[g].types = {"gps", "sbas"}
      BY <1>2, GroupTypes
    <2> QED
      BY <1>1, <2>1 DEF Types, Masked
  <1>3. CASE g \in 4..5
    <2>1. Groups[g].types = {"glo"}
      BY <1>3, GroupTypes
    <2> QED
      BY <1>1, <2>1 DEF Types, Masked
  <1>4. CASE g \in 6..8
    <2>1. Groups[g].types = {"gal"}
      BY <1>4, GroupTypes
    <2> QED
      BY <1>1, <2>1 DEF Types, Masked
  <1>5. CASE g \in 9..11
    <2>1. Groups[g].types = {"qzss"}
      BY <1>5, GroupTypes
    <2> QED
      BY <1>1, <2>1 DEF Types, Masked
  <1>6. CASE g \in 12..14
    <2>1. Groups[g].types = {"bds"}
      BY <1>6, GroupTypes
    <2> QED
      BY <1>1, <2>1 DEF Types, Masked
  <1>7. CASE g = 15
    <2>1. Groups[g].types = {"navic"}
      BY <1>7, GroupTypes
    <2> QED
      BY <1>1, <2>1 DEF Types, Masked
  <1> QED
    BY <1>2, <1>3, <1>4, <1>5, <1>6, <1>7

-----------------------------------------------------------------------------
(* Counting.                                                               *)

LEMMA CountedFits ==
    ASSUME report \in Seq(Satellites), NEW g \in 1..15
    PROVE  /\ IsFiniteSet(Shown(g)) /\ Cardinality(Shown(g)) \in Nat
           /\ Counted(g) \in Nat /\ Total(g) \in Nat
           /\ Cardinality(Shown(g)) <= Counted(g)
           /\ Counted(g) <= SvsPerSentence * Total(g)
           /\ Counted(g) # 0 => Total(g) >= 1
           /\ Counted(g) = 0 => Total(g) = 0
  <1> DEFINE C == {i \in DOMAIN report : IsCounted(report[i], g)}
  <1>1. DOMAIN report = 1..Len(report) /\ Len(report) \in Nat
    OBVIOUS
  <1>2. IsFiniteSet(DOMAIN report)
    BY <1>1, FS_Interval
  <1>3. IsFiniteSet(C)
    <2>1. C \subseteq DOMAIN report
      OBVIOUS
    <2> QED
      BY <1>2, <2>1, FS_Subset
  <1>4. Shown(g) \subseteq C
    <2> SUFFICES ASSUME NEW i \in DOMAIN report, IsShown(report[i], g)
                 PROVE  IsCounted(report[i], g)
      BY DEF Shown
    <2>1. report[i] \in Satellites
      OBVIOUS
    <2> QED
      BY <2>1, ShownIsCounted
  <1>5. /\ IsFiniteSet(Shown(g)) /\ Cardinality(Shown(g)) <= Cardinality(C)
    BY <1>3, <1>4, FS_Subset
  <1>6. Cardinality(C) \in Nat /\ Cardinality(Shown(g)) \in Nat
    BY <1>3, <1>5, FS_CardinalityType
  <1>7. Counted(g) = Cardinality(C)
    BY DEF Counted
  <1> HIDE DEF C
  <1>8. Total(g) = (Counted(g) + 3) \div 4
    BY <1>6, <1>7 DEF Total, SvsPerSentence
  <1> QED
    BY <1>5, <1>6, <1>7, <1>8 DEF SvsPerSentence

-----------------------------------------------------------------------------
(* Types.                                                                  *)

LEMMA MarkedType ==
    ASSUME NmeaTypeOK, NEW svs \in Seq(Satellites)
    PROVE  /\ Marked(svs) \in Seq(Satellites)
           /\ DOMAIN Marked(svs) = DOMAIN svs
  <1>1. ASSUME NEW i \in DOMAIN svs
        PROVE  [svs[i] EXCEPT !.used = IsMarked(svs[i])] \in Satellites
    <2>1. svs[i] \in Satellites
      OBVIOUS
    <2>2. IsMarked(svs[i]) \in BOOLEAN
      <3>1. svs[i].used \in BOOLEAN
        BY <2>1, SignalOf
      <3> QED
        BY <3>1 DEF IsMarked
    <2> QED
      BY <2>1, <2>2 DEF Satellites
  <1>2. DOMAIN svs = 1..Len(svs) /\ Len(svs) \in Nat
    OBVIOUS
  <1> QED
    BY <1>1, <1>2 DEF Marked

LEMMA InitType == NmeaInit => NmeaTypeOK
  <1> SUFFICES ASSUME NmeaInit PROVE NmeaTypeOK
    OBVIOUS
  <1>1. group \in 0..(Len(Groups) + 1)
    BY GroupCount DEF NmeaInit
  <1>2. marks \in [available : BOOLEAN, multiband : BOOLEAN, used : [Masked -> Masks],
                  bands : [Signals -> Masks]]
    BY DEF NmeaInit, NoMarks, NoMask, NoBands, Masks
  <1>3. report \in Seq(Satellites) /\ line \subseteq DOMAIN report
    BY DEF NmeaInit
  <1>4. leap \in LeapSeconds
    BY DEF NmeaInit, LeapSeconds
  <1>5. number \in Nat \ {0} /\ next \in Nat \ {0} /\ offset \in Nat /\ lastTime \in Nat
    BY DEF NmeaInit
  <1> QED
    BY <1>1, <1>2, <1>3, <1>4, <1>5 DEF NmeaInit, NmeaTypeOK

LEMMA NextType ==
    ASSUME NmeaConstantsFit, NmeaTypeOK, [NmeaNext]_nmeaVars
    PROVE  NmeaTypeOK'
  <1> USE GroupCount
  <1>0. CASE StartSession
    BY <1>0 DEF StartSession, svVars, NmeaTypeOK
  <1>1. CASE StopSession
    BY <1>1 DEF StopSession, svVars, NmeaTypeOK
  <1>2. CASE ReportLeapSecond
    BY <1>2 DEF ReportLeapSecond, svVars, NmeaTypeOK, NmeaConstantsFit
  <1>3. CASE ReportPosition
    <2>1. PICK fix \in FixReports :
             /\ marks' = MarksOf(fix)
             /\ lastTime' = IF NeedsNmea(fix) THEN fix.time.ap ELSE lastTime
      BY <1>3 DEF ReportPosition
    <2>2. fix \in FixKind
      BY DEF NmeaConstantsFit
    <2>3. /\ fix.hasUsed \in BOOLEAN /\ fix.hasBands \in BOOLEAN /\ fix.used \in [Masked -> Masks]
          /\ fix.bands \in [Signals -> Masks] /\ fix.time.ap \in Nat
      BY <2>2 DEF FixKind
    <2>4. lastTime' \in Nat
      BY <2>1, <2>3 DEF NmeaTypeOK
    <2>5. marks' \in [available : BOOLEAN, multiband : BOOLEAN, used : [Masked -> Masks],
                     bands : [Signals -> Masks]]
      BY <2>1, <2>3 DEF NmeaTypeOK, MarksOf
    <2> QED
      BY <1>3, <2>4, <2>5 DEF ReportPosition, svVars, NmeaTypeOK
  <1>4. CASE ReportSv
    <2>1. PICK svs \in SvReports : report' = Marked(svs)
      BY <1>4 DEF ReportSv
    <2>2. report' \in Seq(Satellites)
      BY <2>1, MarkedType DEF NmeaConstantsFit
    <2>3. marks' \in [available : BOOLEAN, multiband : BOOLEAN, used : [Masked -> Masks],
                     bands : [Signals -> Masks]]
      BY <1>4 DEF ReportSv, Unmarked, NmeaTypeOK
    <2>4. offset' \in Nat
      BY <1>4, OffsetOfGroup DEF ReportSv
    <2>5. group' \in 0..(Len(Groups) + 1)
      BY <1>4 DEF ReportSv, NmeaTypeOK
    <2> QED
      BY <1>4, <2>2, <2>3, <2>4, <2>5 DEF ReportSv, NmeaTypeOK
  <1>5. CASE SkipGroup
    <2>1. NextGroup /\ group \in 1..15
      BY <1>5 DEF SkipGroup, Making
    <2>2. group' \in 0..(Len(Groups) + 1) /\ number' = 1 /\ next' = 1 /\ offset' \in Nat
      BY <2>1, OffsetOfGroup DEF NextGroup
    <2> QED
      BY <1>5, <2>2 DEF SkipGroup, positionVars, NmeaTypeOK
  <1>6. CASE LookAtSv
    <2>1. /\ group \in 1..15 /\ next \in DOMAIN report /\ next' = next + 1
          /\ UNCHANGED <<positionVars, report, group, number, sentences>>
      BY <1>6 DEF LookAtSv, Making, IsFull, NmeaTypeOK
    <2>2. CASE IsShown(report[next], group)
      <3>1. offset' \in Nat
        BY <1>6, <2>2 DEF LookAtSv, OwnOffset, NmeaTypeOK
      <3>2. line' = line \cup {next}
        BY <1>6, <2>2 DEF LookAtSv
      <3>3. report[next].svId \in Nat
        BY <2>1 DEF NmeaTypeOK, Satellites
      <3>4. names' \subseteq [group : DOMAIN Groups, at : DOMAIN report, number : Int]
        <4> DEFINE n == IF report[next].type = "glo" /\ report[next].svId = UnknownSlot THEN 0
                        ELSE report[next].svId - offset'
        <4>1. n \in Int
          BY <3>1, <3>3
        <4>2. names' = names \cup {[group |-> group, at |-> next, number |-> n]}
          BY <1>6, <2>2 DEF LookAtSv
        <4> HIDE DEF n
        <4> QED
          BY <2>1, <4>1, <4>2 DEF NmeaTypeOK
      <3> QED
        BY <2>1, <3>1, <3>2, <3>4 DEF NmeaTypeOK, positionVars
    <2>3. CASE ~IsShown(report[next], group)
      BY <1>6, <2>1, <2>3 DEF LookAtSv, NmeaTypeOK, positionVars
    <2> QED
      BY <2>2, <2>3
  <1>7. CASE EndSentence
    <2>1. /\ group \in 1..15 /\ line' = {}
          /\ UNCHANGED <<positionVars, report, names>>
      BY <1>7 DEF EndSentence, Making
    <2>2. Total(group) \in Nat /\ Counted(group) \in Nat
      BY <2>1, CountedFits DEF NmeaTypeOK
    <2>3. sentences' \subseteq [group : DOMAIN Groups, number : Nat \ {0}, total : Nat,
                               count : Nat, svs : SUBSET DOMAIN report]
      <3> DEFINE s == [group |-> group, number |-> number, total |-> Total(group),
                       count |-> Counted(group), svs |-> line]
      <3>1. s \in [group : DOMAIN Groups, number : Nat \ {0}, total : Nat, count : Nat,
                   svs : SUBSET DOMAIN report]
        BY <2>1, <2>2 DEF NmeaTypeOK
      <3>2. sentences' = sentences \cup {s} /\ report' = report
        BY <1>7, <2>1 DEF EndSentence
      <3> HIDE DEF s
      <3> QED
        BY <3>1, <3>2 DEF NmeaTypeOK
    <2>4. /\ group' \in 0..(Len(Groups) + 1) /\ number' \in Nat \ {0} /\ next' \in Nat \ {0}
          /\ offset' \in Nat
      <3>1. CASE number = Total(group)
        <4>1. NextGroup
          BY <1>7, <3>1 DEF EndSentence
        <4> QED
          BY <2>1, <4>1, OffsetOfGroup DEF NextGroup
      <3>2. CASE number # Total(group)
        BY <1>7, <2>1, <3>2 DEF EndSentence, NmeaTypeOK
      <3> QED
        BY <3>1, <3>2
    <2> QED
      BY <2>1, <2>3, <2>4 DEF NmeaTypeOK, positionVars
  <1>8. CASE EndReport
    <2>1. marks' \in [available : BOOLEAN, multiband : BOOLEAN, used : [Masked -> Masks],
                     bands : [Signals -> Masks]]
      BY <1>8 DEF EndReport, Unmarked, NmeaTypeOK
    <2> QED
      BY <1>8, <2>1 DEF EndReport, NmeaTypeOK
  <1>9. CASE UNCHANGED nmeaVars
    BY <1>9 DEF nmeaVars, NmeaTypeOK
  <1> QED
    BY <1>0, <1>1, <1>2, <1>3, <1>4, <1>5, <1>6, <1>7, <1>8, <1>9 DEF NmeaNext

-----------------------------------------------------------------------------
(* The loop.                                                               *)

\* The satellites of the group that have been looked at are in its sentences, or in the one
\* under way; while there are more to look at, all sentences that are ready are full.
Seen == {i \in Shown(group) : i < next}
Loop ==
    Making =>
    /\ next <= Len(report) + 1
    /\ Counted(group) = 0 => number = 1
    /\ Counted(group) # 0 => number <= Total(group)
    /\ Seen = line \cup UNION {s.svs : s \in Of(group)}
    /\ next <= Len(report) =>
          Cardinality(Seen) = SvsPerSentence * (number - 1) + Cardinality(line)
    /\ \A s \in Of(group) : line \cap s.svs = {} /\ s.number < number
    /\ \A k \in 1..(number - 1) : \E s \in Of(group) : s.number = k

LineFits == Cardinality(line) <= SvsPerSentence /\ (~Making => line = {})

NoneLater == Making => \A s \in sentences : s.group <= group

OnlyShown == \A s \in sentences : s.svs \subseteq Shown(s.group)

SvInv ==
    /\ Loop /\ LineFits /\ NoneLater /\ OnlyShown
    /\ SvsShownOnce /\ NumberedThrough

\* A group begins with nothing in its sentences.
LEMMA Begins ==
    NmeaTypeOK /\ number = 1 /\ next = 1 /\ line = {} /\ (Making => \A s \in sentences : s.group < group)
    => Loop /\ LineFits /\ NoneLater
  <1> SUFFICES ASSUME NmeaTypeOK, number = 1, next = 1, line = {},
                      Making => \A s \in sentences : s.group < group
               PROVE  Loop /\ LineFits /\ NoneLater
    OBVIOUS
  <1>1. Cardinality(line) = 0
    BY FS_EmptySet
  <1>2. LineFits
    BY <1>1 DEF LineFits, SvsPerSentence
  <1>3. ASSUME Making
        PROVE  Loop /\ NoneLater
    <2>1. group \in 1..15
      BY <1>3, GroupCount DEF Making
    <2>2. \A s \in sentences : s.group < group /\ s.group \in 1..15
      BY <1>3, GroupCount DEF NmeaTypeOK
    <2>3. Of(group) = {}
      BY <2>1, <2>2 DEF Of
    <2>4. Seen = {}
      BY GroupCount DEF Seen, Shown, NmeaTypeOK
    <2>5. Cardinality(Seen) = 0
      BY <2>4, FS_EmptySet
    <2>6. Counted(group) # 0 => Total(group) >= 1 /\ Total(group) \in Nat
      BY <2>1, CountedFits DEF NmeaTypeOK
    <2>7. Len(report) \in Nat
      BY DEF NmeaTypeOK
    <2>8. NoneLater
      BY <2>1, <2>2 DEF NoneLater
    <2>9. UNION {s.svs : s \in Of(group)} = {}
      BY <2>3
    <2> QED
      BY <1>1, <2>3, <2>4, <2>5, <2>6, <2>7, <2>8, <2>9 DEF Loop, SvsPerSentence
  <1> QED
    BY <1>2, <1>3 DEF Loop, NoneLater

\* What is there of a group when all its satellites are in sentences.
Complete(g) ==
    /\ Shown(g) = UNION {s.svs : s \in Of(g)}
    /\ {s.number : s \in Of(g)} = 1..Total(g)

LEMMA Kept ==
    ASSUME report' = report, NEW g
    PROVE  /\ Shown(g)' = Shown(g) /\ Counted(g)' = Counted(g) /\ Total(g)' = Total(g)
  BY DEF Shown, Counted, Total

\* Nothing but the group has changed, which is complete.
LEMMA Goes ==
    ASSUME NmeaTypeOK, NmeaTypeOK', SvInv, Making, NextGroup, NEW over, over = group, Complete(over)',
           line' = {}, report' = report,
           \A s \in sentences' : s.group <= group,
           \A s \in sentences' \ sentences : s.group = group,
           sentences \subseteq sentences'
    PROVE  /\ (Loop /\ LineFits /\ NoneLater)'
           /\ \A g \in Ended' : Complete(g)'
  <1>1. group \in 1..15 /\ group' = group + 1
    BY GroupCount DEF Making, NextGroup
  <1>2. (Loop /\ LineFits /\ NoneLater)'
    <2>1. number' = 1 /\ next' = 1
      BY DEF NextGroup
    <2>2. \A s \in sentences' : s.group \in 1..15
      BY GroupCount DEF NmeaTypeOK
    <2>3. (/\ NmeaTypeOK /\ number = 1 /\ next = 1 /\ line = {}
           /\ Making => \A s \in sentences : s.group < group)'
      BY <1>1, <2>1, <2>2
    <2> QED
      BY <2>3, Begins, PTL
  <1>3. ASSUME NEW g \in Ended'
        PROVE  Complete(g)'
    <2>1. g \in 1..15 /\ (g = over \/ g < group)
      BY <1>1, <1>3, GroupCount DEF Ended
    <2>2. CASE g = over
      BY <2>2
    <2>3. CASE g < group
      <3>1. g \in Ended
        BY <2>1, <2>3, GroupCount DEF Ended
      <3>2. Complete(g)
        BY <3>1 DEF SvInv, SvsShownOnce, NumberedThrough, Complete
      <3>3. Of(g)' = Of(g)
        BY <1>1, <2>1, <2>3 DEF Of
      <3> QED
        BY <3>2, <3>3, Kept DEF Complete
    <2> QED
      BY <2>1, <2>2, <2>3
  <1> QED
    BY <1>2, <1>3

\* The sentences are the same, of the same report.
LEMMA SameSentences ==
    ASSUME SvInv, report' = report, sentences' = sentences
    PROVE  /\ OnlyShown'
           /\ \A g : Complete(g)' = Complete(g)
           /\ (\A s, t \in sentences : s.group = t.group /\ s # t => s.svs \cap t.svs = {})'
           /\ (\A s \in sentences : Cardinality(s.svs) <= SvsPerSentence)'
           /\ (\A s \in sentences : s.total = Total(s.group) /\ s.count = Counted(s.group))'
           /\ (\A s, t \in sentences : s.group = t.group /\ s.number = t.number => s = t)'
  <1>1. \A g : Of(g)' = Of(g)
    BY DEF Of
  <1>2. OnlyShown'
    BY Kept DEF SvInv, OnlyShown
  <1>3. \A g : Complete(g)' = Complete(g)
    BY <1>1, Kept DEF Complete
  <1>4. (\A s \in sentences : s.total = Total(s.group) /\ s.count = Counted(s.group))'
    BY Kept DEF SvInv, NumberedThrough
  <1> QED
    BY <1>2, <1>3, <1>4 DEF SvInv, SvsShownOnce, NumberedThrough

\* The properties, as they are shown.
Sound ==
    /\ \A g \in Ended : Complete(g)
    /\ \A s, t \in sentences : s.group = t.group /\ s # t => s.svs \cap t.svs = {}
    /\ \A s \in sentences : Cardinality(s.svs) <= SvsPerSentence
    /\ \A s \in sentences : s.total = Total(s.group) /\ s.count = Counted(s.group)
    /\ \A s, t \in sentences : s.group = t.group /\ s.number = t.number => s = t

LEMMA Restate == Sound => SvsShownOnce /\ NumberedThrough
  BY DEF Sound, SvsShownOnce, NumberedThrough, Complete

LEMMA Unfold ==
    ASSUME SvInv
    PROVE  \A g \in Ended : Complete(g)
  BY DEF SvInv, SvsShownOnce, NumberedThrough, Complete

LEMMA SkipKeeps ==
    ASSUME NmeaTypeOK, NmeaTypeOK', SvInv, SkipGroup
    PROVE  SvInv'
  <1>1. /\ Making /\ group \in 1..15 /\ Counted(group) = 0 /\ NextGroup
        /\ report' = report /\ line' = line /\ sentences' = sentences
    BY GroupCount DEF SkipGroup, Making
  <1>2. Shown(group) = {} /\ Total(group) = 0
    <2>1. /\ IsFiniteSet(Shown(group)) /\ Cardinality(Shown(group)) \in Nat
          /\ Cardinality(Shown(group)) <= Counted(group) /\ Total(group) = 0
      BY <1>1, CountedFits DEF NmeaTypeOK
    <2> QED
      BY <1>1, <2>1, FS_EmptySet
  <1>3. line = {} /\ Of(group) = {}
    <2>1. number = 1 /\ \A s \in Of(group) : s.number < number
      BY <1>1 DEF SvInv, Loop
    <2>2. \A s \in Of(group) : s.number \in Nat \ {0}
      BY DEF Of, NmeaTypeOK
    <2>3. Of(group) = {}
      BY <2>1, <2>2
    <2>4. line \subseteq Seen
      BY <1>1 DEF SvInv, Loop
    <2> QED
      BY <1>2, <2>3, <2>4 DEF Seen
  <1> DEFINE over == group
  <1>4. Complete(over)
    BY <1>2, <1>3 DEF Complete
  <1> HIDE DEF over
  <1>5. over = group
    BY DEF over
  <1>6. PICK g \in 1..15 : g = group
    BY <1>1
  <1>7. Complete(g)'
    BY <1>1, <1>4, <1>5, <1>6, SameSentences
  <1>8. \A s \in sentences' : s.group <= group
    BY <1>1 DEF SvInv, NoneLater
  <1>9. (Loop /\ LineFits /\ NoneLater)' /\ \A h \in Ended' : Complete(h)'
    BY <1>1, <1>3, <1>6, <1>7, <1>8, Goes
  <1>10. Sound'
    BY <1>1, <1>9, SameSentences DEF Sound
  <1>11. (SvsShownOnce /\ NumberedThrough)'
    BY <1>10, Restate, PTL
  <1> QED
    BY <1>1, <1>9, <1>11, SameSentences DEF SvInv

LEMMA LookKeeps ==
    ASSUME NmeaTypeOK, NmeaTypeOK', SvInv, LookAtSv
    PROVE  SvInv'
  <1>1. /\ Making /\ group \in 1..15 /\ next \in DOMAIN report /\ Cardinality(line) # SvsPerSentence
        /\ next' = next + 1 /\ group' = group /\ number' = number
        /\ report' = report /\ sentences' = sentences
    BY GroupCount DEF LookAtSv, Making, IsFull, NmeaTypeOK
  <1>2. Len(report) \in Nat /\ DOMAIN report = 1..Len(report)
    BY DEF NmeaTypeOK
  <1>3. Making'
    BY <1>1 DEF Making
  <1>4. /\ Shown(group)' = Shown(group) /\ Counted(group)' = Counted(group)
        /\ Total(group)' = Total(group) /\ Of(group)' = Of(group)
    BY <1>1 DEF Shown, Counted, Total, Of
  <1>5. /\ IsFiniteSet(line) /\ Cardinality(line) \in Nat
        /\ IsFiniteSet(Seen) /\ Cardinality(Seen) \in Nat
    <2>1. IsFiniteSet(DOMAIN report)
      BY <1>2, FS_Interval
    <2>2. line \subseteq DOMAIN report /\ Seen \subseteq DOMAIN report
      BY DEF NmeaTypeOK, Seen, Shown
    <2> QED
      BY <2>1, <2>2, FS_Subset, FS_CardinalityType
  <1>6. /\ Counted(group) = 0 => number = 1
        /\ Counted(group) # 0 => number <= Total(group)
        /\ Seen = line \cup UNION {s.svs : s \in Of(group)}
        /\ Cardinality(Seen) = SvsPerSentence * (number - 1) + Cardinality(line)
        /\ \A s \in Of(group) : line \cap s.svs = {} /\ s.number < number
        /\ \A k \in 1..(number - 1) : \E s \in Of(group) : s.number = k
    BY <1>1, <1>2 DEF SvInv, Loop
  <1>7. next \notin Seen /\ next \in Nat
    BY <1>1, <1>2 DEF Seen
  <1>8. /\ Seen' = line' \cup UNION {s.svs : s \in Of(group)}
        /\ Cardinality(Seen') = SvsPerSentence * (number - 1) + Cardinality(line')
        /\ \A s \in Of(group) : line' \cap s.svs = {}
        /\ Cardinality(line') <= SvsPerSentence
    <2>1. CASE IsShown(report[next], group)
      <3>1. line' = line \cup {next}
        BY <1>1, <2>1 DEF LookAtSv
      <3>2. Seen' = Seen \cup {next}
        <4>1. \A i \in Shown(group) : i \in Nat
          BY <1>2 DEF Shown
        <4>2. next \in Shown(group)
          BY <1>1, <2>1 DEF Shown
        <4> QED
          BY <1>1, <1>4, <1>7, <4>1, <4>2 DEF Seen
      <3>3. next \notin line
        BY <1>6, <1>7
      <3>4. Cardinality(line') = Cardinality(line) + 1
        BY <1>5, <3>1, <3>3, FS_AddElement
      <3>5. Cardinality(Seen') = Cardinality(Seen) + 1
        BY <1>5, <1>7, <3>2, FS_AddElement
      <3>6. \A s \in Of(group) : next \notin s.svs
        BY <1>6, <1>7
      <3>7. Seen' = line' \cup UNION {s.svs : s \in Of(group)}
        BY <1>6, <3>1, <3>2
      <3>8. Cardinality(line') <= SvsPerSentence
        BY <1>1, <1>5, <3>4 DEF SvInv, LineFits, SvsPerSentence
      <3>9. number \in Nat
        BY DEF NmeaTypeOK
      <3>10. Cardinality(Seen') = SvsPerSentence * (number - 1) + Cardinality(line')
        BY <1>5, <1>6, <3>4, <3>5, <3>9 DEF SvsPerSentence
      <3> QED
        BY <1>6, <3>1, <3>6, <3>7, <3>8, <3>10
    <2>2. CASE ~IsShown(report[next], group)
      <3>1. line' = line
        BY <1>1, <2>2 DEF LookAtSv
      <3>2. Seen' = Seen
        <4>1. \A i \in Shown(group) : i \in Nat
          BY <1>2 DEF Shown
        <4>2. next \notin Shown(group)
          BY <2>2 DEF Shown
        <4> QED
          BY <1>1, <1>4, <1>7, <4>1, <4>2 DEF Seen
      <3> QED
        BY <1>6, <3>1, <3>2 DEF SvInv, LineFits
    <2> QED
      BY <2>1, <2>2
  <1>9. Loop'
    <2>1. next' <= Len(report)' + 1
      BY <1>1, <1>2
    <2> QED
      BY <1>1, <1>3, <1>4, <1>6, <1>8, <2>1 DEF Loop
  <1>10. LineFits'
    BY <1>3, <1>8 DEF LineFits
  <1>11. NoneLater'
    BY <1>1 DEF SvInv, NoneLater
  <1>12. Sound'
    <2>1. Ended' = Ended
      BY <1>1 DEF Ended
    <2> QED
      BY <1>1, <2>1, SameSentences, Unfold DEF Sound
  <1>13. (SvsShownOnce /\ NumberedThrough)'
    BY <1>12, Restate, PTL
  <1> QED
    BY <1>1, <1>9, <1>10, <1>11, <1>13, SameSentences DEF SvInv

LEMMA EndKeeps ==
    ASSUME NmeaTypeOK, NmeaTypeOK', SvInv, EndSentence
    PROVE  SvInv'
  <1> DEFINE new == [group |-> group, number |-> number, total |-> Total(group),
                     count |-> Counted(group), svs |-> line]
  <1>1. /\ Making /\ group \in 1..15 /\ Counted(group) # 0 /\ IsFull
        /\ sentences' = sentences \cup {new} /\ line' = {} /\ report' = report
    BY GroupCount DEF EndSentence, Making
  <1>2. /\ new.group = group /\ new.number = number /\ new.total = Total(group)
        /\ new.count = Counted(group) /\ new.svs = line
    OBVIOUS
  <1> HIDE DEF new
  <1>3. /\ next <= Len(report) + 1 /\ number <= Total(group)
        /\ Seen = line \cup UNION {s.svs : s \in Of(group)}
        /\ next <= Len(report) =>
              Cardinality(Seen) = SvsPerSentence * (number - 1) + Cardinality(line)
        /\ \A s \in Of(group) : line \cap s.svs = {} /\ s.number < number
        /\ \A k \in 1..(number - 1) : \E s \in Of(group) : s.number = k
    BY <1>1 DEF SvInv, Loop
  <1>4. PICK g \in 1..15 : g = group
    BY <1>1
  <1>5. /\ Shown(g)' = Shown(g) /\ Total(g)' = Total(g) /\ Counted(g)' = Counted(g)
        /\ Of(g)' = Of(g) \cup {new}
    BY <1>1, <1>2, <1>4 DEF Shown, Total, Counted, Of
  <1>6. Len(report) \in Nat /\ number \in Nat \ {0} /\ next \in Nat \ {0}
    BY DEF NmeaTypeOK
  <1>7. /\ \A s \in Of(g) : s.number \in Nat \ {0}
        /\ Total(g) \in Nat
        /\ IsFiniteSet(Shown(g)) /\ Cardinality(Shown(g)) <= Counted(g)
        /\ Cardinality(Shown(g)) \in Nat /\ Counted(g) \in Nat
        /\ Counted(g) <= SvsPerSentence * Total(g)
    BY CountedFits DEF Of, NmeaTypeOK
  <1>8. {s.number : s \in Of(g)'} = 1..number
    <2>1. \A s \in Of(g)' : s.number \in 1..number
      BY <1>2, <1>3, <1>4, <1>5, <1>6, <1>7
    <2>2. ASSUME NEW k \in 1..number
          PROVE  \E s \in Of(g)' : s.number = k
      <3>1. CASE k = number
        BY <1>2, <1>5, <3>1
      <3>2. CASE k # number
        <4>1. k \in 1..(number - 1)
          BY <1>6, <3>2
        <4> QED
          BY <1>3, <1>4, <1>5, <4>1
      <3> QED
        BY <3>1, <3>2
    <2> QED
      BY <2>1, <2>2
  <1>9. UNION {s.svs : s \in Of(g)'} = Seen
    BY <1>2, <1>3, <1>4, <1>5
  <1>10. (OnlyShown /\ \A s \in sentences : Cardinality(s.svs) <= SvsPerSentence)'
    <2>1. line \subseteq Shown(group)
      BY <1>3 DEF Seen
    <2>2. Cardinality(line) <= SvsPerSentence
      BY DEF SvInv, LineFits
    <2>3. \A s \in sentences : s.svs \subseteq Shown(s.group)
      BY DEF SvInv, OnlyShown
    <2>4. \A s \in sentences : Cardinality(s.svs) <= SvsPerSentence
      BY DEF SvInv, SvsShownOnce
    <2>5. \A h : Shown(h)' = Shown(h)
      BY <1>1, Kept
    <2> QED
      BY <1>1, <1>2, <2>1, <2>2, <2>3, <2>4, <2>5 DEF OnlyShown
  <1>11. (/\ \A s, t \in sentences : s.group = t.group /\ s # t => s.svs \cap t.svs = {}
          /\ \A s, t \in sentences : s.group = t.group /\ s.number = t.number => s = t)'
    <2>1. \A s \in sentences : s.group = group =>
             line \cap s.svs = {} /\ s.number < number /\ s.number \in Nat
      BY <1>3, <1>4, <1>7 DEF Of
    <2>2. \A s, t \in sentences : s.group = t.group /\ s # t => s.svs \cap t.svs = {}
      BY DEF SvInv, SvsShownOnce
    <2>3. \A s, t \in sentences : s.group = t.group /\ s.number = t.number => s = t
      BY DEF SvInv, NumberedThrough
    <2>4. \A s \in sentences : s.group = group => s.number # number
      BY <1>6, <2>1
    <2>5. (\A s, t \in sentences : s.group = t.group /\ s # t => s.svs \cap t.svs = {})'
      BY <1>1, <1>2, <2>1, <2>2
    <2>6. (\A s, t \in sentences : s.group = t.group /\ s.number = t.number => s = t)'
      BY <1>1, <1>2, <2>3, <2>4
    <2> QED
      BY <2>5, <2>6
  <1>12. (\A s \in sentences : s.total = Total(s.group) /\ s.count = Counted(s.group))'
    <2>1. \A s \in sentences : s.total = Total(s.group) /\ s.count = Counted(s.group)
      BY DEF SvInv, NumberedThrough
    <2>2. \A h : Total(h)' = Total(h) /\ Counted(h)' = Counted(h)
      BY <1>1, Kept
    <2> QED
      BY <1>1, <1>2, <2>1, <2>2
  <1>13. /\ \A s \in sentences' : s.group <= group
         /\ \A s \in sentences' \ sentences : s.group = group
         /\ sentences \subseteq sentences'
    BY <1>1, <1>2 DEF SvInv, NoneLater
  <1>14. (Loop /\ LineFits /\ NoneLater)' /\ \A h \in Ended' : Complete(h)'
    <2>1. CASE number = Total(group)
      <3>1. NextGroup
        BY <2>1 DEF EndSentence
      <3>2. Seen = Shown(g)
        <4>1. CASE next > Len(report)
          <5>1. \A i \in Shown(group) : i < next
            BY <1>6, <4>1 DEF Shown, NmeaTypeOK
          <5> QED
            BY <1>4, <5>1 DEF Seen
        <4>2. CASE next <= Len(report)
          <5>1. Cardinality(line) = SvsPerSentence
            BY <1>1, <1>6, <4>2 DEF IsFull
          <5>2. Cardinality(Seen) = SvsPerSentence * Total(g)
            BY <1>3, <1>4, <1>6, <2>1, <4>2, <5>1 DEF SvsPerSentence
          <5>3. Seen \subseteq Shown(g)
            BY <1>4 DEF Seen
          <5>4. Cardinality(Seen) <= Cardinality(Shown(g))
            BY <1>7, <5>3, FS_Subset
          <5>5. Cardinality(Seen) = Cardinality(Shown(g))
            BY <1>7, <5>2, <5>4 DEF SvsPerSentence
          <5> QED
            BY <1>7, <5>3, <5>5, FS_Subset
        <4> QED
          BY <1>6, <4>1, <4>2
      <3>3. Complete(g)'
        BY <1>4, <1>5, <1>8, <1>9, <2>1, <3>2 DEF Complete
      <3> QED
        BY <1>1, <1>4, <1>13, <3>1, <3>3, Goes
    <2>2. CASE number # Total(group)
      <3>1. number' = number + 1 /\ group' = group /\ next' = next
        BY <2>2 DEF EndSentence
      <3>2. Making'
        BY <1>1, <3>1 DEF Making
      <3>3. Cardinality({}) = 0
        BY FS_EmptySet
      <3>4. Seen' = Seen
        BY <1>4, <1>5, <3>1 DEF Seen
      <3>5. LineFits'
        BY <1>1, <3>2, <3>3 DEF LineFits, SvsPerSentence
      <3>6. next <= Len(report) => Cardinality(Seen) = SvsPerSentence * number
        <4>1. next <= Len(report) => Cardinality(line) = SvsPerSentence
          BY <1>1, <1>6 DEF IsFull
        <4> QED
          BY <1>3, <1>6, <4>1 DEF SvsPerSentence
      <3>7. Of(group)' = Of(g)'
        BY <1>4, <3>1
      <3>8. Loop'
        <4>1. /\ next' <= Len(report)' + 1
              /\ Counted(group)' # 0
              /\ number' <= Total(group)'
          BY <1>1, <1>3, <1>4, <1>5, <1>6, <1>7, <2>2, <3>1
        <4>2. Seen' = line' \cup UNION {s.svs : s \in Of(group)'}
          BY <1>1, <1>9, <3>4, <3>7
        <4>3. next' <= Len(report)' =>
                Cardinality(Seen)' = SvsPerSentence * (number' - 1) + Cardinality(line)'
          BY <1>1, <1>6, <3>1, <3>3, <3>4, <3>6 DEF SvsPerSentence
        <4>4. \A s \in Of(group)' : line' \cap s.svs = {} /\ s.number < number'
          <5>1. line' = {} /\ number' = number + 1 /\ number \in Nat
            BY <1>1, <1>6, <3>1
          <5>2. \A s \in Of(group)' : s.number \in 1..number
            BY <1>8, <3>7
          <5> QED
            BY <5>1, <5>2
        <4>5. \A k \in 1..(number' - 1) : \E s \in Of(group)' : s.number = k
          <5>1. number' - 1 = number
            BY <1>6, <3>1
          <5> QED
            BY <1>8, <3>7, <5>1
        <4> QED
          BY <4>1, <4>2, <4>3, <4>4, <4>5 DEF Loop
      <3>9. NoneLater'
        BY <1>13, <3>1 DEF NoneLater
      <3>10. ASSUME NEW h \in Ended'
             PROVE  Complete(h)'
        <4>1. h \in Ended /\ h \in 1..15 /\ h < group
          BY <3>1, <3>10, GroupCount DEF Ended
        <4>2. Of(h)' = Of(h)
          BY <1>1, <1>2, <4>1 DEF Of
        <4>3. Complete(h)
          BY <4>1, Unfold
        <4> QED
          BY <1>1, <4>2, <4>3, Kept DEF Complete
      <3> QED
        BY <3>5, <3>8, <3>9, <3>10
    <2> QED
      BY <2>1, <2>2
  <1>15. Sound'
    BY <1>10, <1>11, <1>12, <1>14 DEF Sound
  <1>16. (SvsShownOnce /\ NumberedThrough)'
    BY <1>15, Restate, PTL
  <1> QED
    BY <1>10, <1>14, <1>16 DEF SvInv

LEMMA InitSvs == NmeaInit => SvInv
  <1> SUFFICES ASSUME NmeaInit PROVE SvInv
    OBVIOUS
  <1>1. ~Making /\ sentences = {} /\ Ended = {}
    BY GroupCount DEF NmeaInit, Making, Ended
  <1>2. Cardinality(line) = 0
    BY FS_EmptySet DEF NmeaInit
  <1>3. Loop /\ LineFits /\ NoneLater /\ OnlyShown
    BY <1>1, <1>2 DEF NmeaInit, Loop, LineFits, NoneLater, OnlyShown, SvsPerSentence
  <1> QED
    BY <1>1, <1>3 DEF SvInv, SvsShownOnce, NumberedThrough

LEMMA NextSvs ==
    ASSUME NmeaTypeOK, NmeaTypeOK', SvInv, [NmeaNext]_nmeaVars
    PROVE  SvInv'
  <1>1. CASE UNCHANGED svVars
    BY <1>1 DEF svVars, SvInv, Loop, LineFits, NoneLater, OnlyShown, SvsShownOnce, NumberedThrough,
                Making, Seen, Shown, Of, Ended, Counted, Total
  <1>2. CASE ReportSv
    <2>1. /\ number' = 1 /\ next' = 1 /\ line' = {} /\ sentences' = {} /\ group' \in {0, 1}
      BY <1>2 DEF ReportSv, Idle
    <2>2. (/\ NmeaTypeOK /\ number = 1 /\ next = 1 /\ line = {}
           /\ Making => \A s \in sentences : s.group < group)'
      BY <2>1
    <2>3. (Loop /\ LineFits /\ NoneLater)'
      BY <2>2, Begins, PTL
    <2>4. Ended' = {}
      BY <2>1, GroupCount DEF Ended
    <2>5. (OnlyShown /\ SvsShownOnce /\ NumberedThrough)'
      BY <2>1, <2>4 DEF OnlyShown, SvsShownOnce, NumberedThrough
    <2> QED
      BY <2>3, <2>5 DEF SvInv
  <1>3. CASE EndReport
    <2>1. ~Making /\ ~Making' /\ Ended' = {} /\ line' = line /\ report' = report /\ sentences' = sentences
      BY <1>3, GroupCount DEF EndReport, Making, Ended
    <2>2. (Loop /\ LineFits /\ NoneLater)'
      BY <2>1 DEF SvInv, Loop, LineFits, NoneLater
    <2>3. Sound'
      BY <2>1, SameSentences DEF Sound
    <2>4. (SvsShownOnce /\ NumberedThrough)'
      BY <2>3, Restate, PTL
    <2> QED
      BY <2>1, <2>2, <2>4, SameSentences DEF SvInv
  <1> QED
    BY <1>1, <1>2, <1>3, SkipKeeps, LookKeeps, EndKeeps
    DEF NmeaNext, nmeaVars, svVars, StartSession, StopSession, ReportLeapSecond, ReportPosition

-----------------------------------------------------------------------------
(* Names.                                                                  *)

AfterSbas(g, at) == \E i \in Shown(g) : i < at /\ report[i].type = "sbas"

\* The offset is that of the group, but for the one of SBAS after one of SBAS; the numbers in
\* the sentences are those of satellites that were looked at.
NameInv ==
    /\ Making => offset = OffsetOf(group) \/ AfterSbas(group, next)
    /\ \A n \in names : n.at \in Shown(n.group)
    /\ NamedByNumber

LEMMA InitNames == NmeaInit => NameInv
  <1> SUFFICES ASSUME NmeaInit PROVE NameInv
    OBVIOUS
  <1>1. ~Making
    BY GroupCount DEF NmeaInit, Making
  <1> QED
    BY <1>1 DEF NmeaInit, NameInv, NamedByNumber

LEMMA SameNames ==
    ASSUME NameInv, report' = report, names' = names
    PROVE  (\A n \in names : n.at \in Shown(n.group))' /\ NamedByNumber'
  BY DEF NameInv, NamedByNumber, Shown

LEMMA LookNames ==
    ASSUME NmeaTypeOK, NameInv, LookAtSv
    PROVE  NameInv'
  <1>1. /\ Making /\ group \in 1..15 /\ next \in DOMAIN report /\ next' = next + 1
        /\ group' = group /\ report' = report
    BY GroupCount DEF LookAtSv, Making, IsFull, NmeaTypeOK
  <1>2. \A g : Shown(g)' = Shown(g)
    BY <1>1, Kept
  <1>3. /\ report[next] \in Satellites /\ next \in Nat /\ \A i \in DOMAIN report : i \in Nat
        /\ offset = OffsetOf(group) \/ AfterSbas(group, next)
    BY <1>1 DEF NmeaTypeOK, NameInv
  <1>4. AfterSbas(group, next) => AfterSbas(group, next)'
    BY <1>1, <1>2, <1>3 DEF AfterSbas, Shown
  <1>5. CASE ~IsShown(report[next], group)
    <2>1. offset' = offset /\ names' = names
      BY <1>1, <1>5 DEF LookAtSv
    <2>2. (Making => offset = OffsetOf(group) \/ AfterSbas(group, next))'
      BY <1>1, <1>3, <1>4, <2>1
    <2> QED
      BY <1>1, <2>1, <2>2, SameNames DEF NameInv
  <1>6. CASE IsShown(report[next], group)
    <2> DEFINE sv == report[next]
               new == [group |-> group, at |-> next,
                       number |-> IF sv.type = "glo" /\ sv.svId = UnknownSlot THEN 0
                                  ELSE sv.svId - offset']
    <2>1. /\ offset' = (IF sv.type = "sbas" THEN OwnOffset["sbas"] ELSE offset)
          /\ names' = names \cup {new}
      BY <1>1, <1>6 DEF LookAtSv
    <2>2. next \in Shown(group)
      BY <1>1, <1>6 DEF Shown
    <2>3. /\ new.group = group /\ new.at = next
          /\ new.number = IF sv.type = "glo" /\ sv.svId = UnknownSlot THEN 0
                          ELSE sv.svId - offset'
      OBVIOUS
    <2> HIDE DEF new
    <2>4. (Making => offset = OffsetOf(group) \/ AfterSbas(group, next))'
      <3>1. CASE sv.type = "sbas"
        <4>1. AfterSbas(group, next)'
          BY <1>1, <1>2, <1>3, <2>2, <3>1 DEF AfterSbas
        <4> QED
          BY <4>1
      <3>2. CASE sv.type # "sbas"
        BY <1>1, <1>3, <1>4, <2>1, <3>2
      <3> QED
        BY <3>1, <3>2
    <2>5. (\A n \in names : n.at \in Shown(n.group))'
      BY <1>2, <2>1, <2>2, <2>3 DEF NameInv
    <2>6. \/ new.number = sv.svId - OwnOffset[sv.type]
          \/ sv.type = "glo" /\ sv.svId = UnknownSlot /\ new.number = 0
          \/ sv.type = "gps" /\ AfterSbas(group, next)
      <3>1. sv.type \in Groups[group].types
        BY <1>6 DEF IsShown
      <3>2. CASE sv.type = "sbas"
        BY <2>1, <2>3, <3>2
      <3>3. CASE sv.type # "sbas" /\ offset = OffsetOf(group)
        <4>1. OwnOffset[sv.type] = offset
          BY <1>1, <3>1, <3>3, OffsetOfGroup
        <4> QED
          BY <2>1, <2>3, <3>3, <4>1
      <3>4. CASE sv.type # "sbas" /\ AfterSbas(group, next)
        <4>1. PICK i \in Shown(group) : report[i].type = "sbas"
          BY <3>4 DEF AfterSbas
        <4>2. "sbas" \in Groups[group].types
          BY <4>1 DEF Shown, IsShown
        <4>3. Groups[group].types = {"gps", "sbas"}
          BY <1>1, <4>2, GroupTypes
        <4> QED
          BY <3>1, <3>4, <4>3
      <3> QED
        BY <1>3, <3>2, <3>3, <3>4
    <2>7. NamedByNumber'
      <3> SUFFICES ASSUME NEW n \in names'
                   PROVE  \/ n.number = report[n.at].svId - OwnOffset[report[n.at].type]
                          \/ /\ report[n.at].type = "glo" /\ report[n.at].svId = UnknownSlot
                             /\ n.number = 0
                          \/ /\ report[n.at].type = "gps"
                             /\ \E i \in Shown(n.group) : i < n.at /\ report[i].type = "sbas"
        BY <1>1, <1>2 DEF NamedByNumber
      <3>1. CASE n \in names
        BY <3>1 DEF NameInv, NamedByNumber
      <3>2. CASE n = new
        BY <2>3, <2>6, <3>2 DEF AfterSbas
      <3> QED
        BY <2>1, <3>1, <3>2
    <2> QED
      BY <2>4, <2>5, <2>7 DEF NameInv
  <1> QED
    BY <1>5, <1>6

LEMMA NextNames ==
    ASSUME NmeaTypeOK, NameInv, [NmeaNext]_nmeaVars
    PROVE  NameInv'
  <1>1. CASE UNCHANGED svVars
    BY <1>1 DEF svVars, NameInv, NamedByNumber, Making, AfterSbas, Shown
  <1>2. CASE ReportSv
    <2>1. offset' = OffsetOf(1) /\ names' = {} /\ group' \in {0, 1}
      BY <1>2 DEF ReportSv, Idle
    <2>2. (Making => offset = OffsetOf(group) \/ AfterSbas(group, next))'
      BY <2>1, GroupCount DEF Making
    <2> QED
      BY <2>1, <2>2 DEF NameInv, NamedByNumber
  <1>3. CASE SkipGroup \/ EndSentence
    <2>1. /\ report' = report /\ names' = names /\ Making
          /\ NextGroup \/ UNCHANGED <<group, next, offset>>
      BY <1>3 DEF SkipGroup, EndSentence
    <2>2. (Making => offset = OffsetOf(group) \/ AfterSbas(group, next))'
      <3>1. CASE NextGroup
        <4>1. Making' => group < Len(Groups)
          BY <2>1, <3>1, GroupCount DEF NextGroup, Making
        <4> QED
          BY <3>1, <4>1 DEF NextGroup
      <3>2. CASE UNCHANGED <<group, next, offset>>
        BY <2>1, <3>2 DEF NameInv, Making, AfterSbas, Shown
      <3> QED
        BY <2>1, <3>1, <3>2
    <2> QED
      BY <2>1, <2>2, SameNames DEF NameInv
  <1>4. CASE EndReport
    <2>1. ~Making' /\ report' = report /\ names' = names
      BY <1>4, GroupCount DEF EndReport, Making
    <2> QED
      BY <2>1, SameNames DEF NameInv
  <1> QED
    BY <1>1, <1>2, <1>3, <1>4, LookNames
    DEF NmeaNext, nmeaVars, svVars, StartSession, StopSession, ReportLeapSecond, ReportPosition

-----------------------------------------------------------------------------
(* The theorems about the sentences of satellites.                         *)

\* The report under way consists of satellites, the sentences are of its satellites, and the
\* marks are masks.
THEOREM TypesKept ==
    ASSUME NmeaConstantsFit
    PROVE  NmeaSpec => []NmeaTypeOK
  <1>1. NmeaTypeOK /\ [NmeaNext]_nmeaVars => NmeaTypeOK'
    BY NextType
  <1> QED
    BY <1>1, InitType, PTL DEF NmeaSpec

\* What the sentences of a report are, and the numbers in them, after every step of making
\* them: the invariants the theorems below follow from.
THEOREM SentencesFit ==
    ASSUME NmeaConstantsFit
    PROVE  NmeaSpec => [](SvInv /\ NameInv)
  <1>1. NmeaTypeOK /\ NmeaTypeOK' /\ SvInv /\ NameInv /\ [NmeaNext]_nmeaVars => SvInv' /\ NameInv'
    BY NextSvs, NextNames
  <1> QED
    BY <1>1, TypesKept, InitSvs, InitNames, PTL DEF NmeaSpec

\* For every report of satellites, however long: each satellite of a group is in exactly one
\* of its sentences, none of which has more than four (loc_nmea_generate_GSV).
THEOREM OnceShown ==
    ASSUME NmeaConstantsFit
    PROVE  NmeaSpec => []SvsShownOnce
  <1>1. SvInv => SvsShownOnce
    BY DEF SvInv
  <1> QED
    BY <1>1, SentencesFit, PTL

\* The sentences of a group are numbered from 1 to the total that each states.
THEOREM Numbered ==
    ASSUME NmeaConstantsFit
    PROVE  NmeaSpec => []NumberedThrough
  <1>1. SvInv => NumberedThrough
    BY DEF SvInv
  <1> QED
    BY <1>1, SentencesFit, PTL

\* No satellite is in the sentences of two groups.
THEOREM ShownInOneGroup ==
    ASSUME NmeaConstantsFit
    PROVE  NmeaSpec => []InOneGroup
  <1>1. NmeaTypeOK /\ SvInv => InOneGroup
    <2> SUFFICES ASSUME NmeaTypeOK, SvInv, NEW s \in sentences, NEW t \in sentences,
                        s.svs \cap t.svs # {}
                 PROVE  s = t
      BY DEF InOneGroup
    <2>1. PICK i : i \in s.svs /\ i \in t.svs
      OBVIOUS
    <2>2. i \in Shown(s.group) /\ i \in Shown(t.group)
      BY <2>1 DEF SvInv, OnlyShown
    <2>3. s.group \in 1..15 /\ t.group \in 1..15
      BY GroupCount DEF NmeaTypeOK
    <2>4. s.group = t.group
      BY <2>2, <2>3, OneGroup DEF Shown
    <2> QED
      BY <2>4 DEF SvInv, SvsShownOnce
  <1> QED
    BY <1>1, TypesKept, SentencesFit, PTL

\* A satellite has its NMEA number in every sentence, unless it is of GPS and one of SBAS came
\* before it.
THEOREM Named ==
    ASSUME NmeaConstantsFit
    PROVE  NmeaSpec => []NamedByNumber
  <1>1. NameInv => NamedByNumber
    BY DEF NameInv
  <1> QED
    BY <1>1, SentencesFit, PTL

\* The numbers of the GSA sentences of a fix and of the GSV sentences after it mean the same
\* satellites, although the ones are made of masks and the others of ids.
THEOREM NamedAlike ==
    ASSUME NmeaConstantsFit
    PROVE  NmeaSpec => []MarkedByName
  <1>1. NmeaTypeOK /\ NameInv => MarkedByName
    <2> SUFFICES ASSUME NmeaTypeOK, NameInv, NEW n \in names, report[n.at].type \in Listed,
                        Bit(report[n.at]) \in marks.used[report[n.at].type]
                 PROVE  \/ n.number = GsaNumber(report[n.at].type, Bit(report[n.at]))
                        \/ /\ report[n.at].type = "gps"
                           /\ \E i \in Shown(n.group) : i < n.at /\ report[i].type = "sbas"
      BY DEF MarkedByName
    <2> DEFINE sv == report[n.at]
    <2>1. /\ sv \in Satellites /\ sv.svId \in Nat
      BY DEF NmeaTypeOK, Satellites
    <2>2. Bit(sv) \in 1..64
      <3>1. marks.used[sv.type] \in Masks
        BY DEF NmeaTypeOK, Listed, Masked
      <3> QED
        BY <3>1 DEF Masks
    <2>3. \/ n.number = sv.svId - OwnOffset[sv.type]
          \/ sv.type = "glo" /\ sv.svId = UnknownSlot
          \/ /\ sv.type = "gps"
             /\ \E i \in Shown(n.group) : i < n.at /\ report[i].type = "sbas"
      BY DEF NameInv, NamedByNumber
    <2>4. Bit(sv) = sv.svId - PrnMin[sv.type] + 1
      BY DEF Bit
    <2>5. CASE sv.type = "gps"
      BY <2>1, <2>3, <2>4, <2>5 DEF PrnMin, OwnOffset, GsaNumber
    <2>6. CASE sv.type = "glo"
      BY <2>1, <2>2, <2>3, <2>4, <2>6 DEF PrnMin, OwnOffset, GsaNumber, UnknownSlot
    <2>7. CASE sv.type = "gal"
      BY <2>1, <2>3, <2>4, <2>7 DEF PrnMin, OwnOffset, GsaNumber
    <2>8. CASE sv.type = "bds"
      BY <2>1, <2>3, <2>4, <2>8 DEF PrnMin, OwnOffset, GsaNumber
    <2>9. CASE sv.type = "qzss"
      BY <2>1, <2>3, <2>4, <2>9 DEF PrnMin, OwnOffset, GsaNumber
    <2> QED
      BY <2>5, <2>6, <2>7, <2>8, <2>9 DEF Listed
  <1> QED
    BY <1>1, TypesKept, SentencesFit, PTL

-----------------------------------------------------------------------------
(* The time shown.                                                         *)

\* The one time is shown as earlier than the other.
Earlier(a, b) ==
    \/ a.day < b.day
    \/ a.day = b.day /\ a.msec < b.msec

LEMMA DayParts ==
    ASSUME NEW a \in Int
    PROVE  /\ a \div Day \in Int /\ a % Day \in Int
           /\ a = Day * (a \div Day) + (a % Day)
           /\ 0 <= a % Day /\ a % Day < Day
  BY DEF Day, Second

LEMMA DaysInOrder ==
    ASSUME NEW a \in Int, NEW b \in Int, a < b
    PROVE  \/ a \div Day < b \div Day
           \/ a \div Day = b \div Day /\ a % Day < b % Day
  <1> DEFINE d == a \div Day
             e == b \div Day
             m == a % Day
             n == b % Day
  <1>1. /\ d \in Int /\ m \in Int /\ a = Day * d + m /\ 0 <= m /\ m < Day
    BY DayParts
  <1>2. /\ e \in Int /\ n \in Int /\ b = Day * e + n /\ 0 <= n /\ n < Day
    BY DayParts
  <1> HIDE DEF d, e, m, n
  <1>3. d < e \/ (d = e /\ m < n)
    BY <1>1, <1>2 DEF Day, Second
  <1> QED
    BY <1>3 DEF d, e, m, n

LEMMA WholeDaysAreSeconds ==
    ASSUME NEW a \in Int, a % Day = 0
    PROVE  \E k \in Int : a = Second * k
  <1>1. a = Second * (86400 * (a \div Day)) /\ 86400 * (a \div Day) \in Int
    BY DayParts DEF Day, Second
  <1> QED
    BY <1>1

\* The time stamp of a fix is UTC: the change takes effect when its second begins, and holds
\* the time stamps back by that second.
IsUtc(time, change) ==
    time.stamp = time.gps + UtcGpsOffset
                   - (IF time.gps < change.change THEN change.before ELSE change.after) * Second

\* Fixes are shown in the order of their GPS times, all through a leap second that is added at
\* the end of a day: the clock shown neither stops nor goes back nor shows a time twice
\* (get_utctime_with_leapsecond_transition).
THEOREM LeapSecondShown ==
    ASSUME UtcGpsOffset \in Nat, UtcGpsOffset % Day = 0,
           NEW change \in LeapSeconds, change.known, change.after = change.before + 1,
           (change.change + UtcGpsOffset - change.before * Second) % Day = 0,
           NEW s \in [hasGps : {TRUE}, gps : Nat, stamp : Int, ap : Nat],
           NEW t \in [hasGps : {TRUE}, gps : Nat, stamp : Int, ap : Nat],
           IsUtc(s, change), IsUtc(t, change), s.gps < t.gps
    PROVE  Earlier(ShownTime(s, change), ShownTime(t, change))
  <1> DEFINE begin == change.change
             midnight == begin + UtcGpsOffset - change.before * Second
  <1>1. /\ begin \in Nat /\ change.before \in Nat /\ s.gps \in Nat /\ t.gps \in Nat
        /\ s.stamp \in Int /\ t.stamp \in Int /\ s.hasGps /\ t.hasGps
    BY DEF LeapSeconds
  <1>2. midnight \in Int /\ midnight % Day = 0
    BY <1>1 DEF Second
  <1>3. /\ s.stamp = midnight + (s.gps - begin) - (IF s.gps < begin THEN 0 ELSE Second)
        /\ t.stamp = midnight + (t.gps - begin) - (IF t.gps < begin THEN 0 ELSE Second)
    BY <1>1 DEF IsUtc, Second
  <1>4. begin % Second = 0
    <2>1. PICK j \in Int : midnight = Second * j
      BY <1>2, WholeDaysAreSeconds
    <2>2. PICK k \in Int : UtcGpsOffset = Second * k
      BY WholeDaysAreSeconds
    <2>3. begin = Second * (j - k + change.before)
      BY <1>1, <2>1, <2>2 DEF Second
    <2> QED
      BY <1>1, <2>1, <2>2, <2>3 DEF Second
  <1>5. /\ InTransition(s, change) <=> begin <= s.gps /\ s.gps < begin + Second
        /\ InTransition(t, change) <=> begin <= t.gps /\ t.gps < begin + Second
    BY <1>1 DEF InTransition, Second
  <1>6. /\ ShownTime(s, change) =
              IF InTransition(s, change)
              THEN [day |-> (midnight - Second) \div Day, msec |-> Day + (s.gps % Second)]
              ELSE [day |-> s.stamp \div Day, msec |-> s.stamp % Day]
        /\ ShownTime(t, change) =
              IF InTransition(t, change)
              THEN [day |-> (midnight - Second) \div Day, msec |-> Day + (t.gps % Second)]
              ELSE [day |-> t.stamp \div Day, msec |-> t.stamp % Day]
    <2>0. change.change + UtcGpsOffset - change.before * Second - Second = midnight - Second
      BY <1>1 DEF Second
    <2>1. ASSUME NEW time
          PROVE  ShownTime(time, change) =
                    IF InTransition(time, change)
                    THEN [day |-> (midnight - Second) \div Day, msec |-> Day + (time.gps % Second)]
                    ELSE [day |-> time.stamp \div Day, msec |-> time.stamp % Day]
      BY <2>0 DEF ShownTime
    <2> QED
      BY <2>1
  <1>7. (midnight - Second) \div Day = midnight \div Day - 1
    <2> HIDE DEF midnight
    <2> QED
      BY <1>2 DEF Day, Second
  <1> HIDE DEF begin, midnight
  <1>8. CASE ~InTransition(s, change) /\ ~InTransition(t, change)
    <2>1. s.stamp < t.stamp
      BY <1>1, <1>2, <1>3, <1>5, <1>8 DEF Second
    <2> QED
      BY <1>1, <1>6, <1>8, <2>1, DaysInOrder DEF Earlier
  <1>9. CASE ~InTransition(s, change) /\ InTransition(t, change)
    <2>1. s.stamp < midnight
      BY <1>1, <1>2, <1>3, <1>5, <1>9 DEF Second
    <2>2. s.stamp \div Day <= midnight \div Day - 1 /\ s.stamp % Day < Day
      BY <1>1, <1>2, <2>1 DEF Day, Second
    <2>3. t.gps % Second >= 0
      BY <1>1 DEF Second
    <2>4. /\ s.stamp \div Day \in Int /\ midnight \div Day \in Int /\ s.stamp % Day \in Int
          /\ t.gps % Second \in Int /\ Day \in Int
      BY <1>1, <1>2 DEF Day, Second
    <2> QED
      BY <1>6, <1>7, <1>9, <2>2, <2>3, <2>4 DEF Earlier
  <1>10. CASE InTransition(s, change) /\ InTransition(t, change)
    <2>1. s.gps % Second < t.gps % Second
      BY <1>1, <1>4, <1>5, <1>10 DEF Second
    <2>2. s.gps % Second \in Int /\ t.gps % Second \in Int /\ Day \in Int
      BY <1>1 DEF Day, Second
    <2> QED
      BY <1>6, <1>10, <2>1, <2>2 DEF Earlier
  <1>11. CASE InTransition(s, change) /\ ~InTransition(t, change)
    <2>1. t.stamp >= midnight
      BY <1>1, <1>2, <1>3, <1>5, <1>11 DEF Second
    <2>2. /\ t.stamp \div Day >= midnight \div Day
          /\ t.stamp \div Day \in Int /\ midnight \div Day \in Int
      BY <1>1, <1>2, <2>1 DEF Day, Second
    <2> QED
      BY <1>6, <1>7, <1>11, <2>2 DEF Earlier
  <1> QED
    BY <1>8, <1>9, <1>10, <1>11

-----------------------------------------------------------------------------
(* The kind of a fix.                                                      *)

LEMMA FirstCorrection ==
    ASSUME NEW fix, fix.nav # {}, fix.nav \subseteq CorrectionSet
    PROVE  \E i \in 1..5 : /\ Corrections[i] \in fix.nav
                          /\ \A j \in 1..5 : j < i => Corrections[j] \notin fix.nav
  <1>1. PICK c \in CorrectionSet : c \in fix.nav
    OBVIOUS
  <1>2. DOMAIN Corrections = 1..5
    BY DEF Corrections
  <1>3. PICK k \in 1..5 : Corrections[k] \in fix.nav
    BY <1>1, <1>2 DEF CorrectionSet
  <1> DEFINE P(i) == Corrections[i] \in fix.nav
  <1>4. P(1) \/ P(2) \/ P(3) \/ P(4) \/ P(5)
    BY <1>3
  <1> HIDE DEF P
  <1>5. \E i \in 1..5 : P(i) /\ \A j \in 1..5 : j < i => ~P(j)
    <2>1. CASE P(1)
      BY <2>1
    <2>2. CASE ~P(1) /\ P(2)
      BY <2>2
    <2>3. CASE ~P(1) /\ ~P(2) /\ P(3)
      BY <2>3
    <2>4. CASE ~P(1) /\ ~P(2) /\ ~P(3) /\ P(4)
      BY <2>4
    <2>5. CASE ~P(1) /\ ~P(2) /\ ~P(3) /\ ~P(4) /\ P(5)
      BY <2>5
    <2> QED
      BY <1>4, <2>1, <2>2, <2>3, <2>4, <2>5
  <1> QED
    BY <1>5 DEF P

\* Without customization GGA, RMC and VTG agree whether there is a fix, and no constellation is
\* said to have another in GNS than RMC says (loc_nmea_get_fix_quality).
THEOREM FixesAgree ==
    ASSUME NEW fix \in FixKind
    PROVE  LET q == FixQuality(fix)
           IN  /\ q.gga = <<0>> <=> q.rmc = "N"
               /\ q.vtg = "N" <=> q.rmc = "N"
               /\ \A c \in Masked : q.gns[c] \in {"N", q.rmc}
  <1> DEFINE none == <<0>>
             Agree(q) ==
               /\ q.gga = <<0>> <=> q.rmc = "N"
               /\ q.vtg = "N" <=> q.rmc = "N"
               /\ \A c \in Masked : q.gns[c] \in {"N", q.rmc}
  <1>1. ASSUME NEW gga, NEW rmc, NEW vtg, gga = none <=> rmc = "N", vtg = "N" <=> rmc = "N"
        PROVE  Agree(Indicators(fix, gga, rmc, vtg))
    BY <1>1 DEF Indicators, GnsModes
  <1>2. fix.nav \subseteq CorrectionSet
    BY DEF FixKind
  <1> HIDE DEF Agree
  <1>3. CASE ~fix.hasPosition
    <2>1. FixQuality(fix) = Indicators(fix, <<0>>, "N", "N")
      BY <1>3 DEF FixQuality
    <2> QED
      BY <1>1, <2>1 DEF Agree
  <1>4. CASE fix.hasPosition /\ fix.nav # {}
    <2> DEFINE i == CHOOSE i \in 1..5 :
                       /\ Corrections[i] \in fix.nav
                       /\ \A j \in 1..5 : j < i => Corrections[j] \notin fix.nav
               c == Corrections[i]
    <2>1. i \in 1..5
      BY <1>2, <1>4, FirstCorrection
    <2>2. FixQuality(fix) = Indicators(fix, GgaOf[c], RmcOf[c], VtgOf[c])
      BY <1>4 DEF FixQuality
    <2> HIDE DEF i
    <2>3. c \in {"ppp", "rtkFixed", "rtk", "dgnss", "sbasIono"}
      BY <2>1 DEF Corrections
    <2> HIDE DEF c
    <2>4. RmcOf[c] # "N" /\ VtgOf[c] # "N"
      BY <2>3 DEF RmcOf, VtgOf
    <2>5. GgaOf[c] # <<0>>
      <3>1. GgaOf[c] \in {<<2>>, <<4>>, <<5>>}
        BY <2>3 DEF GgaOf
      <3> QED
        BY <3>1
    <2> QED
      BY <1>1, <2>2, <2>4, <2>5 DEF Agree
  <1>5. CASE fix.hasPosition /\ fix.nav = {} /\ "satellite" \in fix.tech
    <2>1. FixQuality(fix) = Indicators(fix, <<1>>, "A", "A")
      BY <1>5 DEF FixQuality
    <2>2. <<1>> # <<0>>
      OBVIOUS
    <2> QED
      BY <1>1, <2>1, <2>2 DEF Agree
  <1>6. CASE fix.hasPosition /\ fix.nav = {} /\ "satellite" \notin fix.tech /\ "sensors" \in fix.tech
    <2>1. FixQuality(fix) = Indicators(fix, <<6>>, "E", "E")
      BY <1>6 DEF FixQuality
    <2>2. <<6>> # <<0>>
      OBVIOUS
    <2> QED
      BY <1>1, <2>1, <2>2 DEF Agree
  <1>7. CASE fix.hasPosition /\ fix.nav = {} /\ "satellite" \notin fix.tech /\ "sensors" \notin fix.tech
    <2>1. FixQuality(fix) = Indicators(fix, <<0>>, "N", "N")
      BY <1>7 DEF FixQuality
    <2> QED
      BY <1>1, <2>1 DEF Agree
  <1> QED
    BY <1>3, <1>4, <1>5, <1>6, <1>7 DEF Agree

-----------------------------------------------------------------------------
(* The satellites of a fix.                                                *)

LEMMA LeastBit ==
    ASSUME NEW mask, mask \subseteq 1..64, mask # {}
    PROVE  \E least \in mask : \A b \in mask : least <= b
  <1> SUFFICES ASSUME \A b \in mask : \E c \in mask : c < b
               PROVE  FALSE
    OBVIOUS
  <1> DEFINE Beyond(k) == \A b \in mask : b > k
  <1>1. \A k \in Nat : Beyond(k) => Beyond(k + 1)
    OBVIOUS
  <1>2. Beyond(0)
    OBVIOUS
  <1> HIDE DEF Beyond
  <1>3. \A k \in Nat : Beyond(k) => Beyond(k + 2)
    BY <1>1
  <1>4. \A k \in Nat : Beyond(k) => Beyond(k + 4)
    BY <1>3
  <1>5. \A k \in Nat : Beyond(k) => Beyond(k + 8)
    BY <1>4
  <1>6. \A k \in Nat : Beyond(k) => Beyond(k + 16)
    BY <1>5
  <1>7. \A k \in Nat : Beyond(k) => Beyond(k + 32)
    BY <1>6
  <1>8. Beyond(64)
    BY <1>2, <1>7
  <1>9. PICK b : b \in mask
    OBVIOUS
  <1>10. b \in 1..64
    BY <1>9
  <1>11. b > 64
    BY <1>8, <1>9 DEF Beyond
  <1> QED
    BY <1>10, <1>11

LEMMA FiniteBits == IsFiniteSet(1..64)
  <1>1. \A n \in Nat : IsFiniteSet(1..n)
    BY FS_Interval
  <1>2. 64 \in Nat
    OBVIOUS
  <1> QED
    BY <1>1, <1>2, Zenon

LEMMA UsedFinite ==
    ASSUME NEW fix
    PROVE  IsFiniteSet(Used(fix.used))
  <1>1. IsFiniteSet(Listed)
    <2>1. Listed = ((({"gps"} \cup {"glo"}) \cup {"gal"}) \cup {"bds"}) \cup {"qzss"}
      BY DEF Listed
    <2>2. IsFiniteSet({"gps"})
      BY FS_Singleton
    <2>3. IsFiniteSet({"gps"} \cup {"glo"})
      BY <2>2, FS_AddElement
    <2>4. IsFiniteSet(({"gps"} \cup {"glo"}) \cup {"gal"})
      BY <2>3, FS_AddElement
    <2>5. IsFiniteSet((({"gps"} \cup {"glo"}) \cup {"gal"}) \cup {"bds"})
      BY <2>4, FS_AddElement
    <2>6. IsFiniteSet(((({"gps"} \cup {"glo"}) \cup {"gal"}) \cup {"bds"}) \cup {"qzss"})
      BY <2>5, FS_AddElement
    <2> QED
      BY <2>1, <2>6
  <1>3. IsFiniteSet(Listed \X (1..64))
    BY <1>1, FiniteBits, FS_Product
  <1>4. Used(fix.used) \in SUBSET (Listed \X (1..64))
    BY DEF Used
  <1> QED
    BY <1>3, <1>4, FS_Subset

\* RMC says that a position is valid exactly if GNS and GGA count satellites and the GSA list
\* some, although each of them finds out for itself (loc_nmea_generate_pos).
THEOREM SatellitesAgree ==
    ASSUME NEW fix \in FixKind, NEW talker, NEW change, NEW custom, NEW grouping
    PROVE  LET valid == RmcSentence(fix, change, talker).valid
           IN  /\ valid <=> GnsSentence(fix, change, talker).satellites > 0
               /\ valid <=> GgaSentence(fix, change, talker, custom).satellites > 0
               /\ valid <=> \E gsa \in GsaOf(fix.used, grouping) : gsa.numbers # {}
  <1> DEFINE used == Used(fix.used)
             n == Cardinality(used)
  <1>1. n \in Nat /\ (n = 0 <=> used = {})
    BY UsedFinite, FS_EmptySet, FS_CardinalityType
  <1>2. \A c \in Listed : fix.used[c] \subseteq 1..64
    BY DEF FixKind, Masks, Listed, Masked
  <1>3. RmcSentence(fix, change, talker).valid <=> used # {}
    <2>1. RmcSentence(fix, change, talker).valid <=> \E c \in Listed : fix.used[c] # {}
      BY DEF RmcSentence
    <2>2. ASSUME NEW c \in Listed, fix.used[c] # {}
          PROVE  used # {}
      <3>1. PICK b \in 1..64 : b \in fix.used[c]
        BY <1>2, <2>2
      <3>2. <<c, b>> \in used
        BY <3>1 DEF Used
      <3> QED
        BY <3>2
    <2>3. ASSUME used # {}
          PROVE  \E c \in Listed : fix.used[c] # {}
      <3>1. PICK sv \in Listed \X (1..64) : sv[2] \in fix.used[sv[1]]
        BY <2>3 DEF Used
      <3>2. sv[1] \in Listed /\ fix.used[sv[1]] # {}
        BY <3>1
      <3> QED
        BY <3>2
    <2> QED
      BY <2>1, <2>2, <2>3
  <1>4. GnsSentence(fix, change, talker).satellites = n
    BY DEF GnsSentence
  <1>5. GgaSentence(fix, change, talker, custom).satellites = AtMost(n, PageSize)
    BY DEF GgaSentence
  <1>6. n > 0 <=> AtMost(n, PageSize) > 0
    BY <1>1 DEF AtMost, PageSize
  <1>7. used # {} <=> \E gsa \in GsaOf(fix.used, grouping) : gsa.numbers # {}
    <2>1. CASE used = {}
      BY <2>1 DEF GsaOf, NoGsa
    <2>2. CASE used # {}
      <3>1. PICK sv \in Listed \X (1..64) : sv[2] \in fix.used[sv[1]]
        BY <2>2 DEF Used
      <3> DEFINE c == sv[1]
                 mask == fix.used[c]
      <3>2. c \in Listed /\ mask \subseteq 1..64 /\ mask # {}
        BY <3>1, <1>2
      <3> HIDE DEF c, mask
      <3>3. PICK least \in mask : \A b \in mask : least <= b
        BY <3>2, LeastBit
      <3>4. IsFiniteSet(mask) /\ Cardinality(mask) \in Nat \ {0}
        <4>1. IsFiniteSet(mask)
          BY <3>2, FiniteBits, FS_Subset
        <4> QED
          BY <3>2, <4>1, FS_CardinalityType, FS_EmptySet
      <3>5. Rank(mask, least) = 1
        <4>1. \A b \in mask : b <= least <=> b = least
          BY <3>2, <3>3
        <4>2. {b \in mask : b <= least} = {least}
          BY <4>1
        <4> QED
          BY <4>2, FS_Singleton DEF Rank
      <3>6. least \in Page(mask, 1)
        BY <3>3, <3>5 DEF Page, PageSize
      <3>7. 1 \in 1..PagesOf(mask)
        BY <3>4 DEF PagesOf, PageSize
      <3> DEFINE gsa == [kind |-> "GSA", talker |-> Talker(fix.used, c),
                         fixType |-> FixDimension(fix.used), page |-> 1,
                         numbers |-> {GsaNumber(c, bit) : bit \in Page(mask, 1)}, system |-> c]
      <3>8. gsa \in GsaSentences(fix.used, c, grouping)
        BY <3>7 DEF GsaSentences, mask
      <3>9. gsa.numbers # {}
        BY <3>6
      <3>10. gsa \in GsaOf(fix.used, grouping)
        BY <2>2, <3>2, <3>8 DEF GsaOf
      <3> QED
        BY <2>2, <3>9, <3>10
    <2> QED
      BY <2>1, <2>2
  <1> QED
    BY <1>1, <1>3, <1>4, <1>5, <1>6, <1>7
=============================================================================
