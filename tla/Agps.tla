-------------------------------- MODULE Agps --------------------------------
(***************************************************************************)
(* Data connections for assisted GPS.                                      *)
(*                                                                         *)
(* The modem asks for a data connection (requestATL) and gives it back     *)
(* (releaseATL) under a handle.  The AgpsManager, on the adapter thread,   *)
(* keeps one AgpsStateMachine per network interface with a list of         *)
(* subscribers, and asks the owner of the interface for the connection:    *)
(* the Android framework for the AGNSS interface, NativeAgpsHandler for    *)
(* the internet.  Their answers are messages of the adapter thread; the    *)
(* answer "connection is open" makes a second trip, through the QMI WDS    *)
(* library, if that library is installed.                                  *)
(*                                                                         *)
(* The type and the APN mask of a request, and the name and the bearer of  *)
(* a connection, are passed through and left out; of an APN matters only   *)
(* whether dataConnOpenCommand takes it.                                   *)
(***************************************************************************)
EXTENDS Integers, Sequences

CONSTANTS
    Handles,      (* connection handles of the modem                       *)
    WdsInstalled, (* whether libloc_api_wds.so may be there, and may not   *)
    MaxRequests,  (* bound: calls of requestATL                            *)
    MaxUpsets     (* bound: connections the network drops, connections     *)
                  (* with an APN longer than MAX_APN_LEN and modem crashes *)

ASSUME AgpsAssumption ==
    /\ WdsInstalled \subseteq BOOLEAN
    /\ MaxRequests \in Nat /\ MaxUpsets \in Nat

VARIABLES
    (* adapter thread *)
    nifs,        \* mAgnssNif and mInternetNif: state and mSubscriberList
    created,     \* the state machines that exist
    adapterQ,    \* messages of the adapter thread
    (* owners of the interfaces, and WDS *)
    frameworkQ,  \* requests and releases the framework has not looked at
    conn,        \* the framework's connection
    registered,  \* has the framework called IAGnss::setCallback?
    mobile,      \* what NativeAgpsHandler knows: mConnected and mApn
    wds,         \* is the WDS library installed?
    lookups,     \* queries WDS has not answered, of each interface
    (* modem *)
    modem,       \* what the modem believes of each handle
    requests,    \* calls of requestATL so far
    upsets       \* losses, refused APNs and crashes so far

vars == <<nifs, created, adapterQ, frameworkQ, conn, registered, mobile, wds, lookups,
          modem, requests, upsets>>
used == <<requests, upsets>>

Nifs == {"agnss", "internet"}
States == {"released", "pending", "acquired", "releasing"}
Phases == {"idle", "opening", "open", "closing"}
Messages ==
    [type : {"init", "opened", "granted", "failed", "closed"}, nif : Nifs]
        \cup [type : {"request"}, nif : Nifs, handle : Handles]
        \cup [type : {"release"}, handle : Handles]
-----------------------------------------------------------------------------
(* The state machine.  A reaction is what an event makes of it: the machine *)
(* afterwards, what it asks of the owner of the interface, and what it tells *)
(* which subscribers.  requestATL makes every subscriber one that waits for *)
(* the connection to close, so the other branches of Unsubscribe are dead.  *)

Fresh == [state |-> "released", active |-> {}, inactive |-> {}]
Members(n) == n.active \cup n.inactive

React(n, asks, to, what) == [nif |-> n, asks |-> asks, to |-> to, what |-> what]
Ignore(n) == React(n, <<>>, {}, "opened")

AddSubscriber(n, h) ==
    IF h \in Members(n) THEN n ELSE [n EXCEPT !.active = @ \cup {h}]

Subscribe(n, h) ==
    CASE n.state = "released" ->
            React([AddSubscriber(n, h) EXCEPT !.state = "pending"], <<"request">>, {}, "opened")
      [] n.state = "acquired" ->
            React(AddSubscriber(n, h), <<>>, {h}, "opened")
      [] OTHER ->
            Ignore(AddSubscriber(n, h))

Deactivate(n, h) == [n EXCEPT !.active = @ \ {h}, !.inactive = @ \cup {h}]

\* Mutant: no release while the connection is only asked for.
UnsubscribeWithoutRelease(n, h) ==
    CASE n.state = "released" -> React(n, <<>>, {h}, "closed")
      [] n.state \in {"pending", "acquired"} /\ Deactivate(n, h).active = {} ->
            React([Deactivate(n, h) EXCEPT !.state = "releasing"],
                  IF n.state = "acquired" THEN <<"release">> ELSE <<>>, {}, "opened")
      [] OTHER -> Ignore(Deactivate(n, h))

Unsubscribe(n, h) ==
    CASE n.state = "released" -> React(n, <<>>, {h}, "closed")
      [] n.state \in {"pending", "acquired"} /\ Deactivate(n, h).active = {} ->
            React([Deactivate(n, h) EXCEPT !.state = "releasing"], <<"release">>, {}, "opened")
      [] OTHER -> Ignore(Deactivate(n, h))

Granted(n) ==
    IF n.state = "pending"
    THEN React([n EXCEPT !.state = "acquired"], <<>>, n.active, "opened")
    ELSE Ignore(n)

\* Mutant: no new request for those who joined meanwhile.
ClosingForAll(n) == React(Fresh, <<>>, n.inactive, "closed")

(* RELEASED or DENIED in RELEASING: whoever waited for the close is told,   *)
(* whoever joined meanwhile gets a new request                              *)
Closing(n) ==
    IF n.active # {}
    THEN React([n EXCEPT !.state = "pending", !.inactive = {}], <<"request">>, n.inactive, "closed")
    ELSE React(Fresh, <<>>, n.inactive, "closed")

Released(n) ==
    CASE n.state = "acquired" -> React(Fresh, <<>>, Members(n), "closed")
      [] n.state = "releasing" -> Closing(n)
      [] OTHER -> Ignore(n)

\* Mutant: the subscribers that are told stay in the list.
DeniedKeepingSubscribers(n) ==
    CASE n.state = "pending" ->
            React([n EXCEPT !.state = "released"], <<>>, Members(n), "refused")
      [] n.state = "releasing" -> Closing(n)
      [] OTHER -> Ignore(n)

Denied(n) ==
    CASE n.state = "pending" -> React(Fresh, <<>>, Members(n), "refused")
      [] n.state = "releasing" -> Closing(n)
      [] OTHER -> Ignore(n)
-----------------------------------------------------------------------------
(* NativeAgpsHandler::processATLRequestRelease answers on the spot.  An APN *)
(* that is too long makes dataConnOpenCommand report the close at once,     *)
(* inside the transition to PENDING, where the event does nothing.          *)
NativeAnswers(asks) ==
    CASE asks = <<"request">> /\ mobile = "connected" ->
            <<[type |-> "opened", nif |-> "internet"]>>
      [] asks = <<"request">> /\ mobile = "none" -> <<[type |-> "failed", nif |-> "internet"]>>
      [] asks = <<"release">> -> <<[type |-> "closed", nif |-> "internet"]>>
      [] OTHER -> <<>>

(* What the modem makes of an ATL status *)
Hears(phase, what) ==
    IF what # "opened" THEN "idle" ELSE IF phase = "opening" THEN "open" ELSE phase

Tell(to, what) ==
    modem' = [h \in Handles |-> IF h \in to THEN Hears(modem[h], what) ELSE modem[h]]

(* A reaction of nif's machine takes place; rest is the queue it leaves *)
Perform(nif, r, rest) ==
    /\ nifs' = [nifs EXCEPT ![nif] = r.nif]
    /\ Tell(r.to, r.what)
    /\ IF nif = "agnss"
       THEN frameworkQ' = frameworkQ \o r.asks /\ adapterQ' = rest
       ELSE adapterQ' = rest \o NativeAnswers(r.asks) /\ UNCHANGED frameworkQ

NextIs(type) == adapterQ # <<>> /\ Head(adapterQ).type = type

Post(m) == adapterQ' = Append(adapterQ, m)

Upset(what) ==
    /\ upsets.loss + upsets.apn + upsets.crash < MaxUpsets
    /\ upsets' = [upsets EXCEPT ![what] = @ + 1]
-----------------------------------------------------------------------------
(* The GnssAdapter posts the set-up of the internet interface when it is    *)
(* made; the modem asks for nothing before an interface is set up.          *)
Init ==
    /\ nifs = [nif \in Nifs |-> Fresh]
    /\ created = {}
    /\ adapterQ = <<[type |-> "init", nif |-> "internet"]>>
    /\ frameworkQ = <<>> /\ conn = "closed" /\ registered = FALSE
    /\ mobile = "none"
    /\ wds \in WdsInstalled
    /\ lookups = [nif \in Nifs |-> 0]
    /\ modem = [h \in Handles |-> "idle"]
    /\ requests = 0 /\ upsets = [loss |-> 0, apn |-> 0, crash |-> 0]
-----------------------------------------------------------------------------
(* The modem, through LocApiBase and the GnssAdapter *)

RequestATL(h, nif) ==
    /\ created # {} /\ modem[h] = "idle" /\ requests < MaxRequests
    /\ modem' = [modem EXCEPT ![h] = "opening"]
    /\ Post([type |-> "request", nif |-> nif, handle |-> h])
    /\ requests' = requests + 1
    /\ UNCHANGED <<nifs, created, frameworkQ, conn, registered, mobile, wds, lookups, upsets>>

ReleaseATL(h) ==
    /\ modem[h] \in {"opening", "open"}
    /\ modem' = [modem EXCEPT ![h] = "closing"]
    /\ Post([type |-> "release", handle |-> h])
    /\ UNCHANGED <<nifs, created, frameworkQ, conn, registered, mobile, wds, lookups, used>>

(* The modem restarts and knows no handle.  Nothing calls handleModemSSR.   *)
ModemCrash ==
    /\ created # {}
    /\ modem' = [h \in Handles |-> "idle"]
    /\ Upset("crash")
    /\ UNCHANGED <<nifs, created, adapterQ, frameworkQ, conn, registered, mobile, wds, lookups, requests>>
-----------------------------------------------------------------------------
(* The adapter thread *)

HandleInit ==
    /\ NextIs("init")
    /\ created' = created \cup {Head(adapterQ).nif}
    /\ adapterQ' = Tail(adapterQ)
    /\ UNCHANGED <<nifs, frameworkQ, conn, registered, mobile, wds, lookups, modem, used>>

(* AgpsManager::requestATL: without a state machine the answer is no *)
HandleRequest ==
    /\ NextIs("request")
    /\ LET m == Head(adapterQ)
       IN  IF m.nif \in created
           THEN Perform(m.nif, Subscribe(nifs[m.nif], m.handle), Tail(adapterQ))
           ELSE Tell({m.handle}, "refused") /\ adapterQ' = Tail(adapterQ)
                /\ UNCHANGED <<nifs, frameworkQ>>
    /\ UNCHANGED <<created, conn, registered, mobile, wds, lookups, used>>

(* AgpsManager::releaseATL looks in the AGNSS interface first, and ignores  *)
(* a handle it does not find                                                *)
Holder(h) == IF h \in Members(nifs["agnss"]) THEN "agnss" ELSE "internet"

\* Mutant: only the AGNSS interface is searched.
HandleReleaseOfAgnss ==
    /\ NextIs("release")
    /\ LET h == Head(adapterQ).handle
       IN  IF h \in Members(nifs["agnss"])
           THEN Perform("agnss", Unsubscribe(nifs["agnss"], h), Tail(adapterQ))
           ELSE adapterQ' = Tail(adapterQ) /\ UNCHANGED <<nifs, frameworkQ, modem>>
    /\ UNCHANGED <<created, conn, registered, mobile, wds, lookups, used>>

HandleRelease ==
    /\ NextIs("release")
    /\ LET h == Head(adapterQ).handle
       IN  IF h \in Members(nifs[Holder(h)])
           THEN Perform(Holder(h), Unsubscribe(nifs[Holder(h)], h), Tail(adapterQ))
           ELSE adapterQ' = Tail(adapterQ) /\ UNCHANGED <<nifs, frameworkQ, modem>>
    /\ UNCHANGED <<created, conn, registered, mobile, wds, lookups, used>>

(* AgpsMsgAtlOpenSuccess::proc asks WDS for the bearer, if WDS is there *)
HandleOpened ==
    /\ NextIs("opened")
    /\ LET nif == Head(adapterQ).nif
       IN  IF wds
           THEN /\ lookups' = [lookups EXCEPT ![nif] = @ + 1]
                /\ adapterQ' = Tail(adapterQ)
                /\ UNCHANGED <<nifs, frameworkQ, modem>>
           ELSE Perform(nif, Granted(nifs[nif]), Tail(adapterQ)) /\ UNCHANGED lookups
    /\ UNCHANGED <<created, conn, registered, mobile, wds, used>>

HandleGranted ==
    /\ NextIs("granted")
    /\ LET nif == Head(adapterQ).nif
       IN  Perform(nif, Granted(nifs[nif]), Tail(adapterQ))
    /\ UNCHANGED <<created, conn, registered, mobile, wds, lookups, used>>

HandleFailed ==
    /\ NextIs("failed")
    /\ LET nif == Head(adapterQ).nif
       IN  Perform(nif, Denied(nifs[nif]), Tail(adapterQ))
    /\ UNCHANGED <<created, conn, registered, mobile, wds, lookups, used>>

HandleClosed ==
    /\ NextIs("closed")
    /\ LET nif == Head(adapterQ).nif
       IN  Perform(nif, Released(nifs[nif]), Tail(adapterQ))
    /\ UNCHANGED <<created, conn, registered, mobile, wds, lookups, used>>

Adapter ==
    \/ HandleInit \/ HandleRequest \/ HandleRelease \/ HandleOpened
    \/ HandleGranted \/ HandleFailed \/ HandleClosed

(* The WDS library calls reportPdnTypeFromWds back *)
WdsAnswers(nif) ==
    /\ lookups[nif] > 0
    /\ lookups' = [lookups EXCEPT ![nif] = @ - 1]
    /\ Post([type |-> "granted", nif |-> nif])
    /\ UNCHANGED <<nifs, created, frameworkQ, conn, registered, mobile, wds, modem, used>>
-----------------------------------------------------------------------------
(* The framework, external: it owns one connection, takes requests and      *)
(* releases in order, and answers through AGnss::dataConn...                *)

(* AGnss::setCallback *)
Register ==
    /\ ~registered /\ registered' = TRUE
    /\ Post([type |-> "init", nif |-> "agnss"])
    /\ UNCHANGED <<nifs, created, frameworkQ, conn, mobile, wds, lookups, modem, used>>

(* A request while the connection is open or being opened changes nothing:  *)
(* an open connection is reported once more                                 *)
TakeRequest ==
    /\ frameworkQ # <<>> /\ Head(frameworkQ) = "request"
    /\ frameworkQ' = Tail(frameworkQ)
    /\ conn' = "opening"
    /\ UNCHANGED <<nifs, created, adapterQ, registered, mobile, wds, lookups, modem, used>>

(* A release of a connection that is not there is not answered: that it     *)
(* failed or was lost has been reported                                     *)
TakeRelease ==
    /\ frameworkQ # <<>> /\ Head(frameworkQ) = "release"
    /\ frameworkQ' = Tail(frameworkQ)
    /\ conn' = "closed"
    /\ IF conn = "closed"
       THEN UNCHANGED adapterQ
       ELSE Post([type |-> "closed", nif |-> "agnss"])
    /\ UNCHANGED <<nifs, created, registered, mobile, wds, lookups, modem, used>>

ConnectionUp ==
    /\ conn = "opening" /\ conn' = "open"
    /\ Post([type |-> "opened", nif |-> "agnss"])
    /\ UNCHANGED <<nifs, created, frameworkQ, registered, mobile, wds, lookups, modem, used>>

(* dataConnOpenCommand refuses the APN and calls the state machine on the   *)
(* caller's own thread, in front of every message in the queue              *)
ConnectionUpBadApn ==
    /\ conn = "opening" /\ conn' = "open"
    /\ Upset("apn")
    /\ Perform("agnss", Released(nifs["agnss"]), adapterQ)
    /\ UNCHANGED <<created, registered, mobile, wds, lookups, requests>>

ConnectionFails ==
    /\ conn = "opening" /\ conn' = "closed"
    /\ Post([type |-> "failed", nif |-> "agnss"])
    /\ UNCHANGED <<nifs, created, frameworkQ, registered, mobile, wds, lookups, modem, used>>

ConnectionLost ==
    /\ conn = "open" /\ conn' = "closed"
    /\ Upset("loss")
    /\ Post([type |-> "closed", nif |-> "agnss"])
    /\ UNCHANGED <<nifs, created, frameworkQ, registered, mobile, wds, lookups, modem, requests>>

Framework ==
    \/ TakeRequest \/ TakeRelease
    \/ ConnectionUp \/ ConnectionUpBadApn \/ ConnectionFails

(* NativeAgpsHandler::notify *)
NetworkInfo ==
    /\ \/ mobile' \in {"none", "connected"} \ {mobile} /\ UNCHANGED upsets
       \/ mobile # "bad_apn" /\ mobile' = "bad_apn"
          /\ Upset("apn")
    /\ UNCHANGED <<nifs, created, adapterQ, frameworkQ, conn, registered, wds, lookups, modem, requests>>
-----------------------------------------------------------------------------
Next ==
    \/ \E h \in Handles, nif \in Nifs : RequestATL(h, nif)
    \/ \E h \in Handles : ReleaseATL(h)
    \/ ModemCrash
    \/ Adapter
    \/ \E nif \in Nifs : WdsAnswers(nif)
    \/ Register
    \/ Framework
    \/ ConnectionLost
    \/ NetworkInfo

Spec == Init /\ [][Next]_vars

(* The adapter thread waits only for a message; the framework and WDS are   *)
(* assumed to answer, the modem and the network owe nothing.                *)
FairSpec ==
    /\ Spec
    /\ WF_vars(Adapter) /\ WF_vars(Framework)
    /\ \A nif \in Nifs : WF_vars(WdsAnswers(nif))
-----------------------------------------------------------------------------
(* Correctness *)

(* Each interface has a state of AgpsStateMachine and subscribers, and every message is
   one that GnssAdapter or AGnss posts. *)
TypeOK ==
    /\ nifs \in [Nifs -> [state : States, active : SUBSET Handles, inactive : SUBSET Handles]]
    /\ created \subseteq Nifs
    /\ adapterQ \in Seq(Messages)
    /\ frameworkQ \in Seq({"request", "release"})
    /\ conn \in {"closed", "opening", "open"}
    /\ registered \in BOOLEAN /\ wds \in BOOLEAN
    /\ mobile \in {"none", "connected", "bad_apn"}
    /\ lookups \in [Nifs -> Nat]
    /\ modem \in [Handles -> Phases]
    /\ requests \in Nat /\ upsets \in [loss : Nat, apn : Nat, crash : Nat]

(* The state of a machine always fits its list: it is RELEASED exactly      *)
(* without subscribers, asks for or holds a connection only for somebody    *)
(* active, and waits for a close only if somebody waits to be told.  So the *)
(* branches of Agps.cpp that log an unexpected list, and the one that       *)
(* unsubscribes in RELEASED, are never taken.                               *)
Fits(n) ==
    /\ n.active \cap n.inactive = {}
    /\ (n.state = "released") <=> (Members(n) = {})
    /\ n.state \in {"pending", "acquired"} => n.active # {}
    /\ n.state = "releasing" => n.inactive # {}

SubscribersFit == \A nif \in Nifs : Fits(nifs[nif])

AtRest ==
    /\ adapterQ = <<>> /\ frameworkQ = <<>> /\ conn # "opening"
    /\ lookups = [nif \in Nifs |-> 0]

(* What Agps.cpp does not cope with: a modem crash (handleModemSSR has no   *)
(* caller), an APN that is refused (the report does nothing in PENDING) and *)
(* a grant that comes late, by way of WDS.                                  *)
Undisturbed == upsets.crash = 0 /\ upsets.apn = 0 /\ ~wds

(* A connection nobody needs is given back: whatever crossed whatever, when *)
(* everything is handled the framework's connection is open only while the  *)
(* AGNSS machine asks for it or holds it.  A refused APN spoils this too:   *)
(* its report counts as an answer to a release that is still to come.       *)
ConnectionNeeded ==
    AtRest /\ conn = "open" /\ upsets.apn = 0
        => nifs["agnss"].state \in {"pending", "acquired"}

(* A handle is in at most one list, and when everything is handled the      *)
(* lists and the modem agree: a handle that has a connection is active in a *)
(* machine that holds one, a handle whose close is awaited is inactive, and *)
(* no request is left without an answer.                                    *)
Knows(n, h) ==
    CASE modem[h] = "open" -> h \in n.active /\ n.state = "acquired"
      [] modem[h] = "closing" -> h \in n.inactive
      [] OTHER -> FALSE

ModemAgrees ==
    /\ upsets.crash = 0 => Members(nifs["agnss"]) \cap Members(nifs["internet"]) = {}
    /\ AtRest /\ Undisturbed =>
           \A h \in Handles :
               IF modem[h] = "idle"
               THEN \A nif \in Nifs : h \notin Members(nifs[nif])
               ELSE \E nif \in Nifs : Knows(nifs[nif], h)

(* A request of the modem is answered, whatever crosses it - requests,      *)
(* releases, failures and losses - while nothing happens that Agps.cpp does *)
(* not cope with.                                                           *)
OpenAnsweredUndisturbed ==
    \A h \in Handles : modem[h] = "opening" ~> (modem[h] # "opening" \/ ~Undisturbed)
=============================================================================
