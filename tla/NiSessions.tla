----------------------------- MODULE NiSessions -----------------------------
(* Network-initiated location requests (GnssAdapter.cpp, requestNiNotify,    *)
(* niThreadProc and both gnssNiResponseCommands).  The network asks through  *)
(* the engine, the adapter shows the request to a client and starts a thread *)
(* that waits for the client's answer or a time-out, and answers the engine. *)
(* There is one session for SUPL (and control plane) requests and one for    *)
(* emergency ones; the adapter's thread and the sessions' threads share them.*)
EXTENDS Naturals, Sequences

CONSTANTS
    SuplRequests,   \* requests for the session of SUPL and control plane (raw requests)
    EsRequests,     \* requests for the session of emergency SUPL
    Replies,        \* what users answer
    MaxChanges,     \* how often a client adds or removes its NI callback
    None            \* no request, a null pointer and the id 0

ASSUME KindsDisjoint == SuplRequests \cap EsRequests = {}
ASSUME NoneIsNoRequest == None \notin SuplRequests \cup EsRequests
ASSUME RepliesAssumption == Replies \subseteq {"accept", "deny", "no_response", "ignore"}
ASSUME ChangesAssumption == MaxChanges \in Nat

Requests == SuplRequests \cup EsRequests
Answers == {"accept", "deny", "no_response", "ignore"}
Kinds == {"supl", "es"}
Kind(r) == IF r \in EsRequests THEN "es" ELSE "supl"

VARIABLES
    session,    \* NiData: per kind rawRequest, reqID, respRecvd, resp
    thread,     \* per request: where its session's thread is, what it took along
    adapterQ,   \* messages for the adapter's thread
    marks,      \* answers the handler under way has still to write to a session
    listening,  \* a client has a gnssNiCb
    changes,    \* how often that has changed
    arrived,    \* the requests the network has made
    given,      \* what the user answered to a request
    outcome     \* what became of a raw request: answers to the engine, "freed"

niVars == <<session, thread, adapterQ, marks, listening, changes, arrived, given, outcome>>

Idle == [raw |-> None, id |-> None, answered |-> FALSE, answer |-> "none"]
NoThread == [at |-> "none", raw |-> None, answer |-> "none"]

\* a client, the framework's, has registered its callbacks
NiInit ==
    /\ session = [k \in Kinds |-> Idle]
    /\ thread = [r \in Requests |-> NoThread]
    /\ adapterQ = <<>>
    /\ marks = <<>>
    /\ listening = TRUE /\ changes = 0
    /\ arrived = {}
    /\ given = [r \in Requests |-> "none"]
    /\ outcome = [r \in Requests |-> <<>>]

Busy(k) == session[k].raw # None
Moved(t, where) == [at |-> where, raw |-> t.raw, answer |-> t.answer]
EndsAs(r, what) == outcome' = [outcome EXCEPT ![r] = Append(@, what)]
-----------------------------------------------------------------------------
(* The network, the user and the client *)

\* How MsgReportNiNotify decides on the locks, the configuration and an emergency
\* call: a request is denied at once, or shown; control plane is accepted, too.
Routes(r) == IF r \in EsRequests THEN {"deny", "show"} ELSE {"deny", "accept", "show"}

RequestNi(r, route) ==
    /\ r \notin arrived /\ route \in Routes(r)
    /\ arrived' = arrived \cup {r}
    /\ adapterQ' = Append(adapterQ, [type |-> "notify", req |-> r, what |-> route])
    /\ UNCHANGED <<session, thread, marks, listening, changes, given, outcome>>

\* gnssNiResponse for the id of the callback, once at most
UserAnswers(r, reply) ==
    /\ thread[r].at # "none" /\ given[r] = "none"
    /\ given' = [given EXCEPT ![r] = reply]
    /\ adapterQ' = Append(adapterQ, [type |-> "respond", req |-> r, what |-> reply])
    /\ UNCHANGED <<session, thread, marks, listening, changes, arrived, outcome>>

ClientChanges ==
    /\ changes < MaxChanges /\ marks = <<>>
    /\ changes' = changes + 1
    /\ listening' = ~listening
    /\ UNCHANGED <<session, thread, adapterQ, marks, arrived, given, outcome>>
-----------------------------------------------------------------------------
(* The adapter's thread *)

TakeNi(type) ==
    /\ marks = <<>> /\ adapterQ # <<>> /\ Head(adapterQ).type = type
    /\ adapterQ' = Tail(adapterQ)
    /\ UNCHANGED <<listening, changes, arrived, given>>

\* "ignore any SUPL NI non-Es session if a SUPL NI ES is accepted"
IgnoreSupl ==
    IF Busy("supl") THEN <<[kind |-> "supl", answer |-> "ignore"]>> ELSE <<>>

\* The client is shown the request even if pthread_create has failed, which is
\* only logged: the session then holds its request without a thread.
BeginSession(r) ==
    /\ session' = [session EXCEPT ![Kind(r)] =
           [raw |-> r, id |-> r, answered |-> @.answered, answer |-> @.answer]]
    /\ \E created \in BOOLEAN :
           thread' = [thread EXCEPT ![r] = Moved(@, IF created THEN "start" ELSE "missing")]
    /\ UNCHANGED <<marks, outcome>>

NotShown == UNCHANGED <<session, thread>>

\* Mutant: only an emergency keeps a new request out.
IgnoredInEmergency(r) == Busy("es")

\* Mutant: a new request looks at its own session only.
IgnoredByItsOwn(r) == Busy(Kind(r))

\* a new request is ignored while its session, or that of an emergency, is busy
Ignored(r) == Busy(Kind(r)) \/ Busy("es")

RequestNiNotify(r) ==
    \/ /\ ~listening /\ r \in EsRequests
       /\ EndsAs(r, "accept") /\ marks' = IgnoreSupl
       /\ NotShown
    \/ /\ ~listening /\ r \notin EsRequests
       /\ UNCHANGED <<marks, outcome>> /\ NotShown
    \/ /\ listening /\ Ignored(r)
       /\ EndsAs(r, "freed") /\ UNCHANGED marks
       /\ NotShown
    \/ /\ listening /\ ~Ignored(r)
       /\ BeginSession(r)

HandleNotify ==
    /\ TakeNi("notify")
    /\ LET m == Head(adapterQ) IN
       IF m.what = "show"
       THEN RequestNiNotify(m.req)
       ELSE EndsAs(m.req, m.what) /\ UNCHANGED marks /\ NotShown

\* The handler looks for the session without its lock, and writes the answer
\* under the lock; the session's thread may come in between.
InProgress(k, r) == session[k].id = r /\ Busy(k)

HandleResponse ==
    /\ TakeNi("respond")
    /\ LET m == Head(adapterQ) IN
       marks' = CASE listening /\ InProgress("es", m.req) ->
                        Append(IF m.what = "accept" THEN IgnoreSupl ELSE <<>>,
                               [kind |-> "es", answer |-> m.what])
                  [] listening /\ ~InProgress("es", m.req) /\ InProgress("supl", m.req) ->
                        <<[kind |-> "supl", answer |-> m.what]>>
                  [] OTHER -> <<>>
    /\ UNCHANGED <<session, thread, outcome>>

MarkSession ==
    /\ marks # <<>>
    /\ LET m == Head(marks) IN
       session' = [session EXCEPT ![m.kind] =
           [raw |-> @.raw, id |-> @.id, answered |-> TRUE, answer |-> m.answer]]
    /\ marks' = Tail(marks)
    /\ UNCHANGED <<thread, adapterQ, listening, changes, arrived, given, outcome>>

InformEngine ==
    /\ TakeNi("inform")
    /\ EndsAs(Head(adapterQ).req, Head(adapterQ).what)
    /\ UNCHANGED <<session, thread, marks>>

Adapter == HandleNotify \/ HandleResponse \/ MarkSession \/ InformEngine
-----------------------------------------------------------------------------
(* The thread of a session, niThreadProc *)

Others == UNCHANGED <<marks, listening, changes, arrived, given>>

\* Mutant: the session keeps the request its thread took.
FinishKeepingRequest(r, answer) ==
    LET raw == session[Kind(r)].raw IN
    /\ session' = [session EXCEPT ![Kind(r)] =
           [raw |-> @.raw, id |-> @.id, answered |-> FALSE, answer |-> answer]]
    /\ thread' = [thread EXCEPT ![r] =
           [at |-> "clearing", raw |-> IF answer = "ignore" THEN None ELSE raw, answer |-> answer]]
    /\ IF answer = "ignore" /\ raw # None THEN EndsAs(raw, "freed") ELSE UNCHANGED outcome
    /\ UNCHANGED adapterQ /\ Others

\* Mutant: the flag of the answer is not reset.
FinishKeepingFlag(r, answer) ==
    LET raw == session[Kind(r)].raw IN
    /\ session' = [session EXCEPT ![Kind(r)] =
           [raw |-> None, id |-> @.id, answered |-> @.answered, answer |-> answer]]
    /\ thread' = [thread EXCEPT ![r] =
           [at |-> "clearing", raw |-> IF answer = "ignore" THEN None ELSE raw, answer |-> answer]]
    /\ IF answer = "ignore" /\ raw # None THEN EndsAs(raw, "freed") ELSE UNCHANGED outcome
    /\ UNCHANGED adapterQ /\ Others

\* what follows the wait, still under the lock
Finish(r, answer) ==
    LET raw == session[Kind(r)].raw IN
    /\ session' = [session EXCEPT ![Kind(r)] =
           [raw |-> None, id |-> @.id, answered |-> FALSE, answer |-> answer]]
    /\ thread' = [thread EXCEPT ![r] =
           [at |-> "clearing", raw |-> IF answer = "ignore" THEN None ELSE raw, answer |-> answer]]
    /\ IF answer = "ignore" /\ raw # None THEN EndsAs(raw, "freed") ELSE UNCHANGED outcome
    /\ UNCHANGED adapterQ /\ Others

StartWaiting(r) ==
    /\ thread[r].at = "start" /\ ~session[Kind(r)].answered
    /\ thread' = [thread EXCEPT ![r] = Moved(@, "waiting")]
    /\ UNCHANGED <<session, adapterQ, outcome>> /\ Others

Answered(r) ==
    /\ thread[r].at \in {"start", "waiting"} /\ session[Kind(r)].answered
    /\ Finish(r, session[Kind(r)].answer)

\* also after an answer, if the time is up before the thread has the lock again
TimesOut(r) ==
    /\ thread[r].at = "waiting"
    /\ Finish(r, "no_response")

\* without the lock
ClearSession(r) ==
    /\ thread[r].at = "clearing"
    /\ session' = [session EXCEPT ![Kind(r)] =
           [raw |-> @.raw, id |-> None, answered |-> @.answered, answer |-> @.answer]]
    /\ thread' = [thread EXCEPT ![r] = Moved(@, "sending")]
    /\ UNCHANGED <<adapterQ, outcome>> /\ Others

SendResponse(r) ==
    /\ thread[r].at = "sending"
    /\ thread' = [thread EXCEPT ![r] = [at |-> "done", raw |-> None, answer |-> @.answer]]
    /\ adapterQ' = IF thread[r].raw = None THEN adapterQ
                   ELSE Append(adapterQ, [type |-> "inform", req |-> thread[r].raw,
                                          what |-> thread[r].answer])
    /\ UNCHANGED <<session, outcome>> /\ Others

Thread(r) ==
    \/ StartWaiting(r) \/ Answered(r) \/ TimesOut(r)
    \/ ClearSession(r) \/ SendResponse(r)
-----------------------------------------------------------------------------
NiNext ==
    \/ \E r \in Requests, route \in {"deny", "accept", "show"} : RequestNi(r, route)
    \/ \E r \in Requests, reply \in Replies : UserAnswers(r, reply)
    \/ ClientChanges
    \/ Adapter
    \/ \E r \in Requests : Thread(r)

NiSpec == NiInit /\ [][NiNext]_niVars

(* The adapter's thread waits only for a message, and a session's thread    *)
(* only until its time-out; a user need not answer.                         *)
NiFairSpec ==
    /\ NiSpec
    /\ WF_niVars(Adapter)
    /\ \A r \in Requests : WF_niVars(Thread(r))
-----------------------------------------------------------------------------
(* Correctness *)

Held == Requests \cup {None}
Messages ==
    [type : {"notify"}, req : Requests, what : Answers \cup {"show"}]
        \cup [type : {"respond", "inform"}, req : Requests, what : Answers]
\* an answered session has an answer, and a thread that has finished has one
Sessions ==
    {s \in [raw : Held, id : Held, answered : BOOLEAN, answer : Answers \cup {"none"}] :
        s.answered => s.answer \in Answers}
Threads ==
    [at : {"none", "missing", "start", "waiting"}, raw : Held, answer : {"none"}]
        \cup [at : {"clearing", "sending", "done"}, raw : Held, answer : Answers]
Marks == [kind : Kinds, answer : Answers]
Ends == Answers \cup {"freed"}

(* NiData's two sessions, the threads niThreadProc runs in, and the messages to and from them. *)
NiTypeOK ==
    /\ session \in [Kinds -> Sessions]
    /\ thread \in [Requests -> Threads]
    /\ adapterQ \in Seq(Messages)
    /\ marks \in Seq(Marks)
    /\ listening \in BOOLEAN /\ changes \in Nat
    /\ arrived \subseteq Requests
    /\ given \in [Requests -> Answers \cup {"none"}]
    /\ outcome \in [Requests -> Seq(Ends)]

(* Where the raw request r is held: by a session, by a thread on its way to *)
(* answer, by a message to the adapter or, answered or freed, by nobody.    *)
\* messages that carry the raw request; a user's answer has only the id
Carried(r) == {i \in DOMAIN adapterQ : adapterQ[i].req = r /\ adapterQ[i].type # "respond"}
HeldBySession(r) == session[Kind(r)].raw = r
HeldByThread(r) == \E t \in Requests : thread[t].raw = r

(* A raw request has one owner: it is answered or freed once at most, and   *)
(* never answered after it was freed or while a session still holds it -    *)
(* whichever of user, time-out and emergency comes first, and however       *)
(* sessions follow each other.                                              *)
OwnedOnce ==
    \A r \in Requests :
        /\ outcome[r] # <<>> =>
               Len(outcome[r]) = 1 /\ ~HeldBySession(r) /\ ~HeldByThread(r) /\ Carried(r) = {}
        /\ HeldBySession(r) => ~HeldByThread(r) /\ Carried(r) = {}
        /\ HeldByThread(r) => Carried(r) = {}
        /\ \A i, j \in Carried(r) : i = j

(* A busy session holds a request of its kind and has the thread that will   *)
(* end it: the thread of another request, or one that has finished already,  *)
(* never has its place.  Only if that very thread could not be created does  *)
(* the session hold its request with nobody to end it (requestNiNotify).     *)
ThreadPerSession ==
    \A k \in Kinds :
        Busy(k) => /\ Kind(session[k].raw) = k
                   /\ thread[session[k].raw].at \in {"start", "waiting", "missing"}

(* The answer of a user that came too late: the thread ended otherwise.     *)
Late(r) ==
    /\ given[r] # "none"
    /\ thread[r].at \in {"clearing", "sending", "done"} /\ thread[r].answer # given[r]

EsAccepted ==
    \E e \in EsRequests :
        given[e] = "accept" \/ \E i \in DOMAIN outcome[e] : outcome[e][i] = "accept"

(* A session ends with the answer of its own user, with a time-out, or      *)
(* ignored for the sake of an emergency that was accepted - or, which is    *)
(* not meant, with a late answer to an earlier request of its kind.         *)
EndsForAReason ==
    \A r \in Requests :
        thread[r].at \in {"clearing", "sending", "done"} =>
            \/ thread[r].answer = "no_response"
            \/ thread[r].answer = given[r]
            \/ thread[r].answer = "ignore" /\ Kind(r) = "supl" /\ EsAccepted
            \/ \E late \in Requests \ {r} :
                   Kind(late) = Kind(r) /\ Late(late) /\ given[late] = thread[r].answer

(* A request that was shown, its thread created, is answered or freed in the *)
(* end, whether its user answers or not, and whatever comes in between.      *)
ShownRequestEnds ==
    \A r \in Requests : thread[r].at \notin {"none", "missing"} ~> outcome[r] # <<>>
-----------------------------------------------------------------------------
(* The fate of a request, from its outcome, its thread and its message *)
FateOf(r) ==
    CASE outcome[r] # <<>> -> IF outcome[r][1] = "freed" THEN "freed" ELSE "answered"
      [] outcome[r] = <<>> /\ r \notin arrived -> "unknown"
      [] outcome[r] = <<>> /\ r \in arrived /\ thread[r].at = "none" ->
             IF Carried(r) = {} THEN "dropped" ELSE "pending"
      [] outcome[r] = <<>> /\ r \in arrived /\ thread[r].at \in {"missing", "start", "waiting"} ->
             "shown"
      [] OTHER -> "ending"

Fate == [r \in Requests |-> FateOf(r)]

Promise == INSTANCE NiRequests WITH fate <- Fate

(* Queues, threads, locks and stale flags notwithstanding, each request goes *)
(* its way from the network to its end without a step back, and no request  *)
(* is shown while another of its session or an emergency is (requestNiNotify).*)
PromiseKept == Promise!Spec
=============================================================================
