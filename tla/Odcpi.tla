------------------------------- MODULE Odcpi -------------------------------
(***************************************************************************)
(* On-demand coarse position injection (GnssAdapter): the modem asks for   *)
(* positions of other sources, the adapter asks the framework, and asks    *)
(* again each time its timer ends while the modem still wants them.  The   *)
(* timer is a LocTimer, beside others of the process.                      *)
(*                                                                         *)
(* The HAL does not pass on that the modem wants no more positions: what   *)
(* it was last asked for stands.                                           *)
(***************************************************************************)
EXTENDS LocTimer

CONSTANTS
    OdcpiTimer,     \* the adapter's timer, one of Timers
    Period,         \* ODCPI_EXPECTED_INJECTION_TIME_MS
    Delays,         \* of the other timers
    MaxRequests     \* bounds what the modem asks, restarts included

ASSUME OdcpiAssumption ==
    /\ OdcpiTimer \in Timers /\ Period \in Nat \ {0} /\ Delays \subseteq Nat \ {0}
    /\ MaxRequests \in Nat

VARIABLES
    registered,     \* mOdcpiRequestCb is set
    requestActive,  \* mOdcpiRequestActive
    timerActive,    \* OdcpiTimer::mActive
    request,        \* mOdcpiRequest: is it an emergency
    adapterQ,       \* messages to the adapter thread
    wanted,         \* what the modem wants
    asked,          \* what the framework was asked for last
    requests        \* how often the modem asked

odcpiVars == <<registered, requestActive, timerActive, request, adapterQ, wanted, asked, requests>>
vars == <<timerVars, odcpiVars>>

Kinds == {"ordinary", "emergency"}

Init ==
    /\ TimerInit
    /\ registered = FALSE
    /\ requestActive = FALSE
    /\ timerActive = FALSE
    /\ request = "ordinary"
    /\ adapterQ = <<>>
    /\ wanted = "nothing"
    /\ asked = "nothing"
    /\ requests = 0

-----------------------------------------------------------------------------
(* The framework and the modem.                                            *)

\* The framework sets its callback, and does so again when it comes back; the modem asks
\* only where that registered for its requests.
InitOdcpi ==
    /\ ~registered
    /\ registered' = TRUE
    /\ UNCHANGED <<timerVars, requestActive, timerActive, request, adapterQ, wanted, asked, requests>>

Modem(kind, m) ==
    /\ registered /\ requests < MaxRequests
    /\ requests' = requests + 1
    /\ wanted' = kind
    /\ adapterQ' = Append(adapterQ, m)
    /\ UNCHANGED <<timerVars, registered, requestActive, timerActive, request, asked>>

ModemStarts == \E k \in Kinds : Modem(k, [type |-> "start", kind |-> k])
ModemStops == Modem("nothing", [type |-> "stop"])
EngineCrash == Modem("nothing", [type |-> "engineUp"])

-----------------------------------------------------------------------------
(* The adapter.                                                            *)

Take(type) == adapterQ # <<>> /\ Head(adapterQ).type = type

CanStart == Len(delegates) < MaxStarts /\ now + Period <= MaxTime

\* OdcpiTimer::start, stop and restart.
TimerStarts ==
    /\ CanStart
    /\ timerActive' = TRUE
    /\ Become(Started(Now, OdcpiTimer, Period))

TimerStops ==
    /\ timerActive' = FALSE
    /\ Become(Stopped(Now, OdcpiTimer, "stopped"))

\* Mutant: start, then stop.
TimerRestartsBackwards ==
    /\ CanStart
    /\ timerActive' = TRUE
    /\ Become(Stopped(Started(Now, OdcpiTimer, Period), OdcpiTimer, "stopped"))

TimerRestarts ==
    /\ CanStart
    /\ timerActive' = TRUE
    /\ Become(Started(Stopped(Now, OdcpiTimer, "stopped"), OdcpiTimer, Period))

Ask(kind) == asked' = kind

\* The framework is asked when nothing was under way, or for an emergency after something
\* else.
AskedNow(kind) ==
    \/ ~requestActive /\ ~timerActive
    \/ request # "emergency" /\ kind = "emergency"

HandleStart ==
    /\ Take("start")
    /\ LET kind == Head(adapterQ).kind
       IN  /\ IF AskedNow(kind)
              THEN /\ Ask(kind)
                   /\ IF timerActive THEN TimerRestarts ELSE TimerStarts
              ELSE UNCHANGED <<asked, timerActive, mTimer, delegates, msgQ, ended>>
           /\ request' = kind
    /\ requestActive' = TRUE
    /\ adapterQ' = Tail(adapterQ)
    /\ UNCHANGED <<now, alive, tree, msgAt, pollAt, armed, polled, registered, wanted,
                   requests>>

\* The timer goes on, in case more requests come.
HandleStop ==
    /\ Take("stop")
    /\ requestActive' = FALSE
    /\ adapterQ' = Tail(adapterQ)
    /\ UNCHANGED <<timerVars, registered, timerActive, request, wanted, asked, requests>>

\* restartSessions after a restart of the modem.
HandleEngineUp ==
    /\ Take("engineUp")
    /\ requestActive' = FALSE
    /\ adapterQ' = Tail(adapterQ)
    /\ UNCHANGED <<timerVars, registered, timerActive, request, wanted, asked, requests>>

HandleTimerExpire ==
    /\ Take("timerExpire")
    /\ IF requestActive THEN Ask(request) /\ TimerRestarts
       ELSE TimerStops /\ UNCHANGED asked
    /\ adapterQ' = Tail(adapterQ)
    /\ UNCHANGED <<now, alive, tree, msgAt, pollAt, armed, polled, registered,
                   requestActive, request, wanted, requests>>

-----------------------------------------------------------------------------
(* Callbacks of the timers, on the message thread of LocTimer.             *)

OdcpiTimesOut ==
    /\ Calling(OdcpiTimer)
    /\ Called
    /\ adapterQ' = Append(adapterQ, [type |-> "timerExpire"])
    /\ UNCHANGED <<registered, requestActive, timerActive, request, wanted, asked, requests>>

Others == Timers \ {OdcpiTimer}

OtherTimesOut ==
    /\ \E c \in Others : Calling(c)
    /\ Called
    /\ UNCHANGED odcpiVars

OtherStarts ==
    /\ \E c \in Others, delay \in Delays : now + delay <= MaxTime /\ ClientStart(c, delay)
    /\ UNCHANGED odcpiVars

OtherStops == (\E c \in Others : ClientStop(c)) /\ UNCHANGED odcpiVars
OtherGoes == (\E c \in Others : ClientDelete(c)) /\ UNCHANGED odcpiVars

Threads ==
    \/ TimerNext /\ UNCHANGED odcpiVars
    \/ OdcpiTimesOut \/ OtherTimesOut
    \/ HandleStart \/ HandleStop \/ HandleEngineUp \/ HandleTimerExpire

Next ==
    \/ Threads
    \/ InitOdcpi \/ ModemStarts \/ ModemStops \/ EngineCrash
    \/ OtherStarts \/ OtherStops \/ OtherGoes

Spec == Init /\ [][Next]_vars

\* The threads run, and time passes.
FairSpec ==
    /\ Spec
    /\ WF_vars((HandlePush \/ HandleRemove \/ HandleExpire \/ Arm \/ ExpireStop \/ ExpireNext)
               /\ UNCHANGED odcpiVars)
    /\ WF_vars(OdcpiTimesOut \/ OtherTimesOut)
    /\ WF_vars((PollWakes \/ PollDisarms \/ PollRemoves \/ PollSends) /\ UNCHANGED odcpiVars)
    /\ WF_vars(Tick /\ UNCHANGED odcpiVars)

-----------------------------------------------------------------------------
\* The timers', and the request GnssAdapter keeps (mOdcpiRequest).
TypeOK ==
    /\ TimerTypeOK
    /\ registered \in BOOLEAN /\ requestActive \in BOOLEAN /\ timerActive \in BOOLEAN
    /\ request \in Kinds /\ wanted \in Kinds \cup {"nothing"} /\ asked \in Kinds \cup {"nothing"}

\* The adapter asks again and again while the modem wants positions: the timer that makes it
\* do so is running, or its end is on the way to the adapter, whatever was stopped and
\* restarted meanwhile.
WantedIsAskedAgain ==
    /\ requestActive => timerActive
    /\ timerActive => \/ mTimer[OdcpiTimer] # 0
                      \/ Calling(OdcpiTimer)
                      \/ Contains(adapterQ, [type |-> "timerExpire"])
    /\ adapterQ = <<>> /\ wanted # "nothing" => requestActive /\ request = wanted

\* An emergency does not wait behind an ordinary request.
EmergencyIsAsked == request = "emergency" => asked = "emergency"

\* What the modem wants is asked of the framework again and again, the most urgent first
\* (GnssAdapter::requestOdcpi, odcpiTimerExpire).
RequestsAreRepeated == WantedIsAskedAgain /\ EmergencyIsAsked

Ticks(d) == d <= Len(delegates) /\ delegates[d].ticking

\* Every timer that was started ends.
TimersEnd == \A d \in 1..MaxStarts : Ticks(d) ~> ~Ticks(d)
=============================================================================
