-------------------------- MODULE TrackingOptions --------------------------
(***************************************************************************)
(* The options of a tracking session, and the arithmetic that multiplexes  *)
(* many sessions onto the one time-based fix session of the GNSS engine    *)
(* (gps/gnss/GnssAdapter.cpp).  Nothing here has state: a session map is a *)
(* function f from session keys <<client, id>> to options.                 *)
(*                                                                         *)
(* The adapter scans a std::map in the order of the session ids and keeps  *)
(* the first of several equals.  An operator below that stands for such a  *)
(* scan returns the set of its outcomes: one value, for session ids that   *)
(* are unique.                                                             *)
(***************************************************************************)
EXTENDS Naturals

CONSTANTS MinInterval,        (* MIN_TRACKING_INTERVAL, the engine's fastest rate     *)
          DistanceSupported   (* LOC_API_ADAPTER_MESSAGE_DISTANCE_BASE_TRACKING known *)

ASSUME OptionsAssumption ==
    /\ MinInterval \in Nat
    /\ DistanceSupported \in BOOLEAN

InvalidPower == 0   \* GNSS_POWER_MODE_INVALID; M1..M5 are 1..5, the smaller the more power
PowerModes == InvalidPower .. 5

\* size = 0 marks options that were never filled in; tbm tells whether the time
\* between measurements exceeds TRACKING_TBM_THRESHOLD_MILLIS.
Options == [size : {0, 1}, interval : Nat, power : PowerModes, distance : Nat, tbm : BOOLEAN]

Unset == [size |-> 0, interval |-> 0, power |-> InvalidPower, distance |-> 0, tbm |-> FALSE]

\* Options as a session keeps them.
SessionOptions == {o \in Options : o.interval >= MinInterval}

WithFastestInterval(o) ==
    [o EXCEPT !.interval = IF @ < MinInterval THEN MinInterval ELSE @]

WithPowerFallback(o) ==
    [o EXCEPT !.power = IF @ = 4 /\ o.tbm THEN 2 ELSE @]

\* Which of the two session maps the options put a session in.
IsDistanceBased(o) == o.distance > 0 /\ DistanceSupported

NotAfter(j, k) == j[2] <= k[2]

\* The options with the smallest interval, or the zeroed ones the scan starts from.
SmallestInterval(f) ==
    LET first(k) == \A j \in DOMAIN f :
                        \/ f[k].interval < f[j].interval
                        \/ f[k].interval = f[j].interval /\ NotAfter(k, j)
    IN  IF DOMAIN f = {} THEN {Unset}
        ELSE {f[k] : k \in {k \in DOMAIN f : first(k)}}

\* The smallest power mode: the scan takes GNSS_POWER_MODE_INVALID for "not set
\* yet", so it starts over after a session that asks for it.
LowestPower(f) ==
    LET counted == {k \in DOMAIN f : \A j \in DOMAIN f :
                        NotAfter(k, j) => f[j].power # InvalidPower}
        powers == {f[k].power : k \in counted}
    IN  IF powers = {} THEN {InvalidPower}
        ELSE {p \in powers : \A q \in powers : p <= q}

\* Mutant: a faster interval is not noticed.
AsksMorePower(o, base, power) == o.power < power

\* Options o ask more of the engine than sessions whose smallest-interval options
\* are base and whose smallest power mode is power.
AsksMore(o, base, power) == o.interval < base.interval \/ o.power < power

\* The options the engine is restarted with when o joins those sessions.
Multiplexed(o, base, power) ==
    [base EXCEPT !.interval = IF o.interval < @ THEN o.interval ELSE @,
                 !.power    = IF o.power < power THEN o.power ELSE @]

\* The first session of the highest power; a first session without a power mode
\* is never displaced.
HighestPower(f) ==
    LET first(k) == \A j \in DOMAIN f : NotAfter(k, j)
        strongest(k) == \A j \in DOMAIN f : f[j].power # InvalidPower =>
                            \/ f[k].power < f[j].power
                            \/ f[k].power = f[j].power /\ NotAfter(k, j)
    IN  {f[k] : k \in {k \in DOMAIN f :
            IF f[k].power = InvalidPower THEN first(k)
            ELSE strongest(k) /\ \A j \in DOMAIN f : first(j) => f[j].power # InvalidPower}}

\* The engine restarts a fix session with the options strong, at the rate of fast.
AtRateOf(strong, fast) ==
    [strong EXCEPT !.interval = fast.interval, !.distance = fast.distance]

\* What checkAndRestartTimeBasedSession asks of the engine.
RestartOptions(f) ==
    {AtRateOf(strong, fast) : strong \in HighestPower(f), fast \in SmallestInterval(f)}

WithPower(o, power) == [o EXCEPT !.power = power]
=============================================================================
