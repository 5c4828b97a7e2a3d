------------------------ MODULE GnssTracking_proofs ------------------------
(* Theorems about GnssTracking, for every value of its constants. *)
EXTENDS GnssTracking, TLAPS, SequenceTheorems, FiniteSetTheorems

-----------------------------------------------------------------------------
(* Types of messages, options and requests *)

\* The fields of a message that its type implies.
LEMMA MessageFields ==
    ASSUME NEW m \in AdapterMsgs
    PROVE  /\ m.type \in {"startTracking", "updateTracking"} =>
                  m \in Commands /\ m.key \in Keys /\ m.options \in Options
           /\ m.type = "stopTracking" => m.key \in Keys
           /\ m.type = "addClient" => m.client \in Clients /\ m.tracking \in BOOLEAN
           /\ m.type = "removeClient" => m.client \in Clients
           /\ m.type = "response" => m.cb \in Callbacks /\ m.err \in Errors
BY DEF AdapterMsgs, Commands

LEMMA CallbackFields ==
    ASSUME NEW cb \in Callbacks
    PROVE  /\ cb.key \in Keys
           /\ cb.then \in {"fixUpdated", "switchToTime"} => cb.options \in SessionOptions
           /\ cb.then = "switchToTime" => cb.options.distance = 0
           /\ cb.then \in {"restartDistance", "distanceRestarted"} =>
                  cb.options \in SessionOptions /\ cb.options.distance > 0
BY DEF Callbacks

LEMMA CallbackTypes ==
    ASSUME NEW k \in Keys
    PROVE  /\ \A name \in {"fixStarted", "fixStopped", "distanceStarted", "distanceStopped",
                           "clientDistanceStopped"} : Then(name, k) \in Callbacks
           /\ \A o \in SessionOptions : ThenWith("fixUpdated", k, o) \in Callbacks
           /\ \A o \in SessionOptions : o.distance = 0 => ThenWith("switchToTime", k, o) \in Callbacks
           /\ \A o \in SessionOptions : o.distance > 0 =>
                  \A name \in {"restartDistance", "distanceRestarted"} :
                      ThenWith(name, k, o) \in Callbacks
BY DEF Callbacks, Then, ThenWith

LEMMA RequestTypes ==
    ASSUME NEW cb \in MaybeCallback, NEW o \in Options, NEW k \in Keys
    PROVE  /\ StartFix(o, cb) \in ApiMsgs
           /\ StopFix(cb) \in ApiMsgs
           /\ StartDistance(k, o, cb) \in ApiMsgs
           /\ StopDistance(k, cb) \in ApiMsgs
BY DEF StartFix, StopFix, StartDistance, StopDistance, ApiMsgs, Keys

LEMMA RequestFields ==
    ASSUME NEW r \in ApiMsgs
    PROVE  /\ r.op \in {"open", "ssr", "startFix", "stopFix", "startDistance", "stopDistance"}
           /\ r.op \notin {"open", "ssr"} => r.cb \in MaybeCallback
           /\ r.op \in {"startFix", "startDistance"} => r.options \in Options
           /\ r.op \in {"startDistance", "stopDistance"} => r.id \in Ids
BY DEF ApiMsgs

LEMMA OptionTypes ==
    /\ Unset \in Options
    /\ \A o \in Options : /\ WithFastestInterval(o) \in SessionOptions
                          /\ WithPowerFallback(o) \in Options
                          /\ WithFastestInterval(o).distance = o.distance
                          /\ WithPowerFallback(o).distance = o.distance
                          /\ WithPowerFallback(o).interval = o.interval
    /\ \A o \in SessionOptions : WithPowerFallback(o) \in SessionOptions
<1>1. MinInterval \in Nat
  BY OptionsAssumption DEF OptionsAssumption
<1>2. Unset \in Options
  BY DEF Unset, Options, PowerModes, InvalidPower
<1>3. ASSUME NEW o \in Options
      PROVE  /\ WithFastestInterval(o) \in SessionOptions
             /\ WithFastestInterval(o).distance = o.distance
  BY <1>1 DEF Options, SessionOptions, WithFastestInterval
<1>4. ASSUME NEW o \in Options
      PROVE  /\ WithPowerFallback(o) \in Options
             /\ WithPowerFallback(o).distance = o.distance
             /\ WithPowerFallback(o).interval = o.interval
  BY DEF Options, WithPowerFallback, PowerModes, InvalidPower
<1> QED BY <1>2, <1>3, <1>4 DEF SessionOptions

LEMMA ScanTypes ==
    ASSUME NEW f, IsSessionMap(f)
    PROVE  /\ SmallestInterval(f) \subseteq Options
           /\ LowestPower(f) \subseteq PowerModes
           /\ HighestPower(f) \subseteq SessionOptions
<1> USE DEF IsSessionMap
<1>1. SmallestInterval(f) \subseteq Options
  BY OptionTypes DEF SmallestInterval, SessionOptions
<1>2. LowestPower(f) \subseteq PowerModes
  BY DEF LowestPower, SessionOptions, Options, PowerModes, InvalidPower
<1>3. HighestPower(f) \subseteq SessionOptions
  BY DEF HighestPower
<1> QED BY <1>1, <1>2, <1>3

LEMMA MultiplexTypes ==
    ASSUME NEW o \in Options, NEW base \in Options, NEW power \in PowerModes
    PROVE  Multiplexed(o, base, power) \in Options
BY DEF Multiplexed, Options, PowerModes, InvalidPower

-----------------------------------------------------------------------------
(* What the requests of the multiplexer ask for *)

Effects == [requests : Seq(ApiMsgs), spe : BOOLEAN, reported : BOOLEAN, noWait : BOOLEAN]

LEMMA OneRequest ==
    ASSUME NEW r \in ApiMsgs
    PROVE  <<r>> \in Seq(ApiMsgs) /\ Len(<<r>>) = 1 /\ <<r>>[1] = r /\ DOMAIN <<r>> = 1 .. 1
OBVIOUS

LEMMA AsksFirst ==
    ASSUME NEW q, NEW n, DOMAIN q = 1 .. 1,
           q[1].op = "startFix", q[1].options.interval <= n
    PROVE  Asks(q, n)
<1>1. \A j \in DOMAIN q : ~(j > 1)
  OBVIOUS
<1>2. 1 \in DOMAIN q
  OBVIOUS
<1> QED BY <1>1, <1>2, Zenon DEF Asks

LEMMA AsksMonotonic ==
    ASSUME NEW q \in Seq(ApiMsgs), NEW m \in Nat, NEW n \in Nat, m <= n, Asks(q, m)
    PROVE  Asks(q, n)
<1>1. PICK i \in DOMAIN q :
          /\ q[i].op = "startFix" /\ q[i].options.interval <= m
          /\ \A j \in DOMAIN q : j > i => ~Settles(q[j])
  BY Zenon DEF Asks
<1>2. q[i] \in ApiMsgs
  BY LenProperties, ElementOfSeq
<1>3. q[i].options.interval \in Nat
  BY <1>1, <1>2, RequestFields DEF Options
<1>4. q[i].options.interval <= n
  BY <1>1, <1>3
<1> QED BY <1>1, <1>4, Zenon DEF Asks

LEMMA FixEffect ==
    ASSUME NEW o \in Options, NEW cb \in MaybeCallback, NEW spe \in BOOLEAN,
           NEW e, e = Effect(<<StartFix(o, cb)>>, spe, FALSE, FALSE)
    PROVE  /\ e \in Effects /\ e.spe = spe
           /\ \A n \in Nat : o.interval <= n => Asks(e.requests, n)
<1>1. /\ StartFix(o, cb) \in ApiMsgs
      /\ StartFix(o, cb).op = "startFix" /\ StartFix(o, cb).options = o
  BY DEF StartFix, ApiMsgs
<1>2. e \in Effects /\ e.requests = <<StartFix(o, cb)>> /\ e.spe = spe
  BY <1>1, OneRequest DEF Effect, Effects
<1>3. DOMAIN e.requests = 1 .. 1 /\ e.requests[1] = StartFix(o, cb)
  BY <1>1, <1>2, OneRequest
<1>4. ASSUME NEW n \in Nat, o.interval <= n PROVE Asks(e.requests, n)
  <2>1. e.requests[1].op = "startFix" /\ e.requests[1].options.interval <= n
    BY <1>1, <1>3, <1>4
  <2> QED BY <1>3, <2>1, AsksFirst, Zenon
<1> QED BY <1>2, <1>4

LEMMA RequestFixEffect ==
    ASSUME NEW o \in Options, NEW cb \in MaybeCallback, NEW spe \in BOOLEAN, NEW nHz \in BOOLEAN,
           NEW e, e = RequestFix(o, cb, spe, nHz)
    PROVE  /\ e \in Effects
           /\ \/ nHz /\ spe /\ e.spe /\ e.requests = <<>>
              \/ /\ Asks(e.requests, o.interval)
                 /\ e.spe => IF nHz THEN Asks(e.requests, MinInterval) ELSE spe
<1>1. MinInterval \in Nat /\ o.interval \in Nat
  BY OptionsAssumption DEF OptionsAssumption, Options
<1>2. CASE nHz /\ spe
  BY <1>2, EmptySeq DEF RequestFix, Effect, Effects
<1>3. CASE ~(nHz /\ spe) /\ nHz /\ o.interval > MinInterval
  <2> DEFINE p == [o EXCEPT !.interval = MinInterval]
  <2>1. p \in Options /\ p.interval = MinInterval
    BY <1>1 DEF Options
  <2>2. e = Effect(<<StartFix(p, cb)>>, TRUE, FALSE, FALSE)
    BY <1>3 DEF RequestFix
  <2> HIDE DEF p
  <2>3. e \in Effects /\ \A n \in Nat : p.interval <= n => Asks(e.requests, n)
    BY <2>1, <2>2, FixEffect
  <2>4. p.interval <= o.interval /\ p.interval <= MinInterval
    BY <1>1, <1>3, <2>1
  <2>5. Asks(e.requests, o.interval) /\ Asks(e.requests, MinInterval)
    BY <1>1, <2>3, <2>4
  <2> QED BY <1>3, <2>3, <2>5
<1>4. CASE ~(nHz /\ spe) /\ ~(nHz /\ o.interval > MinInterval)
  <2>1. e = Effect(<<StartFix(o, cb)>>, spe, FALSE, FALSE)
    BY <1>4 DEF RequestFix
  <2>2. e \in Effects /\ e.spe = spe /\ \A n \in Nat : o.interval <= n => Asks(e.requests, n)
    BY <2>1, FixEffect
  <2>3. Asks(e.requests, o.interval)
    BY <1>1, <2>2
  <2>4. e.spe => IF nHz THEN Asks(e.requests, MinInterval) ELSE spe
    BY <1>4, <2>2
  <2> QED BY <2>2, <2>3, <2>4
<1> QED BY <1>2, <1>3, <1>4

\* The scan for the smallest interval finds a session, if there is one.
LEMMA SmallestIsSmallest ==
    ASSUME NEW f, IsSessionMap(f), NEW base \in SmallestInterval(f)
    PROVE  /\ base \in Options
           /\ \A k \in DOMAIN f : f[k] \in SessionOptions /\ base.interval <= f[k].interval
           /\ DOMAIN f # {} => \E j \in DOMAIN f : base = f[j]
<1>1. base \in Options
  BY ScanTypes
<1>2. \A k \in DOMAIN f : f[k] \in SessionOptions /\ f[k].interval \in Nat
  BY DEF IsSessionMap, SessionOptions, Options
<1>3. CASE DOMAIN f = {}
  BY <1>1, <1>3
<1>4. CASE DOMAIN f # {}
  <2>1. PICK j \in DOMAIN f :
            /\ base = f[j]
            /\ \A i \in DOMAIN f : f[j].interval < f[i].interval
                                  \/ f[j].interval = f[i].interval
    BY <1>4, Zenon DEF SmallestInterval
  <2>2. \A k \in DOMAIN f : base.interval <= f[k].interval
    BY <1>2, <2>1
  <2> QED BY <1>1, <1>2, <2>1, <2>2
<1> QED BY <1>3, <1>4

\* The order a session map is iterated in is a sequence of its keys.
LEMMA InOrderTypes ==
    ASSUME NEW K \in SUBSET Keys, NEW s \in InOrder(K)
    PROVE  /\ \E n \in Nat : DOMAIN s = 1 .. n
           /\ \A i \in DOMAIN s : s[i] \in K
<1>1. PICK n \in 0 .. MaxId : s \in [1 .. n -> K]
  BY Zenon DEF InOrder
<1>2. n \in Nat
  BY GnssAssumption DEF GnssAssumption
<1> QED BY <1>1, <1>2

LEMMA MapToSeq ==
    ASSUME NEW S, NEW n \in Nat, NEW q, DOMAIN q = 1 .. n, q = [i \in 1 .. n |-> q[i]],
           \A i \in 1 .. n : q[i] \in S
    PROVE  q \in Seq(S)
<1>1. q \in [1 .. n -> S]
  BY Zenon
<1> QED BY <1>1, SeqDef, Zenon

LEMMA JoinTypes ==
    ASSUME TypeOK, NEW o \in Options, NEW f, IsSessionMap(f), NEW cb \in MaybeCallback
    PROVE  JoinEffects(o, f, cb) \subseteq Effects
<1> SUFFICES ASSUME NEW base \in SmallestInterval(f), NEW power \in LowestPower(f)
             PROVE  /\ RequestFix(Multiplexed(o, base, power), cb, speAtHighest, nHzNeeded)
                            \in Effects
                    /\ NoRequest \in Effects
  BY DEF JoinEffects
<1>1. speAtHighest \in BOOLEAN /\ nHzNeeded \in BOOLEAN
  BY DEF TypeOK
<1>2. Multiplexed(o, base, power) \in Options
  BY ScanTypes, MultiplexTypes
<1>3. NoRequest \in Effects
  BY <1>1, EmptySeq DEF NoRequest, Effect, Effects
<1> QED BY <1>1, <1>2, <1>3, RequestFixEffect

LEMMA NoRequestType == TypeOK => NoRequest \in Effects
BY EmptySeq DEF TypeOK, NoRequest, Effect, Effects

LEMMA SubMaps ==
    ASSUME NEW f, IsSessionMap(f), NEW k
    PROVE  /\ IsSessionMap(Without(f, k))
           /\ DOMAIN Without(f, k) = DOMAIN f \ {k}
           /\ \A j \in DOMAIN f \ {k} : Without(f, k)[j] = f[j]
           /\ \A o \in SessionOptions : k \in Keys => IsSessionMap(With(f, k, o))
BY DEF IsSessionMap, With, Without

LEMMA WithMap ==
    ASSUME NEW f, NEW k \in DOMAIN f, NEW o
    PROVE  DOMAIN With(f, k, o) = DOMAIN f
BY DEF With

LEMMA StartTypes ==
    ASSUME TypeOK, NEW k \in Keys, NEW o \in SessionOptions
    PROVE  StartEffects(k, o) \subseteq Effects
<1>1. Then("fixStarted", k) \in MaybeCallback
  BY CallbackTypes DEF MaybeCallback
<1>2. IsSessionMap(timeBased) /\ speAtHighest \in BOOLEAN /\ nHzNeeded \in BOOLEAN
  BY DEF TypeOK
<1>3. o \in Options
  BY DEF SessionOptions
<1>4. RequestFix(o, Then("fixStarted", k), speAtHighest, nHzNeeded) \in Effects
  BY <1>1, <1>2, <1>3, RequestFixEffect
<1>5. JoinEffects(o, timeBased, Then("fixStarted", k)) \subseteq Effects
  BY <1>1, <1>2, <1>3, JoinTypes
<1> QED BY <1>4, <1>5 DEF StartEffects

LEMMA UpdateTypes ==
    ASSUME TypeOK, NEW k \in DOMAIN timeBased, NEW o \in SessionOptions
    PROVE  UpdateEffects(k, o) \subseteq Effects
<1> DEFINE cb == ThenWith("fixUpdated", k, timeBased[k])
<1>1. k \in Keys /\ timeBased[k] \in SessionOptions
  BY DEF TypeOK, IsSessionMap
<1>2. cb \in MaybeCallback
  BY <1>1, CallbackTypes DEF MaybeCallback
<1>3. IsSessionMap(timeBased) /\ speAtHighest \in BOOLEAN /\ nHzNeeded \in BOOLEAN
  BY DEF TypeOK
<1>4. o \in Options
  BY DEF SessionOptions
<1> HIDE DEF cb
<1>5. RequestFix(o, cb, speAtHighest, nHzNeeded) \in Effects
  BY <1>2, <1>3, <1>4, RequestFixEffect
<1>6. JoinEffects(o, Without(timeBased, k), cb) \subseteq Effects
  BY <1>2, <1>3, <1>4, SubMaps, JoinTypes
<1> QED BY <1>5, <1>6, NoRequestType DEF UpdateEffects, cb

LEMMA StopCases ==
    ASSUME NEW k, NEW e \in StopEffects(k)
    PROVE  \/ DOMAIN timeBased = {k}
              /\ e = StopRequest(k)
           \/ DOMAIN timeBased # {k}
              /\ \E base \in SmallestInterval(Without(timeBased, k)),
                    power \in LowestPower(Without(timeBased, k)) :
                   \/ e = NoRequest
                   \/ e = RequestFix(WithPower(base, power), Then("fixStarted", k),
                                     speAtHighest, nHzNeeded)
<1>1. CASE DOMAIN timeBased = {k}
  BY <1>1 DEF StopEffects
<1>2. CASE DOMAIN timeBased # {k}
  BY <1>2 DEF StopEffects
<1> QED BY <1>1, <1>2

LEMMA RestartCases ==
    ASSUME NEW nHz, NEW e \in RestartEffects(nHz)
    PROVE  \E s \in InOrder(DOMAIN distanceBased) :
               \/ DOMAIN timeBased = {}
                  /\ e = Followed(NothingToFix, DistanceRequests(s))
               \/ \E o \in RestartOptions(timeBased) :
                     e = Followed(RestartFix(o, nHz), DistanceRequests(s))
<1>1. CASE DOMAIN timeBased = {}
  BY <1>1 DEF RestartEffects
<1>2. CASE DOMAIN timeBased # {}
  BY <1>2 DEF RestartEffects
<1> QED BY <1>1, <1>2

LEMMA StopTypes ==
    ASSUME TypeOK, NEW k \in DOMAIN timeBased
    PROVE  StopEffects(k) \subseteq Effects
<1>1. k \in Keys /\ IsSessionMap(timeBased)
  BY DEF TypeOK, IsSessionMap
<1>2. Then("fixStarted", k) \in MaybeCallback /\ Then("fixStopped", k) \in MaybeCallback
  BY <1>1, CallbackTypes DEF MaybeCallback
<1>3. speAtHighest \in BOOLEAN /\ nHzNeeded \in BOOLEAN
  BY DEF TypeOK
<1>4. StopRequest(k) \in Effects
  <2>1. StopFix(Then("fixStopped", k)) \in ApiMsgs
    BY <1>2 DEF StopFix, ApiMsgs
  <2> QED BY <2>1, OneRequest DEF StopRequest, Effect, Effects
<1>5. ASSUME NEW base \in SmallestInterval(Without(timeBased, k)),
             NEW power \in LowestPower(Without(timeBased, k))
      PROVE  RequestFix(WithPower(base, power), Then("fixStarted", k),
                        speAtHighest, nHzNeeded) \in Effects
  <2>1. base \in Options /\ power \in PowerModes
    BY <1>1, SubMaps, ScanTypes
  <2>2. WithPower(base, power) \in Options
    BY <2>1 DEF WithPower, Options
  <2> QED BY <2>2, <1>2, <1>3, RequestFixEffect
<1>6. ASSUME NEW e \in StopEffects(k) PROVE e \in Effects
  <2>1. CASE DOMAIN timeBased = {k} /\ e = StopRequest(k)
    BY <1>4, <2>1
  <2>2. CASE DOMAIN timeBased # {k}
    <3>1. PICK base \in SmallestInterval(Without(timeBased, k)),
               power \in LowestPower(Without(timeBased, k)) :
              \/ e = NoRequest
              \/ e = RequestFix(WithPower(base, power), Then("fixStarted", k),
                                speAtHighest, nHzNeeded)
      BY <2>2, StopCases
    <3> QED BY <1>5, <3>1, NoRequestType
  <2> QED BY <2>1, <2>2, StopCases
<1> QED BY <1>6

LEMMA RestartOptionTypes ==
    ASSUME NEW f, IsSessionMap(f), NEW o \in RestartOptions(f)
    PROVE  /\ o \in Options
           /\ DOMAIN f # {} => \A k \in DOMAIN f : o.interval <= f[k].interval
<1>1. PICK strong \in HighestPower(f), fast \in SmallestInterval(f) : o = AtRateOf(strong, fast)
  BY DEF RestartOptions
<1>2. strong \in Options /\ fast \in Options
  BY ScanTypes DEF SessionOptions
<1>3. o \in Options /\ o.interval = fast.interval
  BY <1>1, <1>2 DEF AtRateOf, Options
<1> QED BY <1>3, SmallestIsSmallest

LEMMA DistanceTypes ==
    ASSUME IsSessionMap(distanceBased), NEW s \in InOrder(DOMAIN distanceBased)
    PROVE  DistanceRequests(s) \in Seq(ApiMsgs)
<1>1. PICK n \in Nat : DOMAIN s = 1 .. n /\ \A i \in DOMAIN s : s[i] \in DOMAIN distanceBased
  BY InOrderTypes DEF IsSessionMap
<1>2. ASSUME NEW i \in 1 .. n PROVE DistanceRequests(s)[i] \in ApiMsgs
  <2>1. s[i] \in Keys /\ distanceBased[s[i]] \in Options /\ NoCallback \in MaybeCallback
    BY <1>1 DEF IsSessionMap, SessionOptions, MaybeCallback
  <2>2. StartDistance(s[i], distanceBased[s[i]], NoCallback) \in ApiMsgs
    BY <2>1 DEF StartDistance, ApiMsgs, Keys
  <2> QED BY <1>1, <2>2 DEF DistanceRequests
<1>3. /\ DOMAIN DistanceRequests(s) = 1 .. n
      /\ DistanceRequests(s) = [i \in 1 .. n |-> DistanceRequests(s)[i]]
  BY <1>1 DEF DistanceRequests
<1> QED BY <1>2, <1>3, MapToSeq

LEMMA RestartTypes ==
    ASSUME TypeOK, NEW nHz \in BOOLEAN
    PROVE  RestartEffects(nHz) \subseteq Effects
<1>1. IsSessionMap(timeBased) /\ IsSessionMap(distanceBased)
  BY DEF TypeOK
<1>2. \A s \in InOrder(DOMAIN distanceBased) : DistanceRequests(s) \in Seq(ApiMsgs)
  BY <1>1, DistanceTypes
<1>3. NothingToFix \in Effects
  BY EmptySeq DEF NothingToFix, Effect, Effects
<1>4. ASSUME NEW o \in RestartOptions(timeBased)
      PROVE  RestartFix(o, nHz) \in Effects
  <2>1. o \in Options
    BY <1>1, RestartOptionTypes
  <2> QED BY <2>1, RequestFixEffect DEF RestartFix, MaybeCallback
<1>5. \A e \in Effects : \A d \in Seq(ApiMsgs) : Followed(e, d) \in Effects
  BY ConcatProperties DEF Followed, Effects
<1>6. ASSUME NEW e \in RestartEffects(nHz) PROVE e \in Effects
  BY <1>2, <1>3, <1>4, <1>5, RestartCases
<1> QED BY <1>6

-----------------------------------------------------------------------------
(* The requests serve the sessions that remain: the steps of ServesInv *)

\* An engine that serves the sessions, or will: ServesInv but for the hub's requests.
Serves == Repaired /\ Serving

SpeKept(e) == \/ e.requests = <<>> /\ e.spe = speAtHighest
              \/ e.spe => IF nHzNeeded THEN Asks(e.requests, MinInterval)
                                       ELSE hub.at = "restarting"

\* Requests r make up for what the sessions f ask, or nothing is asked and the
\* engine runs fast enough as it is.
Covers(r, f) ==
    \A k \in DOMAIN f : \/ Asks(r, f[k].interval)
                        \/ r = <<>> /\ (Recovering \/ WillRun(f[k].interval))

LEMMA WillRunMonotonic ==
    ASSUME TypeOK, NEW m \in Nat, NEW n \in Nat, m <= n, WillRun(m)
    PROVE  WillRun(n)
<1>1. CASE Asks(apiQ, m)
  BY <1>1, AsksMonotonic DEF TypeOK, WillRun
<1>2. CASE Keeps(apiQ) /\ engine.running /\ engine.fix.interval <= m
  <2>1. engine.fix.interval \in Nat
    BY DEF TypeOK, Options
  <2>2. engine.fix.interval <= n
    BY <1>2, <2>1
  <2> QED BY <1>2, <2>2 DEF WillRun
<1> QED BY <1>1, <1>2 DEF WillRun

LEMMA FixServes ==
    ASSUME TypeOK, Serves, NEW o \in SessionOptions, NEW cb \in MaybeCallback,
           NEW e, e = RequestFix(o, cb, speAtHighest, nHzNeeded)
    PROVE  /\ SpeKept(e)
           /\ \/ Asks(e.requests, o.interval)
              \/ e.requests = <<>> /\ (Recovering \/ WillRun(o.interval))
<1>1. /\ o \in Options /\ o.interval \in Nat /\ MinInterval \in Nat
      /\ MinInterval <= o.interval
  BY OptionsAssumption DEF OptionsAssumption, SessionOptions, Options
<1>2. /\ speAtHighest \in BOOLEAN /\ nHzNeeded \in BOOLEAN
      /\ speAtHighest /\ nHzNeeded => Recovering \/ WillRun(MinInterval)
      /\ speAtHighest /\ ~nHzNeeded => hub.at = "restarting"
  BY DEF TypeOK, Serves, Serving
<1>3. /\ e \in Effects
      /\ \/ nHzNeeded /\ speAtHighest /\ e.spe /\ e.requests = <<>>
         \/ /\ Asks(e.requests, o.interval)
            /\ e.spe => IF nHzNeeded THEN Asks(e.requests, MinInterval) ELSE speAtHighest
  BY <1>1, <1>2, RequestFixEffect
<1>4. CASE nHzNeeded /\ speAtHighest /\ e.spe /\ e.requests = <<>>
  <2>1. Recovering \/ WillRun(o.interval)
    BY <1>1, <1>2, <1>4, WillRunMonotonic
  <2>2. e.spe = speAtHighest
    BY <1>2, <1>3, <1>4 DEF Effects
  <2> QED BY <1>4, <2>1, <2>2 DEF SpeKept
<1> QED BY <1>2, <1>3, <1>4 DEF SpeKept

LEMMA JoinServes ==
    ASSUME TypeOK, Serves, NEW o \in SessionOptions, NEW f, IsSessionMap(f), DOMAIN f # {},
           \A j \in DOMAIN f : Recovering \/ WillRun(f[j].interval),
           NEW cb \in MaybeCallback, NEW e \in JoinEffects(o, f, cb)
    PROVE  /\ e \in Effects /\ SpeKept(e) /\ Covers(e.requests, f)
           /\ \/ Asks(e.requests, o.interval)
              \/ e.requests = <<>> /\ (Recovering \/ WillRun(o.interval))
<1>1. PICK base \in SmallestInterval(f), power \in LowestPower(f) :
          e = IF AsksMore(o, base, power)
              THEN RequestFix(Multiplexed(o, base, power), cb, speAtHighest, nHzNeeded)
              ELSE NoRequest
  BY DEF JoinEffects
<1>2. /\ base \in Options /\ base.interval \in Nat
      /\ \A k \in DOMAIN f : f[k].interval \in Nat /\ base.interval <= f[k].interval
      /\ \E j \in DOMAIN f : base = f[j]
  BY SmallestIsSmallest DEF SessionOptions, Options
<1>3. /\ o \in Options /\ o.interval \in Nat /\ MinInterval \in Nat
      /\ MinInterval <= o.interval /\ \A k \in DOMAIN f : MinInterval <= f[k].interval
  BY OptionsAssumption DEF OptionsAssumption, SessionOptions, Options, IsSessionMap
<1>4. /\ speAtHighest \in BOOLEAN /\ nHzNeeded \in BOOLEAN
      /\ speAtHighest /\ ~nHzNeeded => hub.at = "restarting"
  BY DEF TypeOK, Serves, Serving
<1>5. speAtHighest /\ nHzNeeded => Recovering \/ WillRun(MinInterval)
  BY DEF Serves, Serving
<1>6. CASE AsksMore(o, base, power)
  <2>1. PICK p \in Options :
            /\ p.interval <= o.interval /\ p.interval <= base.interval /\ p.interval \in Nat
            /\ e = RequestFix(p, cb, speAtHighest, nHzNeeded)
    <3> DEFINE p == Multiplexed(o, base, power)
    <3>1. power \in PowerModes
      BY ScanTypes
    <3>2. p \in Options
      BY <1>2, <1>3, <3>1, MultiplexTypes
    <3>3. p.interval <= o.interval /\ p.interval <= base.interval /\ p.interval \in Nat
      BY <1>2, <1>3, <3>1 DEF Multiplexed, Options
    <3>4. e = RequestFix(p, cb, speAtHighest, nHzNeeded)
      BY <1>1, <1>6
    <3> HIDE DEF p
    <3> QED BY <3>2, <3>3, <3>4
  <2>2. /\ e \in Effects
        /\ \/ nHzNeeded /\ speAtHighest /\ e.spe /\ e.requests = <<>>
           \/ /\ Asks(e.requests, p.interval)
              /\ e.spe => IF nHzNeeded THEN Asks(e.requests, MinInterval) ELSE hub.at = "restarting"
    BY <2>1, <1>4, RequestFixEffect
  <2>3. CASE nHzNeeded /\ speAtHighest /\ e.spe /\ e.requests = <<>>
    <3>1. Recovering \/ \A n \in Nat : MinInterval <= n => WillRun(n)
      BY <1>3, <1>5, <2>3, WillRunMonotonic
    <3>2. e.spe = speAtHighest
      BY <2>2, <2>3, <1>4 DEF Effects
    <3> QED BY <1>2, <1>3, <2>2, <2>3, <3>1, <3>2 DEF SpeKept, Covers
  <2>4. CASE /\ Asks(e.requests, p.interval)
             /\ e.spe => IF nHzNeeded THEN Asks(e.requests, MinInterval) ELSE hub.at = "restarting"
    <3>1. \A n \in Nat : p.interval <= n => Asks(e.requests, n)
      BY <2>1, <2>2, <2>4, AsksMonotonic DEF Effects
    <3>2. \A k \in DOMAIN f : p.interval <= f[k].interval
      BY <1>2, <2>1
    <3> QED BY <1>2, <1>3, <2>1, <2>2, <2>4, <3>1, <3>2 DEF SpeKept, Covers
  <2> QED BY <2>2, <2>3, <2>4
<1>7. CASE ~AsksMore(o, base, power)
  <2>1. e = NoRequest
    BY <1>1, <1>7
  <2>2. e \in Effects /\ e.requests = <<>> /\ e.spe = speAtHighest
    BY <2>1, <1>4, EmptySeq DEF NoRequest, Effect, Effects
  <2>3. base.interval <= o.interval
    BY <1>2, <1>3, <1>7 DEF AsksMore
  <2>4. Recovering \/ WillRun(o.interval)
    BY <1>2, <1>3, <2>3, WillRunMonotonic
  <2> QED BY <2>2, <2>4 DEF SpeKept, Covers
<1> QED BY <1>6, <1>7

\* startTimeBasedTrackingMultiplex serves the sessions with the one that starts.
LEMMA StartServes ==
    ASSUME TypeOK, Serves, NEW k \in Keys, NEW o \in SessionOptions,
           NEW e \in StartEffects(k, o)
    PROVE  SpeKept(e) /\ Covers(e.requests, With(timeBased, k, o))
<1> DEFINE cb == Then("fixStarted", k)
<1>1. cb \in MaybeCallback
  BY CallbackTypes DEF MaybeCallback
<1> HIDE DEF cb
<1>2. IsSessionMap(timeBased) /\ \A j \in DOMAIN timeBased : Recovering \/ WillRun(timeBased[j].interval)
  BY DEF TypeOK, Serves, Repaired, Serving
<1>3. CASE DOMAIN timeBased = {}
  <2>1. e = RequestFix(o, cb, speAtHighest, nHzNeeded)
    BY <1>3 DEF StartEffects, cb
  <2>2. SpeKept(e) /\ (\/ Asks(e.requests, o.interval)
                       \/ e.requests = <<>> /\ (Recovering \/ WillRun(o.interval)))
    BY <1>1, <2>1, FixServes
  <2> QED BY <1>3, <2>2 DEF Covers, With
<1>4. CASE DOMAIN timeBased # {}
  <2>1. e \in JoinEffects(o, timeBased, cb)
    BY <1>4 DEF StartEffects, cb
  <2>2. /\ SpeKept(e) /\ Covers(e.requests, timeBased)
        /\ \/ Asks(e.requests, o.interval)
           \/ e.requests = <<>> /\ (Recovering \/ WillRun(o.interval))
    BY <1>1, <1>2, <1>4, <2>1, JoinServes
  <2> QED BY <2>2 DEF Covers, With
<1> QED BY <1>3, <1>4

\* updateTrackingMultiplex serves the sessions with the new options of one.
LEMMA UpdateServes ==
    ASSUME TypeOK, Serves, NEW k \in DOMAIN timeBased, NEW o \in SessionOptions,
           NEW e \in UpdateEffects(k, o)
    PROVE  SpeKept(e) /\ Covers(e.requests, With(timeBased, k, o))
<1> DEFINE cb == ThenWith("fixUpdated", k, timeBased[k])
           rest == Without(timeBased, k)
<1>1. k \in Keys /\ timeBased[k] \in SessionOptions /\ IsSessionMap(timeBased)
  BY DEF TypeOK, IsSessionMap
<1>2. cb \in MaybeCallback
  BY <1>1, CallbackTypes DEF MaybeCallback
<1>3. \A j \in DOMAIN timeBased : Recovering \/ WillRun(timeBased[j].interval)
  BY DEF Serves, Repaired, Serving
<1>4. /\ IsSessionMap(rest) /\ DOMAIN rest = DOMAIN timeBased \ {k}
      /\ \A j \in DOMAIN rest : rest[j] = timeBased[j] /\ With(timeBased, k, o)[j] = timeBased[j]
      /\ DOMAIN With(timeBased, k, o) = DOMAIN timeBased /\ With(timeBased, k, o)[k] = o
  <2>1. DOMAIN With(timeBased, k, o) = DOMAIN timeBased
    BY WithMap
  <2>2. With(timeBased, k, o)[k] = o
    BY DEF With
  <2>3. \A j \in DOMAIN timeBased \ {k} : With(timeBased, k, o)[j] = timeBased[j]
    BY DEF With
  <2> QED BY <1>1, <2>1, <2>2, <2>3, SubMaps
<1> HIDE DEF cb, rest
<1>5. CASE e = NoRequest /\ o.interval = timeBased[k].interval
  <2>1. e.requests = <<>> /\ e.spe = speAtHighest
    BY <1>5 DEF NoRequest, Effect
  <2> QED BY <1>3, <1>4, <1>5, <2>1 DEF SpeKept, Covers
<1>6. CASE DOMAIN timeBased = {k} /\ e = RequestFix(o, cb, speAtHighest, nHzNeeded)
  <2>1. SpeKept(e) /\ (\/ Asks(e.requests, o.interval)
                       \/ e.requests = <<>> /\ (Recovering \/ WillRun(o.interval)))
    BY <1>2, <1>6, FixServes
  <2> QED BY <1>4, <1>6, <2>1 DEF Covers
<1>7. CASE DOMAIN timeBased # {k} /\ e \in JoinEffects(o, rest, cb)
  <2>1. DOMAIN rest # {} /\ \A j \in DOMAIN rest : Recovering \/ WillRun(rest[j].interval)
    BY <1>3, <1>4, <1>7
  <2>2. /\ SpeKept(e) /\ Covers(e.requests, rest)
        /\ \/ Asks(e.requests, o.interval)
           \/ e.requests = <<>> /\ (Recovering \/ WillRun(o.interval))
    BY <1>2, <1>4, <1>7, <2>1, JoinServes
  <2> QED BY <1>4, <2>2 DEF Covers
<1> QED BY <1>5, <1>6, <1>7 DEF UpdateEffects, cb, rest

\* stopTimeBasedTrackingMultiplex serves the sessions that go on.
LEMMA StopServes ==
    ASSUME TypeOK, Serves, NEW k \in DOMAIN timeBased, NEW e \in StopEffects(k)
    PROVE  SpeKept(e) /\ Covers(e.requests, Without(timeBased, k))
<1> DEFINE cb == Then("fixStarted", k)
           rest == Without(timeBased, k)
<1>1. k \in Keys /\ IsSessionMap(timeBased) /\ speAtHighest \in BOOLEAN /\ nHzNeeded \in BOOLEAN
  BY DEF TypeOK, IsSessionMap
<1>2. cb \in MaybeCallback
  BY <1>1, CallbackTypes DEF MaybeCallback
<1>3. \A j \in DOMAIN timeBased : Recovering \/ WillRun(timeBased[j].interval)
  BY DEF Serves, Repaired, Serving
<1>4. /\ IsSessionMap(rest) /\ DOMAIN rest = DOMAIN timeBased \ {k}
      /\ \A j \in DOMAIN rest : rest[j] = timeBased[j]
  BY <1>1, SubMaps
<1> HIDE DEF cb, rest
<1>5. CASE DOMAIN timeBased = {k} /\ e = StopRequest(k)
  <2>1. ~e.spe
    BY <1>5 DEF StopRequest, Effect
  <2> QED BY <1>4, <1>5, <2>1 DEF SpeKept, Covers, rest
<1>6. ASSUME NEW base \in SmallestInterval(rest), NEW power \in LowestPower(rest),
             e = RequestFix(WithPower(base, power), cb, speAtHighest, nHzNeeded),
             DOMAIN timeBased # {k}
      PROVE  Covers(e.requests, rest) /\ SpeKept(e)
  <2>1. base \in Options /\ power \in PowerModes /\ \E j \in DOMAIN rest : base = rest[j]
    BY <1>4, <1>6, ScanTypes, SmallestIsSmallest
  <2>2. \A j \in DOMAIN rest : rest[j] \in SessionOptions /\ base.interval <= rest[j].interval
    BY <1>4, SmallestIsSmallest
  <2>3. WithPower(base, power) \in SessionOptions /\ WithPower(base, power).interval = base.interval
    BY <2>1, <2>2 DEF WithPower, SessionOptions, Options
  <2>4. SpeKept(e) /\ (\/ \A n \in Nat : base.interval <= n => Asks(e.requests, n)
                       \/ e.requests = <<>> /\ (Recovering \/ WillRun(base.interval)))
    <3>1. SpeKept(e) /\ (\/ Asks(e.requests, base.interval)
                         \/ e.requests = <<>> /\ (Recovering \/ WillRun(base.interval)))
      BY <1>2, <1>6, <2>3, FixServes
    <3>2. e \in Effects
      BY <1>1, <1>2, <1>6, <2>3, RequestFixEffect DEF SessionOptions
    <3> QED BY <3>1, <3>2, <2>1, AsksMonotonic DEF Effects, Options
  <2>5. CASE \A n \in Nat : base.interval <= n => Asks(e.requests, n)
    BY <2>2, <2>4, <2>5 DEF Covers, SessionOptions, Options
  <2>6. CASE e.requests = <<>>
    BY <1>3, <1>4, <2>4, <2>6 DEF Covers
  <2> QED BY <2>4, <2>5, <2>6
<1>7. CASE e = NoRequest
  <2>1. e.requests = <<>> /\ e.spe = speAtHighest
    BY <1>7 DEF NoRequest, Effect
  <2> QED BY <1>3, <1>4, <2>1 DEF SpeKept, Covers, rest
<1>8. CASE DOMAIN timeBased # {k}
  <2>1. PICK base \in SmallestInterval(rest), power \in LowestPower(rest) :
            \/ e = NoRequest
            \/ e = RequestFix(WithPower(base, power), cb, speAtHighest, nHzNeeded)
    BY <1>8, StopCases DEF cb, rest
  <2>2. CASE e = NoRequest
    BY <1>7, <2>2 DEF rest
  <2>3. CASE e = RequestFix(WithPower(base, power), cb, speAtHighest, nHzNeeded)
    BY <1>6, <1>8, <2>3 DEF rest
  <2> QED BY <2>1, <2>2, <2>3
<1>9. CASE DOMAIN timeBased = {k}
  BY <1>5, <1>9, StopCases
<1> QED BY <1>8, <1>9

\* How the requests of a queue and those appended to it add up.
LEMMA ConcatAsks ==
    ASSUME NEW q \in Seq(ApiMsgs), NEW r \in Seq(ApiMsgs), NEW n
    PROVE  /\ Asks(r, n) => Asks(q \o r, n)
           /\ Asks(q, n) /\ Keeps(r) => Asks(q \o r, n)
           /\ Keeps(q) /\ Keeps(r) => Keeps(q \o r)
           /\ Reopens(q) \/ Reopens(r) => Reopens(q \o r)
<1>1. /\ Len(q) \in Nat /\ Len(r) \in Nat
      /\ DOMAIN q = 1 .. Len(q) /\ DOMAIN r = 1 .. Len(r)
      /\ DOMAIN (q \o r) = 1 .. (Len(q) + Len(r))
  BY LenProperties, ConcatProperties
<1>2. /\ \A i \in DOMAIN q : i \in DOMAIN (q \o r) /\ (q \o r)[i] = q[i]
      /\ \A i \in DOMAIN r : Len(q) + i \in DOMAIN (q \o r) /\ (q \o r)[Len(q) + i] = r[i]
  BY <1>1, ConcatProperties
<1>3. \A j \in DOMAIN (q \o r) :
          \/ j \in DOMAIN q /\ (q \o r)[j] = q[j]
          \/ j - Len(q) \in DOMAIN r /\ (q \o r)[j] = r[j - Len(q)] /\ j > Len(q)
  BY <1>1, ConcatProperties
<1>4. ASSUME Asks(r, n) PROVE Asks(q \o r, n)
  <2>1. PICK i \in DOMAIN r :
            /\ r[i].op = "startFix" /\ r[i].options.interval <= n
            /\ \A j \in DOMAIN r : j > i => ~Settles(r[j])
    BY <1>4, Zenon DEF Asks
  <2>2. ASSUME NEW j \in DOMAIN (q \o r), j > Len(q) + i PROVE ~Settles((q \o r)[j])
    <3>1. j - Len(q) \in DOMAIN r /\ j - Len(q) > i /\ (q \o r)[j] = r[j - Len(q)]
      BY <1>1, <1>3, <2>1, <2>2
    <3> QED BY <2>1, <3>1, Zenon
  <2>3. /\ Len(q) + i \in DOMAIN (q \o r)
        /\ (q \o r)[Len(q) + i].op = "startFix"
        /\ (q \o r)[Len(q) + i].options.interval <= n
    BY <1>2, <2>1
  <2> QED BY <2>2, <2>3, Zenon DEF Asks
<1>5. ASSUME Asks(q, n), Keeps(r) PROVE Asks(q \o r, n)
  <2>1. PICK i \in DOMAIN q :
            /\ q[i].op = "startFix" /\ q[i].options.interval <= n
            /\ \A j \in DOMAIN q : j > i => ~Settles(q[j])
    BY <1>5, Zenon DEF Asks
  <2>2. ASSUME NEW j \in DOMAIN (q \o r), j > i PROVE ~Settles((q \o r)[j])
    BY <1>3, <1>5, <2>1, <2>2 DEF Keeps
  <2>3. /\ i \in DOMAIN (q \o r) /\ (q \o r)[i].op = "startFix"
        /\ (q \o r)[i].options.interval <= n
    BY <1>2, <2>1
  <2> QED BY <2>2, <2>3, Zenon DEF Asks
<1>6. Keeps(q) /\ Keeps(r) => Keeps(q \o r)
  BY <1>3 DEF Keeps
<1>7. Reopens(q) \/ Reopens(r) => Reopens(q \o r)
  BY <1>2 DEF Reopens
<1> QED BY <1>4, <1>5, <1>6, <1>7

\* checkAndRestartSPESession serves every session anew.
LEMMA RestartServes ==
    ASSUME TypeOK, NEW nHz \in BOOLEAN, NEW e \in RestartEffects(nHz)
    PROVE  /\ \A k \in DOMAIN timeBased : Asks(e.requests, timeBased[k].interval)
           /\ e.spe => nHz /\ Asks(e.requests, MinInterval)
<1>1. IsSessionMap(timeBased) /\ IsSessionMap(distanceBased)
  BY DEF TypeOK
<1>2. PICK s \in InOrder(DOMAIN distanceBased) :
          \/ DOMAIN timeBased = {} /\ e = Followed(NothingToFix, DistanceRequests(s))
          \/ \E o \in RestartOptions(timeBased) : e = Followed(RestartFix(o, nHz), DistanceRequests(s))
  BY RestartCases
<1> DEFINE d == DistanceRequests(s)
<1>3. d \in Seq(ApiMsgs)
  BY <1>1, DistanceTypes
<1>4. Keeps(d)
  BY DEF Keeps, Settles, DistanceRequests, StartDistance
<1> HIDE DEF d
<1>5. CASE DOMAIN timeBased = {} /\ e = Followed(NothingToFix, d)
  <2>1. ~e.spe
    BY <1>5 DEF Followed, NothingToFix, Effect
  <2> QED BY <1>5, <2>1
<1>6. ASSUME NEW o \in RestartOptions(timeBased), e = Followed(RestartFix(o, nHz), d),
             DOMAIN timeBased # {}
      PROVE  /\ \A k \in DOMAIN timeBased : Asks(e.requests, timeBased[k].interval)
             /\ e.spe => nHz /\ Asks(e.requests, MinInterval)
  <2> DEFINE fix == RestartFix(o, nHz)
  <2>1. o \in Options /\ o.interval \in Nat /\ \A k \in DOMAIN timeBased : o.interval <= timeBased[k].interval
    BY <1>1, <1>6, RestartOptionTypes DEF Options
  <2>2. /\ fix \in Effects /\ Asks(fix.requests, o.interval)
        /\ fix.spe => nHz /\ Asks(fix.requests, MinInterval)
    BY <2>1, RequestFixEffect DEF RestartFix, MaybeCallback
  <2> HIDE DEF fix
  <2>3. e.requests = fix.requests \o d /\ e.spe = fix.spe
    BY <1>6, <2>2 DEF Followed, Effects, fix
  <2>4. ASSUME NEW k \in DOMAIN timeBased PROVE Asks(e.requests, timeBased[k].interval)
    <3>1. timeBased[k].interval \in Nat /\ o.interval <= timeBased[k].interval
      BY <1>1, <2>1 DEF IsSessionMap, SessionOptions, Options
    <3>2. Asks(fix.requests, timeBased[k].interval)
      BY <2>1, <2>2, <3>1, AsksMonotonic DEF Effects
    <3> QED BY <1>3, <1>4, <2>2, <2>3, <3>2, ConcatAsks DEF Effects
  <2>5. ASSUME e.spe PROVE nHz /\ Asks(e.requests, MinInterval)
    BY <1>3, <1>4, <2>2, <2>3, <2>5, ConcatAsks DEF Effects
  <2> QED BY <2>4, <2>5
<1>7. CASE DOMAIN timeBased = {}
  <2>1. RestartOptions(timeBased) = {} \/ DOMAIN timeBased # {}
    BY <1>7 DEF RestartOptions, HighestPower
  <2> QED BY <1>2, <1>5, <1>7, <2>1 DEF d
<1> QED BY <1>2, <1>6, <1>7 DEF d
-----------------------------------------------------------------------------
(* Type correctness *)

LEMMA HeadMessage ==
    ASSUME TypeOK, adapterQ # <<>>
    PROVE  Message \in AdapterMsgs /\ Tail(adapterQ) \in Seq(AdapterMsgs)
BY HeadTailProperties DEF TypeOK, Message

LEMMA PostType ==
    ASSUME TypeOK, NEW e \in Effects, Post(e)
    PROVE  apiQ' \in Seq(ApiMsgs) /\ speAtHighest' \in BOOLEAN
BY ConcatProperties DEF TypeOK, Post, Effects

LEMMA ReplyType ==
    ASSUME TypeOK, NEW k \in Keys, NEW err \in Errors,
           ReportResponse(k, err) \/ UNCHANGED replyVars
    PROVE  owed' \in [Keys -> Int] /\ told' \in [Keys -> Errors \cup {"nothing"}]
<1>1. owed \in [Keys -> Int] /\ told \in [Keys -> Errors \cup {"nothing"}]
  BY DEF TypeOK
<1>2. /\ [owed EXCEPT ![k] = @ - 1] \in [Keys -> Int]
      /\ [told EXCEPT ![k] = err] \in [Keys -> Errors \cup {"nothing"}]
  BY <1>1
<1>3. \/ owed' = [owed EXCEPT ![k] = @ - 1] /\ told' = [told EXCEPT ![k] = err]
      \/ owed' = owed /\ told' = told
  BY DEF ReportResponse, replyVars
<1> QED BY <1>1, <1>2, <1>3

LEMMA SaveType ==
    ASSUME TypeOK, NEW tb, IsSessionMap(tb), NEW k \in Keys, NEW o \in SessionOptions,
           SaveTrackingSession(tb, k, o)
    PROVE  IsSessionMap(timeBased') /\ IsSessionMap(distanceBased')
<1>1. IsSessionMap(timeBased) /\ IsSessionMap(distanceBased)
  BY DEF TypeOK
<1>2. IsSessionMap(With(tb, k, o)) /\ IsSessionMap(With(distanceBased, k, o))
  BY <1>1, SubMaps
<1>3. CASE IsDistanceBased(o)
  BY <1>1, <1>2, <1>3 DEF SaveTrackingSession
<1>4. CASE ~IsDistanceBased(o)
  BY <1>1, <1>2, <1>4 DEF SaveTrackingSession
<1> QED BY <1>3, <1>4

LEMMA EraseType ==
    ASSUME TypeOK, NEW k, EraseTrackingSession(k)
    PROVE  IsSessionMap(timeBased') /\ IsSessionMap(distanceBased')
<1>1. IsSessionMap(timeBased) /\ IsSessionMap(distanceBased)
  BY DEF TypeOK
<1>2. IsSessionMap(Without(timeBased, k)) /\ IsSessionMap(Without(distanceBased, k))
  BY <1>1, SubMaps
<1> QED BY <1>1, <1>2 DEF EraseTrackingSession

LEMMA CommandTypes ==
    /\ \A k \in Keys : \A o \in Options :
           /\ [type |-> "startTracking", key |-> k, options |-> o] \in AdapterMsgs
           /\ [type |-> "updateTracking", key |-> k, options |-> o] \in AdapterMsgs
    /\ \A k \in Keys : [type |-> "stopTracking", key |-> k] \in AdapterMsgs
    /\ \A c \in Clients : /\ \A t \in BOOLEAN :
                               [type |-> "addClient", client |-> c, tracking |-> t] \in AdapterMsgs
                          /\ [type |-> "removeClient", client |-> c] \in AdapterMsgs
    /\ [type |-> "reconfigure"] \in AdapterMsgs /\ [type |-> "engineUp"] \in AdapterMsgs
    /\ \A cb \in Callbacks : \A err \in Errors :
           [type |-> "response", cb |-> cb, err |-> err] \in AdapterMsgs
BY DEF AdapterMsgs, Commands

LEMMA CallType ==
    ASSUME TypeOK, NEW m \in AdapterMsgs, Call(m), lifecycle' \in [Clients -> {"unborn", "alive", "destroyed"}],
           owner' = owner
    PROVE  TypeOK'
<1>1. adapterQ' \in Seq(AdapterMsgs) /\ calls' \in 0 .. MaxCalls
  BY AppendProperties, GnssAssumption DEF GnssAssumption, TypeOK, Call
<1> QED BY <1>1 DEF TypeOK, Call, adapterVars

LEMMA CommandType ==
    ASSUME TypeOK, NEW k \in Keys, NEW m \in AdapterMsgs, Command(k, m),
           owner' \in Seq(Clients), Len(owner') <= MaxId
    PROVE  TypeOK'
<1>1. adapterQ' \in Seq(AdapterMsgs) /\ calls' \in 0 .. MaxCalls
  BY AppendProperties, GnssAssumption DEF GnssAssumption, TypeOK, Command
<1>2. owed' \in [Keys -> Int]
  BY DEF TypeOK, Command
<1> QED BY <1>1, <1>2 DEF TypeOK, Command, sessionVars

LEMMA ClientType == TypeOK /\ Client => TypeOK'
<1> SUFFICES ASSUME TypeOK, Client PROVE TypeOK'
  OBVIOUS
<1>1. ASSUME NEW c \in Clients, NEW t \in TrackingCbs, CreateInstance(c, t) \/ UpdateCallbacks(c, t)
      PROVE  TypeOK'
  <2>1. [type |-> "addClient", client |-> c, tracking |-> t] \in AdapterMsgs
    BY CommandTypes, GnssAssumption DEF GnssAssumption
  <2>2. lifecycle' \in [Clients -> {"unborn", "alive", "destroyed"}] /\ owner' = owner
    BY <1>1 DEF TypeOK, CreateInstance, UpdateCallbacks
  <2> QED BY <1>1, <2>1, <2>2, CallType DEF CreateInstance, UpdateCallbacks
<1>2. ASSUME NEW c \in Clients, Destroy(c) PROVE TypeOK'
  <2>1. [type |-> "removeClient", client |-> c] \in AdapterMsgs
    BY CommandTypes
  <2>2. lifecycle' \in [Clients -> {"unborn", "alive", "destroyed"}] /\ owner' = owner
    BY <1>2 DEF TypeOK, Destroy
  <2> QED BY <1>2, <2>1, <2>2, CallType DEF Destroy
<1>3. ASSUME NEW c \in Clients, NEW o \in StartOptions, StartTrackingCommand(c, o) PROVE TypeOK'
  <2> DEFINE k == <<c, Len(owner) + 1>>
  <2>1. k \in Keys /\ o \in Options /\ owner \in Seq(Clients) /\ Len(owner) < MaxId
    BY <1>3, LenProperties, GnssAssumption DEF GnssAssumption, TypeOK, StartTrackingCommand, Keys, Ids
  <2>2. owner' = Append(owner, c) /\ Command(k, [type |-> "startTracking", key |-> k, options |-> o])
    BY <1>3 DEF StartTrackingCommand
  <2> HIDE DEF k
  <2>3. owner' \in Seq(Clients) /\ Len(owner') <= MaxId
    BY <2>1, <2>2, AppendProperties, LenProperties, GnssAssumption DEF GnssAssumption
  <2>4. [type |-> "startTracking", key |-> k, options |-> o] \in AdapterMsgs
    BY <2>1, CommandTypes
  <2> QED BY <2>1, <2>2, <2>3, <2>4, CommandType
<1>4. ASSUME NEW i \in DOMAIN owner,
             \/ \E o \in UpdateOptions : UpdateTrackingOptionsCommand(i, o)
             \/ StopTrackingCommand(i)
      PROVE  TypeOK'
  <2> DEFINE k == <<owner[i], i>>
  <2>1. k \in Keys /\ owner \in Seq(Clients) /\ Len(owner) <= MaxId
    BY LenProperties, ElementOfSeq, GnssAssumption DEF GnssAssumption, TypeOK, Keys, Ids
  <2>2. PICK m \in AdapterMsgs : Command(k, m) /\ owner' = owner
    <3>1. CASE StopTrackingCommand(i)
      <4>1. [type |-> "stopTracking", key |-> k] \in AdapterMsgs
        BY <2>1, CommandTypes
      <4> QED BY <3>1, <4>1 DEF StopTrackingCommand
    <3>2. ASSUME NEW o \in UpdateOptions, UpdateTrackingOptionsCommand(i, o)
          PROVE  \E m \in AdapterMsgs : Command(k, m) /\ owner' = owner
      <4>1. [type |-> "updateTracking", key |-> k, options |-> o] \in AdapterMsgs
        BY <2>1, CommandTypes, GnssAssumption DEF GnssAssumption
      <4> QED BY <3>2, <4>1 DEF UpdateTrackingOptionsCommand
    <3> QED BY <1>4, <3>1, <3>2
  <2> HIDE DEF k
  <2> QED BY <2>1, <2>2, CommandType
<1>5. ASSUME ReconfigureCommand PROVE TypeOK'
  <2>1. PICK m \in AdapterMsgs : Call(m) /\ lifecycle' = lifecycle /\ owner' = owner
    BY <1>5, CommandTypes DEF ReconfigureCommand
  <2>2. lifecycle' \in [Clients -> {"unborn", "alive", "destroyed"}]
    BY <2>1 DEF TypeOK
  <2> QED BY <2>1, <2>2, CallType
<1> QED BY <1>1, <1>2, <1>3, <1>4, <1>5 DEF Client

LEMMA ApiThreadType == TypeOK /\ (ApiThread \/ EngineDown) => TypeOK'
<1> SUFFICES ASSUME TypeOK, ApiThread \/ EngineDown PROVE TypeOK'
  OBVIOUS
<1>1. ASSUME apiQ # <<>> PROVE Request \in ApiMsgs /\ Tail(apiQ) \in Seq(ApiMsgs)
  BY <1>1, HeadTailProperties DEF TypeOK, Request
<1>2. \A up \in BOOLEAN : Stopped(up) \in [up : BOOLEAN, running : BOOLEAN, fix : Options, distance : SUBSET Ids]
  BY OptionTypes DEF Stopped
<1>3. CASE Open
  <2>1. adapterQ' \in Seq(AdapterMsgs)
    <3>1. [type |-> "engineUp"] \in AdapterMsgs /\ adapterQ \in Seq(AdapterMsgs)
      BY CommandTypes DEF TypeOK
    <3>2. adapterQ' = adapterQ \/ adapterQ' = Append(adapterQ, [type |-> "engineUp"])
      BY <1>3 DEF Open
    <3> QED BY <3>1, <3>2, AppendProperties
  <2>2. engine' \in [up : BOOLEAN, running : BOOLEAN, fix : Options, distance : SUBSET Ids]
    BY <1>2, <1>3 DEF Open, TypeOK
  <2> QED BY <1>1, <1>3, <2>1, <2>2 DEF Open, Serve, Served, TypeOK, clientVars, adapterVars
<1>4. CASE EngineRequest
  <2>1. Request \in ApiMsgs /\ Request.op \in {"startFix", "stopFix", "startDistance", "stopDistance"}
    BY <1>1, <1>4 DEF EngineRequest, Serve
  <2>2. /\ Request.cb \in MaybeCallback
        /\ Request.op \in {"startFix", "startDistance"} => Request.options \in Options
        /\ Request.op \in {"startDistance", "stopDistance"} => Request.id \in Ids
    BY <2>1, RequestFields
  <2>3. adapterQ' \in Seq(AdapterMsgs)
    <3>1. PICK err \in Errors : Answer(err)
      BY <1>4 DEF EngineRequest, Errors
    <3>2. Request.cb # NoCallback => [type |-> "response", cb |-> Request.cb, err |-> err] \in AdapterMsgs
      BY <2>2, CommandTypes DEF MaybeCallback
    <3> QED BY <3>1, <3>2, AppendProperties DEF Answer, TypeOK
  <2>4. Accepted(Request) \in [up : BOOLEAN, running : BOOLEAN, fix : Options, distance : SUBSET Ids]
    <3>1. /\ engine \in [up : BOOLEAN, running : BOOLEAN, fix : Options, distance : SUBSET Ids]
          /\ Unset \in Options
      BY OptionTypes DEF TypeOK
    <3>2. CASE Request.op = "startFix"
      BY <2>2, <3>1, <3>2 DEF Accepted
    <3>3. CASE Request.op = "stopFix"
      BY <3>1, <3>3 DEF Accepted
    <3>4. CASE Request.op = "startDistance"
      BY <2>2, <3>1, <3>4 DEF Accepted
    <3>5. CASE Request.op = "stopDistance"
      BY <2>2, <3>1, <3>5 DEF Accepted
    <3> QED BY <2>1, <3>2, <3>3, <3>4, <3>5
  <2>5. engine' \in [up : BOOLEAN, running : BOOLEAN, fix : Options, distance : SUBSET Ids]
    BY <1>4, <2>4 DEF EngineRequest, TypeOK
  <2> QED BY <1>1, <1>4, <2>3, <2>5 DEF EngineRequest, Serve, Served, TypeOK, clientVars, adapterVars
<1>5. CASE EngineDown
  <2>1. apiQ' \in Seq(ApiMsgs)
    BY <1>5, AppendProperties DEF EngineDown, TypeOK, ApiMsgs
  <2>2. engine' \in [up : BOOLEAN, running : BOOLEAN, fix : Options, distance : SUBSET Ids]
    BY <1>2, <1>5 DEF EngineDown
  <2>3. crashes' \in 0 .. MaxCrashes
    BY <1>5, GnssAssumption DEF GnssAssumption, EngineDown, TypeOK
  <2> QED BY <1>5, <2>1, <2>2, <2>3 DEF EngineDown, TypeOK, clientVars, adapterVars
<1> QED BY <1>3, <1>4, <1>5 DEF ApiThread

\* What remains to be shown of an adapter step that consumed its message.
LEMMA AdapterType ==
    ASSUME TypeOK, Done, adapterQ # <<>>,
           DOMAIN clientData' \subseteq Clients, \A c \in DOMAIN clientData' : clientData'[c] \in BOOLEAN,
           IsSessionMap(timeBased'), IsSessionMap(distanceBased'),
           capabilitiesKnown' \in BOOLEAN, nHzNeeded' \in BOOLEAN, speAtHighest' \in BOOLEAN,
           pendingMsgs' \in Seq([msg : Commands, sent : BOOLEAN]),
           apiQ' \in Seq(ApiMsgs),
           owed' \in [Keys -> Int], told' \in [Keys -> Errors \cup {"nothing"}],
           ended' \subseteq Keys
    PROVE  TypeOK'
BY HeadMessage DEF Done, TypeOK, clientVars

\* The commands of the clients.
LEMMA CommandStepType ==
    TypeOK /\ (AddClient \/ RemoveClientStopsOne \/ RemoveClient \/ Defer
               \/ StartTracking \/ UpdateTracking \/ StopTracking) => TypeOK'
<1> SUFFICES ASSUME TypeOK,
                    AddClient \/ RemoveClientStopsOne \/ RemoveClient \/ Defer
                      \/ StartTracking \/ UpdateTracking \/ StopTracking
             PROVE  TypeOK'
  OBVIOUS
<1>1. adapterQ # <<>> /\ Message \in AdapterMsgs
  <2>1. adapterQ # <<>>
    BY DEF AddClient, RemoveClientStopsOne, RemoveClient, Defer, StartTracking, UpdateTracking,
           StopTracking, Receive
  <2> QED BY <2>1, HeadMessage
<1>2. IsSessionMap(timeBased) /\ IsSessionMap(distanceBased)
  BY DEF TypeOK
<1>3. CASE AddClient
  <2>1. Message.client \in Clients /\ Message.tracking \in BOOLEAN
    BY <1>1, <1>3, MessageFields DEF AddClient, Receive
  <2>2. /\ DOMAIN clientData' \subseteq Clients
        /\ \A c \in DOMAIN clientData' : clientData'[c] \in BOOLEAN
    BY <1>3, <2>1 DEF AddClient, With, TypeOK
  <2> QED BY <1>1, <1>3, <2>2, AdapterType DEF AddClient, sessionVars, replyVars, TypeOK
<1>4. CASE RemoveClientStopsOne
  <2>0. PICK k \in DOMAIN timeBased : \E e \in StopEffects(k) :
            Post(e) /\ EraseTrackingSession(k) /\ ReportIf(e.reported, k, "SUCCESS")
    BY <1>4 DEF RemoveClientStopsOne
  <2>1. PICK e \in StopEffects(k) :
            Post(e) /\ EraseTrackingSession(k) /\ ReportIf(e.reported, k, "SUCCESS")
    BY <2>0
  <2>2. k \in Keys /\ e \in Effects
    BY <1>2, StopTypes DEF IsSessionMap
  <2>3. apiQ' \in Seq(ApiMsgs) /\ speAtHighest' \in BOOLEAN
    BY <2>1, <2>2, PostType
  <2>4. IsSessionMap(timeBased') /\ IsSessionMap(distanceBased')
    BY <2>1, EraseType
  <2>5. owed' \in [Keys -> Int] /\ told' \in [Keys -> Errors \cup {"nothing"}]
    BY <2>1, <2>2, ReplyType DEF ReportIf, Errors
  <2> QED BY <1>4, <2>3, <2>4, <2>5 DEF RemoveClientStopsOne, setupVars, clientVars, TypeOK
<1>5. CASE RemoveClient
  <2> DEFINE mine == {k \in DOMAIN distanceBased : k[1] = Message.client}
             stop(k) == StopDistance(k, Then("clientDistanceStopped", k))
  <2>1. PICK s \in InOrder(mine) : apiQ' = apiQ \o [i \in DOMAIN s |-> stop(s[i])]
    BY <1>5 DEF RemoveClient
  <2>2. PICK n \in Nat : DOMAIN s = 1 .. n /\ \A i \in DOMAIN s : s[i] \in Keys
    BY <1>2, InOrderTypes DEF IsSessionMap
  <2>3. [i \in DOMAIN s |-> stop(s[i])] \in Seq(ApiMsgs)
    <3> DEFINE q == [i \in DOMAIN s |-> stop(s[i])]
    <3>1. ASSUME NEW i \in 1 .. n PROVE q[i] \in ApiMsgs
      <4>1. Then("clientDistanceStopped", s[i]) \in MaybeCallback /\ s[i] \in Keys
        BY <2>2, CallbackTypes DEF MaybeCallback
      <4>2. stop(s[i]) \in ApiMsgs
        BY <4>1 DEF StopDistance, ApiMsgs, Keys
      <4> QED BY <2>2, <4>2
    <3>2. DOMAIN q = 1 .. n /\ q = [i \in 1 .. n |-> q[i]]
      BY <2>2
    <3> HIDE DEF q
    <3>3. q \in Seq(ApiMsgs)
      BY <3>1, <3>2, MapToSeq
    <3> QED BY <3>3 DEF q
  <2> HIDE DEF stop, mine
  <2>4. apiQ' \in Seq(ApiMsgs)
    BY <2>1, <2>3, ConcatProperties DEF TypeOK
  <2>5. /\ DOMAIN clientData' \subseteq Clients
        /\ \A c \in DOMAIN clientData' : clientData'[c] \in BOOLEAN
    BY <1>5 DEF RemoveClient, Without, TypeOK
  <2> QED BY <1>1, <1>5, <2>4, <2>5, AdapterType DEF RemoveClient, sessionVars, replyVars, TypeOK
<1>6. CASE Defer
  <2>1. Message \in Commands
    BY <1>1, <1>6, MessageFields DEF Defer, Receive
  <2>2. [msg |-> Message, sent |-> FALSE] \in [msg : Commands, sent : BOOLEAN]
    BY <2>1
  <2>3. pendingMsgs' \in Seq([msg : Commands, sent : BOOLEAN])
    BY <1>6, <2>2, AppendProperties DEF Defer, TypeOK
  <2> QED BY <1>1, <1>6, <2>3, AdapterType DEF Defer, sessionVars, replyVars, TypeOK
<1>7. CASE StartTracking
  <2> DEFINE k == Message.key
             o == WithFastestInterval(Message.options)
             p == WithPowerFallback(o)
  <2>1. k \in Keys /\ Message.options \in Options
    BY <1>1, <1>7, MessageFields DEF StartTracking, Receive
  <2>2. o \in SessionOptions /\ p \in SessionOptions
    BY <2>1, OptionTypes
  <2>3. \/ UNCHANGED <<sessionVars, replyVars, speAtHighest, apiQ>>
        \/ /\ SaveTrackingSession(timeBased, k, o)
           /\ apiQ' = Append(apiQ, StartDistance(k, o, Then("distanceStarted", k)))
           /\ UNCHANGED <<replyVars, speAtHighest>>
        \/ /\ \E e \in StartEffects(k, p) :
                  Post(e) /\ ReportIf(e.reported \/ e.noWait, k, "SUCCESS")
           /\ SaveTrackingSession(timeBased, k, p)
    BY <1>7 DEF StartTracking
  <2> HIDE DEF k, o, p
  <2>4. IsSessionMap(timeBased') /\ IsSessionMap(distanceBased')
    BY <1>2, <2>1, <2>2, <2>3, SaveType DEF sessionVars
  <2>5. /\ apiQ' \in Seq(ApiMsgs) /\ speAtHighest' \in BOOLEAN
        /\ owed' \in [Keys -> Int] /\ told' \in [Keys -> Errors \cup {"nothing"}]
    <3>1. CASE UNCHANGED <<replyVars, speAtHighest, apiQ>>
      BY <3>1 DEF replyVars, TypeOK
    <3>2. CASE /\ apiQ' = Append(apiQ, StartDistance(k, o, Then("distanceStarted", k)))
               /\ UNCHANGED <<replyVars, speAtHighest>>
      <4>1. StartDistance(k, o, Then("distanceStarted", k)) \in ApiMsgs
        BY <2>1, <2>2, CallbackTypes, RequestTypes DEF MaybeCallback, SessionOptions
      <4> QED BY <3>2, <4>1, AppendProperties DEF replyVars, TypeOK
    <3>3. ASSUME NEW e \in StartEffects(k, p), Post(e), ReportIf(e.reported \/ e.noWait, k, "SUCCESS")
          PROVE  /\ apiQ' \in Seq(ApiMsgs) /\ speAtHighest' \in BOOLEAN
                 /\ owed' \in [Keys -> Int] /\ told' \in [Keys -> Errors \cup {"nothing"}]
      BY <2>1, <2>2, <3>3, StartTypes, PostType, ReplyType DEF ReportIf, Errors
    <3> QED BY <2>3, <3>1, <3>2, <3>3
  <2> QED BY <1>1, <1>7, <2>4, <2>5, AdapterType DEF StartTracking, TypeOK
<1>8. CASE UpdateTracking
  <2> DEFINE k == Message.key
             o == WithFastestInterval(WithPowerFallback(Message.options))
  <2>1. k \in Keys /\ Message.options \in Options
    BY <1>1, <1>8, MessageFields DEF UpdateTracking, Receive
  <2>2. o \in SessionOptions /\ o \in Options
    BY <2>1, OptionTypes DEF SessionOptions
  <2>3. \/ /\ \E err \in Errors : ReportResponse(k, err)
           /\ UNCHANGED <<sessionVars, speAtHighest, apiQ>>
        \/ /\ k \in DOMAIN timeBased
           /\ \E e \in StopEffects(k) :
                 /\ apiQ' = (apiQ \o e.requests) \o << StartDistance(k, o, NoCallback) >>
                 /\ speAtHighest' = e.spe
                 /\ ReportIf(e.reported \/ e.noWait, k, "SUCCESS")
           /\ SaveTrackingSession(Without(timeBased, k), k, o)
        \/ /\ EraseTrackingSession(k) /\ o.distance = 0
           /\ apiQ' = Append(apiQ, StopDistance(k, ThenWith("switchToTime", k, o)))
           /\ UNCHANGED <<replyVars, speAtHighest>>
        \/ /\ k \in DOMAIN timeBased
           /\ \E e \in UpdateEffects(k, o) :
                 Post(e) /\ ReportIf(e.reported \/ e.noWait, k, "SUCCESS")
           /\ SaveTrackingSession(timeBased, k, o)
        \/ /\ o.distance > 0
           /\ apiQ' = Append(apiQ, StopDistance(k, ThenWith("restartDistance", k, o)))
           /\ UNCHANGED <<sessionVars, replyVars, speAtHighest>>
    BY <1>8 DEF UpdateTracking, Errors
  <2> HIDE DEF k, o
  <2>4. IsSessionMap(timeBased') /\ IsSessionMap(distanceBased')
    <3>1. IsSessionMap(Without(timeBased, k))
      BY <1>2, SubMaps
    <3> QED BY <1>2, <2>1, <2>2, <2>3, <3>1, SaveType, EraseType DEF sessionVars
  <2>5. /\ apiQ' \in Seq(ApiMsgs) /\ speAtHighest' \in BOOLEAN
        /\ owed' \in [Keys -> Int] /\ told' \in [Keys -> Errors \cup {"nothing"}]
    <3>1. CASE /\ \E err \in Errors : ReportResponse(k, err)
               /\ UNCHANGED <<sessionVars, speAtHighest, apiQ>>
      BY <2>1, <3>1, ReplyType DEF TypeOK
    <3>2. ASSUME k \in DOMAIN timeBased, NEW e \in StopEffects(k),
                 apiQ' = (apiQ \o e.requests) \o << StartDistance(k, o, NoCallback) >>,
                 speAtHighest' = e.spe, ReportIf(e.reported \/ e.noWait, k, "SUCCESS")
          PROVE  /\ apiQ' \in Seq(ApiMsgs) /\ speAtHighest' \in BOOLEAN
                 /\ owed' \in [Keys -> Int] /\ told' \in [Keys -> Errors \cup {"nothing"}]
      <4>1. e \in Effects
        BY <3>2, StopTypes
      <4>2. StartDistance(k, o, NoCallback) \in ApiMsgs
        BY <2>1, <2>2, RequestTypes DEF MaybeCallback
      <4>3. apiQ' \in Seq(ApiMsgs)
        BY <3>2, <4>1, <4>2, OneRequest, ConcatProperties DEF Effects, TypeOK
      <4>4. owed' \in [Keys -> Int] /\ told' \in [Keys -> Errors \cup {"nothing"}]
        BY <2>1, <3>2, ReplyType DEF ReportIf, Errors
      <4> QED BY <3>2, <4>1, <4>3, <4>4 DEF Effects
    <3>3. ASSUME NEW r \in ApiMsgs, apiQ' = Append(apiQ, r), UNCHANGED <<replyVars, speAtHighest>>
          PROVE  /\ apiQ' \in Seq(ApiMsgs) /\ speAtHighest' \in BOOLEAN
                 /\ owed' \in [Keys -> Int] /\ told' \in [Keys -> Errors \cup {"nothing"}]
      BY <3>3, AppendProperties DEF replyVars, TypeOK
    <3>4. o.distance = 0 => StopDistance(k, ThenWith("switchToTime", k, o)) \in ApiMsgs
      BY <2>1, <2>2, CallbackTypes, RequestTypes DEF MaybeCallback
    <3>5. o.distance > 0 => StopDistance(k, ThenWith("restartDistance", k, o)) \in ApiMsgs
      BY <2>1, <2>2, CallbackTypes, RequestTypes DEF MaybeCallback
    <3>6. ASSUME k \in DOMAIN timeBased, NEW e \in UpdateEffects(k, o), Post(e),
                 ReportIf(e.reported \/ e.noWait, k, "SUCCESS")
          PROVE  /\ apiQ' \in Seq(ApiMsgs) /\ speAtHighest' \in BOOLEAN
                 /\ owed' \in [Keys -> Int] /\ told' \in [Keys -> Errors \cup {"nothing"}]
      BY <2>1, <2>2, <3>6, UpdateTypes, PostType, ReplyType DEF ReportIf, Errors
    <3> QED BY <2>3, <3>1, <3>2, <3>3, <3>4, <3>5, <3>6
  <2> QED BY <1>1, <1>8, <2>4, <2>5, AdapterType DEF UpdateTracking, TypeOK
<1>9. CASE StopTracking
  <2> DEFINE k == Message.key
  <2>1. k \in Keys
    BY <1>1, <1>9, MessageFields DEF StopTracking, Receive
  <2>2. \/ /\ k \in DOMAIN timeBased
           /\ \E e \in StopEffects(k) :
                 Post(e) /\ ReportIf(e.reported \/ e.noWait, k, "SUCCESS")
           /\ EraseTrackingSession(k)
        \/ /\ apiQ' = Append(apiQ, StopDistance(k, Then("distanceStopped", k)))
           /\ UNCHANGED <<sessionVars, replyVars, speAtHighest>>
        \/ /\ ReportResponse(k, "ID_UNKNOWN")
           /\ UNCHANGED <<sessionVars, speAtHighest, apiQ>>
    BY <1>9 DEF StopTracking
  <2>3. ended' \subseteq Keys
    BY <1>9, <2>1 DEF StopTracking, TypeOK
  <2> HIDE DEF k
  <2>4. CASE /\ k \in DOMAIN timeBased
             /\ \E e \in StopEffects(k) :
                   Post(e) /\ ReportIf(e.reported \/ e.noWait, k, "SUCCESS")
             /\ EraseTrackingSession(k)
    <3>1. PICK e \in Effects : Post(e) /\ ReportIf(e.reported \/ e.noWait, k, "SUCCESS")
      BY <2>4, StopTypes
    <3>2. apiQ' \in Seq(ApiMsgs) /\ speAtHighest' \in BOOLEAN
      BY <3>1, PostType
    <3>3. owed' \in [Keys -> Int] /\ told' \in [Keys -> Errors \cup {"nothing"}]
      BY <2>1, <3>1, ReplyType DEF ReportIf, Errors
    <3>4. IsSessionMap(timeBased') /\ IsSessionMap(distanceBased')
      BY <2>4, EraseType
    <3> QED BY <1>1, <1>9, <2>3, <3>2, <3>3, <3>4, AdapterType DEF StopTracking, TypeOK
  <2>5. CASE /\ apiQ' = Append(apiQ, StopDistance(k, Then("distanceStopped", k)))
             /\ UNCHANGED <<sessionVars, replyVars, speAtHighest>>
    <3>1. StopDistance(k, Then("distanceStopped", k)) \in ApiMsgs
      BY <2>1, OptionTypes, CallbackTypes, RequestTypes DEF MaybeCallback
    <3>2. apiQ' \in Seq(ApiMsgs)
      BY <2>5, <3>1, AppendProperties DEF TypeOK
    <3> QED BY <1>1, <1>9, <2>3, <2>5, <3>2, AdapterType DEF StopTracking, TypeOK, sessionVars, replyVars
  <2>6. CASE /\ ReportResponse(k, "ID_UNKNOWN")
             /\ UNCHANGED <<sessionVars, speAtHighest, apiQ>>
    <3>1. owed' \in [Keys -> Int] /\ told' \in [Keys -> Errors \cup {"nothing"}]
      BY <2>1, <2>6, ReplyType DEF Errors
    <3> QED BY <1>1, <1>9, <2>3, <2>6, <3>1, AdapterType DEF StopTracking, TypeOK, sessionVars
  <2> QED BY <2>2, <2>4, <2>5, <2>6
<1> QED BY <1>3, <1>4, <1>5, <1>6, <1>7, <1>8, <1>9

\* The engine coming up and configuration changes.
LEMMA RestartStepType == TypeOK /\ (EngineUp \/ Reconfigure) => TypeOK'
<1> SUFFICES ASSUME TypeOK, EngineUp \/ Reconfigure PROVE TypeOK'
  OBVIOUS
<1>1. adapterQ # <<>> /\ Message \in AdapterMsgs /\ Tail(adapterQ) \in Seq(AdapterMsgs)
  BY HeadMessage DEF EngineUp, Reconfigure, Receive
<1>2. CASE EngineUp
  <2> DEFINE msgs == [i \in DOMAIN pendingMsgs |-> pendingMsgs[i].msg]
             sent == [i \in DOMAIN pendingMsgs |-> [pendingMsgs[i] EXCEPT !.sent = TRUE]]
  <2>1. PICK e \in RestartEffects(nHzNeeded) : Post(e)
    BY <1>2 DEF EngineUp
  <2>2. apiQ' \in Seq(ApiMsgs) /\ speAtHighest' \in BOOLEAN
    BY <2>1, RestartTypes, PostType DEF TypeOK
  <2>3. PICK n \in Nat : /\ DOMAIN pendingMsgs = 1 .. n
                         /\ \A i \in 1 .. n : pendingMsgs[i] \in [msg : Commands, sent : BOOLEAN]
    <3>1. pendingMsgs \in Seq([msg : Commands, sent : BOOLEAN])
      BY DEF TypeOK
    <3>2. /\ Len(pendingMsgs) \in Nat /\ DOMAIN pendingMsgs = 1 .. Len(pendingMsgs)
          /\ \A i \in 1 .. Len(pendingMsgs) : pendingMsgs[i] \in [msg : Commands, sent : BOOLEAN]
      BY <3>1, LenProperties, ElementOfSeq
    <3> QED BY <3>2
  <2>4. msgs \in Seq(AdapterMsgs)
    <3>1. \A i \in 1 .. n : msgs[i] \in AdapterMsgs
      BY <2>3 DEF AdapterMsgs
    <3>2. DOMAIN msgs = 1 .. n /\ msgs = [i \in 1 .. n |-> msgs[i]]
      BY <2>3
    <3> HIDE DEF msgs
    <3> QED BY <3>1, <3>2, MapToSeq
  <2>5. sent \in Seq([msg : Commands, sent : BOOLEAN])
    <3>1. \A i \in 1 .. n : sent[i] \in [msg : Commands, sent : BOOLEAN]
      BY <2>3
    <3>2. DOMAIN sent = 1 .. n /\ sent = [i \in 1 .. n |-> sent[i]]
      BY <2>3
    <3> HIDE DEF sent
    <3> QED BY <3>1, <3>2, MapToSeq
  <2>6. adapterQ' = Tail(adapterQ) \o msgs /\ pendingMsgs' = sent
    BY <1>2 DEF EngineUp
  <2> HIDE DEF msgs, sent
  <2>7. adapterQ' \in Seq(AdapterMsgs) /\ pendingMsgs' \in Seq([msg : Commands, sent : BOOLEAN])
    BY <1>1, <2>4, <2>5, <2>6, ConcatProperties
  <2>8. danglingUsed' \in BOOLEAN /\ capabilitiesKnown' \in BOOLEAN
    BY <1>2 DEF EngineUp
  <2> QED BY <1>2, <2>2, <2>7, <2>8 DEF EngineUp, clientVars, sessionVars, replyVars, TypeOK
<1>3. CASE Reconfigure
  <2>1. PICK e \in RestartEffects(nHzNeeded) :
            /\ apiQ' = apiQ \o (IF DOMAIN timeBased = {} THEN <<>> ELSE << StopFix(NoCallback) >>)
                            \o e.requests
            /\ speAtHighest' = e.spe
    BY <1>3 DEF Reconfigure
  <2>2. e \in Effects
    BY RestartTypes DEF TypeOK
  <2>3. << StopFix(NoCallback) >> \in Seq(ApiMsgs)
    <3>1. StopFix(NoCallback) \in ApiMsgs
      BY DEF StopFix, ApiMsgs, MaybeCallback
    <3> QED BY <3>1, OneRequest
  <2>4. apiQ' \in Seq(ApiMsgs) /\ speAtHighest' \in BOOLEAN
    BY <2>1, <2>2, <2>3, EmptySeq, ConcatProperties DEF Effects, TypeOK
  <2> QED BY <1>1, <1>3, <2>4, AdapterType DEF Reconfigure, sessionVars, replyVars, TypeOK
<1> QED BY <1>2, <1>3

\* What the responses have in common: the session of the callback is saved, erased or left alone.
LEMMA ResponseStepType ==
    TypeOK /\ (FixStarted \/ FixUpdated \/ FixStopped \/ DistanceStarted \/ DistanceStopped
               \/ ClientDistanceStopped \/ SwitchToTime \/ RestartDistance \/ DistanceRestarted)
      => TypeOK'
<1> SUFFICES ASSUME TypeOK,
                    FixStarted \/ FixUpdated \/ FixStopped \/ DistanceStarted \/ DistanceStopped
                      \/ ClientDistanceStopped \/ SwitchToTime \/ RestartDistance
                      \/ DistanceRestarted
             PROVE  TypeOK'
  OBVIOUS
<1> DEFINE k == Message.cb.key
           o == Message.cb.options
<1>1. adapterQ # <<>> /\ Message \in AdapterMsgs /\ Message.type = "response"
  <2>1. adapterQ # <<>> /\ Message.type = "response"
    BY DEF FixStarted, FixUpdated, FixStopped, DistanceStarted, DistanceStopped,
           ClientDistanceStopped, SwitchToTime, RestartDistance, DistanceRestarted,
           Response, Receive
  <2> QED BY <2>1, HeadMessage
<1>2. Message.cb \in Callbacks /\ Message.err \in Errors /\ k \in Keys
  BY <1>1, MessageFields, CallbackFields
<1>3. IsSessionMap(timeBased) /\ IsSessionMap(distanceBased)
  BY DEF TypeOK
<1>4. ASSUME FixStarted \/ FixStopped \/ DistanceStarted \/ DistanceStopped \/ ClientDistanceStopped
      PROVE  TypeOK'
  <2>1. /\ EraseTrackingSession(k) \/ UNCHANGED sessionVars
        /\ ReportResponse(k, Message.err) \/ UNCHANGED replyVars
        /\ ended' \in {ended, ended \cup {k}}
        /\ UNCHANGED <<setupVars, speAtHighest, apiQ>>
        /\ Done
    BY <1>4 DEF FixStarted, FixStopped, DistanceStarted, DistanceStopped, ClientDistanceStopped
  <2> HIDE DEF k
  <2>2. IsSessionMap(timeBased') /\ IsSessionMap(distanceBased')
    BY <1>3, <2>1, EraseType DEF sessionVars
  <2>3. owed' \in [Keys -> Int] /\ told' \in [Keys -> Errors \cup {"nothing"}]
    BY <1>2, <2>1, ReplyType
  <2>4. ended' \subseteq Keys
    BY <1>2, <2>1 DEF TypeOK
  <2> QED BY <1>1, <2>1, <2>2, <2>3, <2>4, AdapterType DEF setupVars, TypeOK
<1>5. ASSUME FixUpdated \/ DistanceRestarted PROVE TypeOK'
  <2>1. o \in SessionOptions
    BY <1>2, <1>5, CallbackFields DEF FixUpdated, DistanceRestarted, Response
  <2>2. /\ SaveTrackingSession(timeBased, k, o) \/ UNCHANGED sessionVars
        /\ ReportResponse(k, Message.err)
        /\ UNCHANGED <<setupVars, speAtHighest, apiQ, ended>>
        /\ Done
    BY <1>5 DEF FixUpdated, DistanceRestarted
  <2> HIDE DEF k, o
  <2>3. IsSessionMap(timeBased') /\ IsSessionMap(distanceBased')
    BY <1>2, <1>3, <2>1, <2>2, SaveType DEF sessionVars
  <2>4. owed' \in [Keys -> Int] /\ told' \in [Keys -> Errors \cup {"nothing"}]
    BY <1>2, <2>2, ReplyType
  <2> QED BY <1>1, <2>2, <2>3, <2>4, AdapterType DEF setupVars, TypeOK
<1>6. ASSUME SwitchToTime PROVE TypeOK'
  <2>1. o \in SessionOptions
    BY <1>2, <1>6, CallbackFields DEF SwitchToTime, Response
  <2>2. PICK e \in StartEffects(k, o) : Post(e) /\ ReportIf(e.reported \/ e.noWait, k, "SUCCESS")
    BY <1>6 DEF SwitchToTime
  <2>3. /\ SaveTrackingSession(timeBased, k, o)
        /\ UNCHANGED <<setupVars, ended>>
        /\ Done
    BY <1>6 DEF SwitchToTime
  <2> HIDE DEF k, o
  <2>4. apiQ' \in Seq(ApiMsgs) /\ speAtHighest' \in BOOLEAN
    BY <1>2, <2>1, <2>2, StartTypes, PostType
  <2>5. IsSessionMap(timeBased') /\ IsSessionMap(distanceBased')
    BY <1>2, <1>3, <2>1, <2>3, SaveType
  <2>6. owed' \in [Keys -> Int] /\ told' \in [Keys -> Errors \cup {"nothing"}]
    BY <1>2, <2>2, ReplyType DEF ReportIf, Errors
  <2> QED BY <1>1, <2>3, <2>4, <2>5, <2>6, AdapterType DEF setupVars, TypeOK
<1>7. ASSUME RestartDistance PROVE TypeOK'
  <2>1. o \in SessionOptions /\ o.distance > 0
    BY <1>2, <1>7, CallbackFields DEF RestartDistance, Response
  <2>2. /\ \/ apiQ' = apiQ
           \/ apiQ' = Append(apiQ, StartDistance(k, o, ThenWith("distanceRestarted", k, o)))
        /\ UNCHANGED <<setupVars, sessionVars, replyVars, speAtHighest, ended>>
        /\ Done
    BY <1>7 DEF RestartDistance
  <2> HIDE DEF k, o
  <2>3. StartDistance(k, o, ThenWith("distanceRestarted", k, o)) \in ApiMsgs
    BY <1>2, <2>1, CallbackTypes, RequestTypes DEF MaybeCallback, SessionOptions
  <2>4. apiQ' \in Seq(ApiMsgs)
    <3>1. apiQ \in Seq(ApiMsgs)
      BY DEF TypeOK
    <3> QED BY <2>2, <2>3, <3>1, AppendProperties
  <2> QED BY <1>1, <2>2, <2>4, AdapterType DEF setupVars, sessionVars, replyVars, TypeOK
<1> QED BY <1>4, <1>5, <1>6, <1>7

\* The initial state has its type.
LEMMA InitType == Init => TypeOK
<1> SUFFICES ASSUME Init PROVE TypeOK
  OBVIOUS
<1>1. /\ owner = <<>> /\ pendingMsgs = <<>> /\ adapterQ = <<>>
      /\ clientData = <<>> /\ timeBased = <<>> /\ distanceBased = <<>>
  BY DEF Init
<1>2. apiQ \in Seq(ApiMsgs)
  <2>1. [op |-> "open"] \in ApiMsgs
    BY DEF ApiMsgs
  <2> QED BY <2>1, OneRequest DEF Init
<1>3. IsSessionMap(<<>>)
  BY DEF IsSessionMap
<1>4. engine \in [up : BOOLEAN, running : BOOLEAN, fix : Options, distance : SUBSET Ids]
  BY OptionTypes DEF Init, Stopped
<1>5. /\ owner \in Seq(Clients) /\ Len(owner) = 0 /\ pendingMsgs \in Seq([msg : Commands, sent : BOOLEAN])
      /\ adapterQ \in Seq(AdapterMsgs) /\ DOMAIN clientData = {}
  BY <1>1, EmptySeq
<1>6. /\ owed \in [Keys -> Int] /\ told \in [Keys -> Errors \cup {"nothing"}]
      /\ lifecycle \in [Clients -> {"unborn", "alive", "destroyed"}]
      /\ calls \in 0 .. MaxCalls /\ crashes \in 0 .. MaxCrashes /\ MaxId >= 0
  BY GnssAssumption DEF GnssAssumption, Init
<1>7. /\ capabilitiesKnown = FALSE /\ nHzNeeded = FALSE /\ speAtHighest = FALSE
      /\ danglingUsed = FALSE /\ ended = {}
  BY DEF Init
<1>8. hub \in [at : {"idle", "restarting", "posting"}, requests : Seq(ApiMsgs),
               changes : 0 .. MaxNHz]
  BY EmptySeq, GnssAssumption DEF GnssAssumption, Init
<1> QED BY <1>1, <1>2, <1>3, <1>4, <1>5, <1>6, <1>7, <1>8 DEF TypeOK

\* The hub's thread.
LEMMA HubType == TypeOK /\ Hub => TypeOK'
<1> SUFFICES ASSUME TypeOK, Hub PROVE TypeOK'
  OBVIOUS
<1> DEFINE HubTypes == [at : {"idle", "restarting", "posting"}, requests : Seq(ApiMsgs),
                        changes : 0 .. MaxNHz]
<1>1. hub \in HubTypes /\ MaxNHz \in Nat /\ apiQ \in Seq(ApiMsgs) /\ nHzNeeded \in BOOLEAN
  BY GnssAssumption DEF GnssAssumption, TypeOK
<1>2. CASE NHzRequirement
  <2>1. /\ hub.changes + 1 \in 0 .. MaxNHz
        /\ hub' = [hub EXCEPT !.at = "restarting", !.changes = hub.changes + 1]
    BY <1>1, <1>2 DEF NHzRequirement
  <2>2. hub' \in HubTypes
    BY <1>1, <2>1
  <2>3. nHzNeeded' \in BOOLEAN
    BY <1>2 DEF NHzRequirement
  <2> QED BY <1>2, <2>2, <2>3 DEF NHzRequirement, TypeOK, sessionVars, replyVars
<1>3. CASE HubReads
  <2>1. PICK e \in RestartEffects(nHzNeeded) :
            /\ hub' = [hub EXCEPT !.at = "posting", !.requests = e.requests]
            /\ speAtHighest' = e.spe
    BY <1>3 DEF HubReads
  <2>2. e.requests \in Seq(ApiMsgs) /\ e.spe \in BOOLEAN
    BY <1>1, RestartTypes DEF Effects
  <2>3. hub' \in HubTypes /\ speAtHighest' \in BOOLEAN
    BY <1>1, <2>1, <2>2
  <2> QED BY <1>3, <2>3 DEF HubReads, TypeOK, setupVars, sessionVars, replyVars
<1>4. CASE HubPosts
  <2>1. hub' = [hub EXCEPT !.at = "idle", !.requests = <<>>] /\ apiQ' = apiQ \o hub.requests
    BY <1>4 DEF HubPosts
  <2>2. hub' \in HubTypes /\ apiQ' \in Seq(ApiMsgs)
    BY <1>1, <2>1, EmptySeq, ConcatProperties
  <2> QED BY <1>4, <2>2 DEF HubPosts, TypeOK, adapterVars
<1> QED BY <1>2, <1>3, <1>4 DEF Hub

LEMMA HistoryKept ==
    Client \/ Hub \/ ApiThread \/ EngineDown \/ UNCHANGED vars => UNCHANGED historyVars
BY DEF Client, CreateInstance, UpdateCallbacks, Destroy, StartTrackingCommand,
       UpdateTrackingOptionsCommand, StopTrackingCommand, ReconfigureCommand, Call, Command,
       Hub, NHzRequirement, HubReads, HubPosts, ApiThread, Open, EngineRequest, Served,
       EngineDown, historyVars, vars

\* Every variable keeps its type: no queue ever holds a malformed message, no map an
\* unknown session, and the options of a session never ask for less than the engine's
\* fastest interval.
THEOREM TypeCorrect == Spec => [](TypeOK /\ HistoryOK)
<1>1. TypeOK /\ [Next]_vars => TypeOK'
  <2> SUFFICES ASSUME TypeOK, [Next]_vars PROVE TypeOK'
    OBVIOUS
  <2>1. CASE Client
    BY <2>1, ClientType
  <2>2. CASE AdapterThread
    BY <2>2, CommandStepType, RestartStepType, ResponseStepType DEF AdapterThread, Handler
  <2>3. CASE Hub
    BY <2>3, HubType
  <2>4. CASE ApiThread \/ EngineDown
    BY <2>4, ApiThreadType
  <2>5. CASE UNCHANGED vars
    BY <2>5 DEF vars, TypeOK
  <2> QED BY <2>1, <2>2, <2>3, <2>4, <2>5 DEF Next
<1>2. TypeOK' /\ HistoryOK /\ [Next]_vars => HistoryOK'
  <2> SUFFICES ASSUME TypeOK', HistoryOK, [Next]_vars PROVE HistoryOK'
    OBVIOUS
  <2>1. CASE AdapterThread
    <3>1. crossed' \subseteq Keys
      BY <2>1 DEF AdapterThread, TypeOK, HistoryOK
    <3>2. raced' \in BOOLEAN
      BY <2>1 DEF AdapterThread, HistoryOK
    <3> QED BY <3>1, <3>2 DEF HistoryOK
  <2>2. CASE UNCHANGED historyVars
    BY <2>2 DEF historyVars, HistoryOK
  <2>3. CASE Client \/ Hub \/ ApiThread \/ EngineDown \/ UNCHANGED vars
    BY <2>2, <2>3, HistoryKept
  <2> QED BY <2>1, <2>3 DEF Next
<1>3. Init => HistoryOK
  BY DEF Init, HistoryOK
<1> QED BY <1>1, <1>2, <1>3, InitType, PTL DEF Spec

-----------------------------------------------------------------------------
(* What a step of the adapter thread posts, and what it may bring back *)

LEMMA RequestFixShape ==
    ASSUME NEW o, NEW cb, NEW spe, NEW nHz, NEW e, e = RequestFix(o, cb, spe, nHz)
    PROVE  e.requests = <<>> \/ \E p : e.requests = <<StartFix(p, cb)>>
BY DEF RequestFix, Effect

\* A restart requests the fix session, if there are time-based sessions, and then every
\* distance-based session.
LEMMA RestartShape ==
    ASSUME TypeOK, NEW nHz \in BOOLEAN, NEW e \in RestartEffects(nHz)
    PROVE  \E q \in Seq(ApiMsgs), s \in InOrder(DOMAIN distanceBased) :
               /\ e.requests = q \o DistanceRequests(s)
               /\ q = <<>> \/ \E p : q = <<StartFix(p, NoCallback)>>
               /\ DOMAIN timeBased = {} => q = <<>>
<1>1. IsSessionMap(timeBased)
  BY DEF TypeOK
<1>2. PICK s \in InOrder(DOMAIN distanceBased) :
          \/ e = Followed(NothingToFix, DistanceRequests(s))
          \/ \E o \in RestartOptions(timeBased) :
                e = Followed(RestartFix(o, nHz), DistanceRequests(s))
  BY RestartCases
<1>3. CASE e = Followed(NothingToFix, DistanceRequests(s))
  <2>1. e.requests = <<>> \o DistanceRequests(s)
    BY <1>3 DEF Followed, NothingToFix, Effect
  <2>2. <<>> \in Seq(ApiMsgs)
    OBVIOUS
  <2> QED BY <2>1, <2>2
<1>4. ASSUME NEW o \in RestartOptions(timeBased),
             e = Followed(RestartFix(o, nHz), DistanceRequests(s))
      PROVE  \E q \in Seq(ApiMsgs) : /\ e.requests = q \o DistanceRequests(s)
                                     /\ q = <<>> \/ \E p : q = <<StartFix(p, NoCallback)>>
                                     /\ DOMAIN timeBased # {}
  <2>1. PICK fix : fix = RestartFix(o, nHz)
    OBVIOUS
  <2>2. fix \in Effects
    BY <1>1, <2>1, RestartOptionTypes, RequestFixEffect DEF RestartFix, MaybeCallback
  <2>3. fix.requests = <<>> \/ \E p : fix.requests = <<StartFix(p, NoCallback)>>
    BY <2>1 DEF RestartFix, RequestFix, Effect
  <2>4. e.requests = fix.requests \o DistanceRequests(s) /\ fix.requests \in Seq(ApiMsgs)
    BY <1>4, <2>1, <2>2 DEF Followed, Effects
  <2>5. DOMAIN timeBased # {}
    BY DEF RestartOptions, HighestPower
  <2> QED BY <2>3, <2>4, <2>5
<1> QED BY <1>2, <1>3, <1>4

InMaps(k) == k \in DOMAIN timeBased \cup DOMAIN distanceBased

\* Only updateTracking makes a session that is in a map come back later, and only
\* stopTracking waits for a session to stop.
Restorable(k) == (InMaps(k) /\ Message.type = "updateTracking") \/ Brings(Message, k)
Harmless(cb) ==
    cb # NoCallback =>
        /\ \A k : Restores(cb, k) => Restorable(k)
        /\ cb.then = "distanceStopped" => Message.type = "stopTracking" /\ Message.key = cb.key
Innocent(r) == \A i \in DOMAIN r : Harmless(r[i].cb)

LEMMA FixHarmless ==
    ASSUME NEW cb, cb = NoCallback \/ cb.then \in {"fixStarted", "fixStopped", "distanceStarted",
                                                   "clientDistanceStopped"}
    PROVE  Harmless(cb)
BY DEF Harmless, Restores

LEMMA RestoringHarmless ==
    ASSUME NEW cb, cb.then \in {"fixUpdated", "switchToTime", "restartDistance", "distanceRestarted"},
           Restorable(cb.key)
    PROVE  Harmless(cb)
BY DEF Harmless, Restores

LEMMA InnocentNone == Innocent(<<>>)
BY DEF Innocent

LEMMA InnocentOne ==
    ASSUME NEW r, Harmless(r.cb)
    PROVE  Innocent(<<r>>)
BY DEF Innocent

LEMMA InnocentBoth ==
    ASSUME NEW q \in Seq(ApiMsgs), NEW r \in Seq(ApiMsgs), Innocent(q), Innocent(r)
    PROVE  Innocent(q \o r)
BY LenProperties, ConcatProperties DEF Innocent

LEMMA InnocentFix ==
    ASSUME NEW o, NEW cb, Harmless(cb), NEW spe, NEW nHz, NEW e, e = RequestFix(o, cb, spe, nHz)
    PROVE  Innocent(e.requests)
<1>1. ASSUME NEW p, e.requests = <<StartFix(p, cb)>> PROVE Innocent(e.requests)
  <2>1. StartFix(p, cb).cb = cb
    BY DEF StartFix
  <2> QED BY <1>1, <2>1, InnocentOne
<1> QED BY <1>1, RequestFixShape, InnocentNone

LEMMA InnocentNoRequest == Innocent(NoRequest.requests)
BY InnocentNone DEF NoRequest, Effect

LEMMA InnocentJoin ==
    ASSUME NEW o, NEW f, NEW cb, Harmless(cb), NEW e \in JoinEffects(o, f, cb)
    PROVE  Innocent(e.requests)
<1>1. PICK base, power :
          \/ e = RequestFix(Multiplexed(o, base, power), cb, speAtHighest, nHzNeeded)
          \/ e = NoRequest
  BY DEF JoinEffects
<1> QED BY <1>1, InnocentFix, InnocentNoRequest

LEMMA InnocentStart ==
    ASSUME NEW k, NEW o, NEW e \in StartEffects(k, o)
    PROVE  Innocent(e.requests)
<1>1. PICK cb : cb = Then("fixStarted", k)
  OBVIOUS
<1>2. Harmless(cb)
  BY <1>1, FixHarmless DEF Then
<1>3. \/ e = RequestFix(o, cb, speAtHighest, nHzNeeded)
      \/ e \in JoinEffects(o, timeBased, cb)
  BY <1>1 DEF StartEffects
<1> QED BY <1>2, <1>3, InnocentFix, InnocentJoin

LEMMA InnocentUpdate ==
    ASSUME NEW k \in DOMAIN timeBased, NEW o, NEW e \in UpdateEffects(k, o),
           Message.type = "updateTracking"
    PROVE  Innocent(e.requests)
<1>1. PICK cb : cb = ThenWith("fixUpdated", k, timeBased[k])
  OBVIOUS
<1>2. Harmless(cb)
  BY <1>1, RestoringHarmless DEF ThenWith, InMaps, Restorable
<1>3. \/ e = NoRequest
      \/ e = RequestFix(o, cb, speAtHighest, nHzNeeded)
      \/ e \in JoinEffects(o, Without(timeBased, k), cb)
  BY <1>1 DEF UpdateEffects
<1> QED BY <1>2, <1>3, InnocentNoRequest, InnocentFix, InnocentJoin

LEMMA InnocentStop ==
    ASSUME NEW k, NEW e \in StopEffects(k)
    PROVE  Innocent(e.requests)
<1>1. CASE e = StopRequest(k)
  <2>1. PICK m : m = StopFix(Then("fixStopped", k))
    OBVIOUS
  <2>2. e.requests = <<m>> /\ m.cb.then = "fixStopped"
    BY <1>1, <2>1 DEF StopRequest, Effect, StopFix, Then
  <2> QED BY <2>2, FixHarmless, InnocentOne
<1>2. CASE e = NoRequest
  BY <1>2, InnocentNoRequest
<1>3. ASSUME NEW o, e = RequestFix(o, Then("fixStarted", k), speAtHighest, nHzNeeded)
      PROVE  Innocent(e.requests)
  <2>1. PICK cb : cb = Then("fixStarted", k)
    OBVIOUS
  <2>2. Harmless(cb)
    BY <2>1, FixHarmless DEF Then
  <2> QED BY <1>3, <2>1, <2>2, InnocentFix
<1>4. \/ e = StopRequest(k)
      \/ e = NoRequest
      \/ \E o : e = RequestFix(o, Then("fixStarted", k), speAtHighest, nHzNeeded)
  BY StopCases
<1> QED BY <1>1, <1>2, <1>3, <1>4

\* The requests of a restart answer nobody.
LEMMA RestartUnmarked ==
    ASSUME TypeOK, NEW nHz \in BOOLEAN, NEW e \in RestartEffects(nHz)
    PROVE  \A i \in DOMAIN e.requests : e.requests[i].cb = NoCallback
<1>1. PICK q \in Seq(ApiMsgs), s \in InOrder(DOMAIN distanceBased) :
          /\ e.requests = q \o DistanceRequests(s)
          /\ q = <<>> \/ \E p : q = <<StartFix(p, NoCallback)>>
  BY RestartShape
<1>2. PICK d \in Seq(ApiMsgs) : d = DistanceRequests(s)
  BY DistanceTypes DEF TypeOK
<1>3. \A i \in DOMAIN d : d[i].cb = NoCallback
  BY <1>2 DEF DistanceRequests, StartDistance
<1>4. \A i \in DOMAIN q : q[i].cb = NoCallback
  BY <1>1 DEF StartFix
<1> QED BY <1>1, <1>2, <1>3, <1>4, LenProperties, ConcatProperties

LEMMA InnocentRestart ==
    ASSUME TypeOK, NEW nHz \in BOOLEAN, NEW e \in RestartEffects(nHz)
    PROVE  Innocent(e.requests)
BY RestartUnmarked, FixHarmless DEF Innocent

LEMMA RequestsAssociate ==
    ASSUME NEW q \in Seq(ApiMsgs), NEW r \in Seq(ApiMsgs), NEW d \in Seq(ApiMsgs)
    PROVE  (q \o r) \o d = q \o (r \o d)
BY ConcatAssociative

\* The messages that end a session.
Ends(m, k) == \/ m.type = "stopTracking" /\ m.key = k
              \/ m.type = "response" /\ m.cb.then = "distanceStopped" /\ m.cb.key = k
InBoth(k) == k \in DOMAIN timeBased \cap DOMAIN distanceBased

\* A step of the adapter thread that posts r to the API thread and p to its own queue.
Moves(r, p) ==
    /\ ~danglingUsed /\ adapterQ # <<>>
    /\ apiQ' = apiQ \o r /\ Innocent(r)
    /\ UNCHANGED <<engine, hub, owner>>
    /\ adapterQ' = adapterQ \/ adapterQ' = Tail(adapterQ) \o p
    /\ \A i \in DOMAIN p :
           /\ p[i] \in Commands
           /\ danglingUsed' \/ \E j \in DOMAIN pendingMsgs : /\ pendingMsgs[j].msg = p[i]
                                                            /\ ~pendingMsgs[j].sent
    /\ \A i \in DOMAIN pendingMsgs' : ~pendingMsgs'[i].sent =>
           \/ pendingMsgs'[i].msg = Message
           \/ i \in DOMAIN pendingMsgs /\ pendingMsgs[i] = pendingMsgs'[i]
    /\ \A k : InMaps(k)' => InMaps(k) \/ Brings(Message, k)
    /\ \A k \in ended' : k \in ended \/ (Ends(Message, k) /\ (~InMaps(k)' \/ InBoth(k)))

LEMMA MapSteps ==
    ASSUME NEW k, NEW o, NEW tb, DOMAIN tb \subseteq DOMAIN timeBased
    PROVE  /\ UNCHANGED sessionVars => \A j : InMaps(j)' => InMaps(j)
           /\ EraseTrackingSession(k) =>
                  /\ \A j : InMaps(j)' => InMaps(j)
                  /\ ~InMaps(k)' \/ InBoth(k)
           /\ SaveTrackingSession(tb, k, o) => \A j : InMaps(j)' => InMaps(j) \/ j = k
BY DEF sessionVars, InMaps, InBoth, EraseTrackingSession, SaveTrackingSession, With, Without

\* What is common to the messages that are handled and done with.
LEMMA DoneMoves ==
    ASSUME TypeOK, ~danglingUsed, adapterQ # <<>>, Done,
           NEW r \in Seq(ApiMsgs), apiQ' = apiQ \o r, Innocent(r), pendingMsgs' = pendingMsgs,
           \A k : InMaps(k)' => InMaps(k) \/ Brings(Message, k),
           \A k \in ended' : k \in ended \/ (Ends(Message, k) /\ (~InMaps(k)' \/ InBoth(k)))
    PROVE  Moves(r, <<>>)
<1>1. Tail(adapterQ) \in Seq(AdapterMsgs)
  BY HeadMessage
<1>2. adapterQ' = Tail(adapterQ) \o <<>>
  BY <1>1, ConcatEmptySeq DEF Done
<1>3. UNCHANGED <<engine, hub, owner>>
  BY DEF Done, clientVars
<1>4. \A i \in DOMAIN <<>> : FALSE
  OBVIOUS
<1> HIDE DEF InMaps, InBoth
<1> QED BY <1>2, <1>3, <1>4 DEF Moves

\* Those that post nothing, and those that post one request.
LEMMA QuietMoves ==
    ASSUME TypeOK, ~danglingUsed, adapterQ # <<>>, Done, apiQ' = apiQ, pendingMsgs' = pendingMsgs,
           \A k : InMaps(k)' => InMaps(k) \/ Brings(Message, k),
           \A k \in ended' : k \in ended \/ (Ends(Message, k) /\ (~InMaps(k)' \/ InBoth(k)))
    PROVE  \E r \in Seq(ApiMsgs), p \in Seq(AdapterMsgs) : Moves(r, p)
<1>1. <<>> \in Seq(ApiMsgs) /\ <<>> \in Seq(AdapterMsgs) /\ apiQ' = apiQ \o <<>>
  BY EmptySeq, ConcatEmptySeq DEF TypeOK
<1> QED BY <1>1, DoneMoves, InnocentNone

LEMMA RequestMoves ==
    ASSUME TypeOK, ~danglingUsed, adapterQ # <<>>, Done, NEW m \in ApiMsgs, Harmless(m.cb),
           apiQ' = Append(apiQ, m), pendingMsgs' = pendingMsgs,
           \A k : InMaps(k)' => InMaps(k) \/ Brings(Message, k),
           \A k \in ended' : k \in ended \/ (Ends(Message, k) /\ (~InMaps(k)' \/ InBoth(k)))
    PROVE  \E r \in Seq(ApiMsgs), p \in Seq(AdapterMsgs) : Moves(r, p)
<1>1. <<m>> \in Seq(ApiMsgs) /\ <<>> \in Seq(AdapterMsgs) /\ apiQ' = apiQ \o <<m>>
  BY OneRequest, EmptySeq, AppendIsConcat DEF TypeOK
<1>2. Innocent(<<m>>)
  BY InnocentOne
<1> QED BY <1>1, <1>2, DoneMoves

LEMMA EffectMoves ==
    ASSUME TypeOK, ~danglingUsed, adapterQ # <<>>, Done, NEW e \in Effects, Innocent(e.requests),
           apiQ' = apiQ \o e.requests, pendingMsgs' = pendingMsgs,
           \A k : InMaps(k)' => InMaps(k) \/ Brings(Message, k),
           \A k \in ended' : k \in ended \/ (Ends(Message, k) /\ (~InMaps(k)' \/ InBoth(k)))
    PROVE  \E r \in Seq(ApiMsgs), p \in Seq(AdapterMsgs) : Moves(r, p)
<1>1. e.requests \in Seq(ApiMsgs) /\ <<>> \in Seq(AdapterMsgs)
  BY EmptySeq DEF Effects
<1> QED BY <1>1, DoneMoves

LEMMA ClientMessageMoves ==
    ASSUME TypeOK, AddClient \/ RemoveClientStopsOne \/ RemoveClient \/ Defer
    PROVE  \E r \in Seq(ApiMsgs), p \in Seq(AdapterMsgs) : Moves(r, p)
<1>1. ~danglingUsed /\ adapterQ # <<>> /\ apiQ \in Seq(ApiMsgs)
  BY DEF AddClient, RemoveClientStopsOne, RemoveClient, Defer, Receive, TypeOK
<1>2. CASE AddClient
  <2>1. Done /\ apiQ' = apiQ /\ pendingMsgs' = pendingMsgs /\ UNCHANGED sessionVars /\ ended' = ended
    BY <1>2 DEF AddClient
  <2> QED BY <1>1, <2>1, QuietMoves DEF sessionVars, InMaps
<1>3. CASE RemoveClientStopsOne
  <2>1. PICK k \in DOMAIN timeBased : \E e \in StopEffects(k) : Post(e) /\ EraseTrackingSession(k)
    BY <1>3 DEF RemoveClientStopsOne
  <2>2. PICK e \in StopEffects(k) : Post(e) /\ EraseTrackingSession(k)
    BY <2>1
  <2>3. e.requests \in Seq(ApiMsgs) /\ Innocent(e.requests)
    BY StopTypes, InnocentStop DEF Effects
  <2>4. <<>> \in Seq(AdapterMsgs) /\ \A i \in DOMAIN <<>> : FALSE
    BY EmptySeq
  <2>5. \A j : InMaps(j)' => InMaps(j)
    BY <2>2, MapSteps
  <2>6. /\ adapterQ' = adapterQ /\ pendingMsgs' = pendingMsgs /\ ended' = ended
        /\ UNCHANGED <<engine, hub, owner>>
    BY <1>3 DEF RemoveClientStopsOne, setupVars, clientVars
  <2>7. Moves(e.requests, <<>>)
    BY <1>1, <2>2, <2>3, <2>4, <2>5, <2>6 DEF Moves, Post
  <2> QED BY <2>3, <2>4, <2>7
<1>4. CASE RemoveClient
  <2> DEFINE mine == {k \in DOMAIN distanceBased : k[1] = Message.client}
             stop(k) == StopDistance(k, Then("clientDistanceStopped", k))
  <2>1. PICK s \in InOrder(mine) : apiQ' = apiQ \o [i \in DOMAIN s |-> stop(s[i])]
    BY <1>4 DEF RemoveClient
  <2>2. PICK d : d = [i \in DOMAIN s |-> stop(s[i])]
    OBVIOUS
  <2>3. PICK n \in Nat : DOMAIN s = 1 .. n /\ \A i \in DOMAIN s : s[i] \in Keys
    <3>1. IsSessionMap(distanceBased)
      BY DEF TypeOK
    <3> QED BY <3>1, InOrderTypes DEF IsSessionMap
  <2>4. d \in Seq(ApiMsgs)
    <3>1. ASSUME NEW i \in 1 .. n PROVE d[i] \in ApiMsgs
      <4>1. Then("clientDistanceStopped", s[i]) \in MaybeCallback /\ s[i] \in Keys
        BY <2>3, CallbackTypes DEF MaybeCallback
      <4>2. stop(s[i]) \in ApiMsgs
        BY <4>1 DEF StopDistance, ApiMsgs, Keys
      <4> QED BY <2>2, <2>3, <4>2
    <3>2. d = [i \in 1 .. n |-> d[i]]
      BY <2>2, <2>3
    <3> QED BY <3>1, <3>2, MapToSeq
  <2>5. Innocent(d)
    <3>1. ASSUME NEW i \in DOMAIN d PROVE d[i].cb.then = "clientDistanceStopped"
      BY <2>2 DEF StopDistance, Then
    <3> QED BY <3>1, FixHarmless DEF Innocent
  <2>6. /\ Done /\ apiQ' = apiQ \o d /\ pendingMsgs' = pendingMsgs
        /\ UNCHANGED sessionVars /\ ended' = ended
    BY <1>4, <2>1, <2>2 DEF RemoveClient
  <2>7. Moves(d, <<>>)
    BY <1>1, <2>4, <2>5, <2>6, DoneMoves DEF sessionVars, InMaps
  <2> QED BY <2>4, <2>7, EmptySeq
<1>5. CASE Defer
  <2>1. /\ Done /\ apiQ' = apiQ /\ UNCHANGED sessionVars /\ ended' = ended
        /\ pendingMsgs' = Append(pendingMsgs, [msg |-> Message, sent |-> FALSE])
    BY <1>5 DEF Defer
  <2>2. <<>> \in Seq(ApiMsgs) /\ <<>> \in Seq(AdapterMsgs) /\ apiQ' = apiQ \o <<>>
    BY <1>1, <2>1, EmptySeq, ConcatEmptySeq
  <2>3. adapterQ' = Tail(adapterQ) \o <<>> /\ UNCHANGED <<engine, hub, owner>>
    BY <1>1, <2>1, HeadMessage, ConcatEmptySeq DEF Done, clientVars
  <2>4. \A i \in DOMAIN pendingMsgs' :
            \/ pendingMsgs'[i].msg = Message
            \/ i \in DOMAIN pendingMsgs /\ pendingMsgs[i] = pendingMsgs'[i]
    <3>1. pendingMsgs \in Seq([msg : Commands, sent : BOOLEAN])
      BY DEF TypeOK
    <3>2. /\ Len(pendingMsgs) \in Nat /\ DOMAIN pendingMsgs = 1 .. Len(pendingMsgs)
          /\ DOMAIN pendingMsgs' = 1 .. Len(pendingMsgs) + 1
          /\ \A i \in 1 .. Len(pendingMsgs) : pendingMsgs'[i] = pendingMsgs[i]
          /\ pendingMsgs'[Len(pendingMsgs) + 1] = [msg |-> Message, sent |-> FALSE]
      BY <2>1, <3>1
    <3> QED BY <3>2
  <2>5. \A i \in DOMAIN <<>> : FALSE
    OBVIOUS
  <2>6. \A k : InMaps(k)' => InMaps(k)
    BY <2>1 DEF sessionVars, InMaps
  <2>7. Moves(<<>>, <<>>)
    BY <1>1, <2>1, <2>2, <2>3, <2>4, <2>5, <2>6, InnocentNone DEF Moves
  <2> QED BY <2>2, <2>7
<1> QED BY <1>2, <1>3, <1>4, <1>5

LEMMA CommandMoves ==
    ASSUME TypeOK, StartTracking \/ StopTracking
    PROVE  \E r \in Seq(ApiMsgs), p \in Seq(AdapterMsgs) : Moves(r, p)
<1> DEFINE k == Message.key
<1>1. ~danglingUsed /\ adapterQ # <<>> /\ apiQ \in Seq(ApiMsgs) /\ Done /\ pendingMsgs' = pendingMsgs
  BY DEF StartTracking, StopTracking, Receive, TypeOK
<1>2. k \in Keys
  BY <1>1, HeadMessage, MessageFields DEF StartTracking, StopTracking, Receive
<1>3. CASE StartTracking
  <2> DEFINE o == WithFastestInterval(Message.options)
             p == WithPowerFallback(o)
  <2>1. o \in SessionOptions /\ p \in SessionOptions
    BY <1>1, <1>3, HeadMessage, MessageFields, OptionTypes DEF StartTracking, Receive, SessionOptions
  <2>2. /\ Brings(Message, k) /\ ended' = ended
        /\ \/ UNCHANGED <<sessionVars, apiQ>>
           \/ /\ SaveTrackingSession(timeBased, k, o)
              /\ apiQ' = Append(apiQ, StartDistance(k, o, Then("distanceStarted", k)))
           \/ /\ \E e \in StartEffects(k, p) : Post(e)
              /\ SaveTrackingSession(timeBased, k, p)
    BY <1>3 DEF StartTracking, Receive, Brings, Starts
  <2> HIDE DEF k, o, p
  <2>3. CASE UNCHANGED <<sessionVars, apiQ>>
    BY <1>1, <2>2, <2>3, QuietMoves DEF sessionVars, InMaps
  <2>4. CASE /\ SaveTrackingSession(timeBased, k, o)
             /\ apiQ' = Append(apiQ, StartDistance(k, o, Then("distanceStarted", k)))
    <3>1. PICK m : m = StartDistance(k, o, Then("distanceStarted", k))
      OBVIOUS
    <3>2. m \in ApiMsgs
      BY <1>2, <2>1, <3>1, CallbackTypes, RequestTypes DEF MaybeCallback, SessionOptions
    <3>3. Harmless(m.cb)
      BY <3>1, FixHarmless DEF StartDistance, Then
    <3>4. \A j : InMaps(j)' => InMaps(j) \/ j = k
      BY <2>4, MapSteps
    <3> QED BY <1>1, <2>2, <2>4, <3>1, <3>2, <3>3, <3>4, RequestMoves
  <2>5. ASSUME NEW e \in StartEffects(k, p), Post(e), SaveTrackingSession(timeBased, k, p)
        PROVE  \E r \in Seq(ApiMsgs), q \in Seq(AdapterMsgs) : Moves(r, q)
    <3>1. e \in Effects /\ Innocent(e.requests)
      BY <1>2, <2>1, StartTypes, InnocentStart
    <3>2. \A j : InMaps(j)' => InMaps(j) \/ j = k
      BY <2>5, MapSteps
    <3> QED BY <1>1, <2>2, <2>5, <3>1, <3>2, EffectMoves DEF Post
  <2> QED BY <2>2, <2>3, <2>4, <2>5
<1>4. CASE StopTracking
  <2>1. /\ Ends(Message, k) /\ Message.type = "stopTracking"
        /\ \/ /\ k \in DOMAIN timeBased /\ EraseTrackingSession(k) /\ ended' = ended \cup {k}
              /\ \E e \in StopEffects(k) : Post(e)
           \/ /\ UNCHANGED sessionVars /\ ended' = ended
              /\ apiQ' = Append(apiQ, StopDistance(k, Then("distanceStopped", k)))
           \/ /\ UNCHANGED sessionVars /\ ended' = ended \cup {k} /\ apiQ' = apiQ
              /\ ~InMaps(k)
    BY <1>4 DEF StopTracking, Receive, Ends, InMaps
  <2>2. CASE /\ UNCHANGED sessionVars /\ ended' = ended
             /\ apiQ' = Append(apiQ, StopDistance(k, Then("distanceStopped", k)))
    <3>1. PICK m : m = StopDistance(k, Then("distanceStopped", k))
      OBVIOUS
    <3>2. m \in ApiMsgs
      BY <1>2, <3>1, CallbackTypes, RequestTypes, OptionTypes DEF MaybeCallback
    <3>3. Harmless(m.cb)
      BY <2>1, <3>1 DEF StopDistance, Then, Harmless, Restores
    <3> QED BY <1>1, <2>2, <3>1, <3>2, <3>3, RequestMoves DEF sessionVars, InMaps
  <2> HIDE DEF k
  <2>3. ASSUME NEW e \in StopEffects(k), Post(e), k \in DOMAIN timeBased,
               EraseTrackingSession(k), ended' = ended \cup {k}
        PROVE  \E r \in Seq(ApiMsgs), q \in Seq(AdapterMsgs) : Moves(r, q)
    <3>1. e \in Effects /\ Innocent(e.requests)
      BY <2>3, StopTypes, InnocentStop
    <3>0. PICK c : c = k
      OBVIOUS
    <3>2. (\A j : InMaps(j)' => InMaps(j)) /\ (~InMaps(c)' \/ InBoth(c))
      BY <2>3, <3>0, MapSteps
    <3>3. \A j \in ended' : j \in ended \/ (Ends(Message, j) /\ (~InMaps(j)' \/ InBoth(j)))
      <4>1. \A j \in ended' : j \in ended \/ j = c
        BY <2>3, <3>0
      <4>2. Ends(Message, c)
        BY <2>1, <3>0
      <4> QED BY <3>2, <4>1, <4>2
    <3> QED BY <1>1, <2>3, <3>1, <3>2, <3>3, EffectMoves DEF Post
  <2>4. CASE /\ UNCHANGED sessionVars /\ ended' = ended \cup {k} /\ apiQ' = apiQ
             /\ ~InMaps(k)
    <3>1. \A j : InMaps(j)' => InMaps(j)
      BY <2>4 DEF sessionVars, InMaps
    <3> QED BY <1>1, <2>1, <2>4, <3>1, QuietMoves
  <2> QED BY <2>1, <2>2, <2>3, <2>4 DEF k
<1> QED BY <1>3, <1>4

LEMMA UpdateMoves ==
    ASSUME TypeOK, UpdateTracking
    PROVE  \E r \in Seq(ApiMsgs), p \in Seq(AdapterMsgs) : Moves(r, p)
<1> DEFINE k == Message.key
           o == WithFastestInterval(WithPowerFallback(Message.options))
<1>1. /\ ~danglingUsed /\ adapterQ # <<>> /\ Message.type = "updateTracking"
      /\ Done /\ pendingMsgs' = pendingMsgs /\ ended' = ended
  BY DEF UpdateTracking, Receive
<1>2. k \in Keys /\ o \in SessionOptions
  BY <1>1, HeadMessage, MessageFields, OptionTypes DEF UpdateTracking, Receive, SessionOptions
<1>3. \/ UNCHANGED <<sessionVars, apiQ>>
      \/ /\ k \in DOMAIN timeBased
         /\ \E e \in StopEffects(k) :
               apiQ' = (apiQ \o e.requests) \o << StartDistance(k, o, NoCallback) >>
         /\ SaveTrackingSession(Without(timeBased, k), k, o)
      \/ /\ k \in DOMAIN distanceBased /\ EraseTrackingSession(k) /\ o.distance = 0
         /\ apiQ' = Append(apiQ, StopDistance(k, ThenWith("switchToTime", k, o)))
      \/ /\ k \in DOMAIN timeBased
         /\ \E e \in UpdateEffects(k, o) : Post(e)
         /\ SaveTrackingSession(timeBased, k, o)
      \/ /\ k \in DOMAIN distanceBased /\ UNCHANGED sessionVars /\ o.distance > 0
         /\ apiQ' = Append(apiQ, StopDistance(k, ThenWith("restartDistance", k, o)))
  BY DEF UpdateTracking
<1> HIDE DEF k, o
<1>4. CASE UNCHANGED <<sessionVars, apiQ>>
  BY <1>1, <1>4, QuietMoves DEF sessionVars, InMaps
<1>5. ASSUME k \in DOMAIN timeBased, NEW e \in StopEffects(k),
             apiQ' = (apiQ \o e.requests) \o << StartDistance(k, o, NoCallback) >>,
             SaveTrackingSession(Without(timeBased, k), k, o)
      PROVE  \E r \in Seq(ApiMsgs), p \in Seq(AdapterMsgs) : Moves(r, p)
  <2>1. PICK m : m = StartDistance(k, o, NoCallback)
    OBVIOUS
  <2>2. m \in ApiMsgs /\ Harmless(m.cb)
    <3>1. m \in ApiMsgs
      BY <1>2, <2>1, RequestTypes DEF MaybeCallback, SessionOptions
    <3>2. Harmless(m.cb)
      BY <2>1, FixHarmless DEF StartDistance
    <3> QED BY <3>1, <3>2
  <2>3. e.requests \in Seq(ApiMsgs) /\ <<m>> \in Seq(ApiMsgs) /\ apiQ \in Seq(ApiMsgs)
    BY <1>5, <2>2, StopTypes, OneRequest DEF Effects, TypeOK
  <2>4. Innocent(e.requests) /\ Innocent(<<m>>)
    BY <1>5, <2>2, InnocentStop, InnocentOne
  <2>5. PICK r \in Seq(ApiMsgs) : r = e.requests \o <<m>>
    BY <2>3, ConcatProperties
  <2>6. apiQ' = apiQ \o r /\ Innocent(r)
    BY <1>5, <2>1, <2>3, <2>4, <2>5, RequestsAssociate, InnocentBoth
  <2>7. \A j : InMaps(j)' => InMaps(j)
    <3>1. DOMAIN Without(timeBased, k) \subseteq DOMAIN timeBased /\ InMaps(k)
      BY <1>5 DEF Without, InMaps
    <3>2. \A j : InMaps(j)' => InMaps(j) \/ j = k
      BY <1>5, <3>1, MapSteps
    <3> QED BY <3>1, <3>2
  <2>8. Moves(r, <<>>)
    BY <1>1, <2>6, <2>7, DoneMoves
  <2> QED BY <2>8, EmptySeq
<1>6. CASE /\ k \in DOMAIN distanceBased /\ EraseTrackingSession(k) /\ o.distance = 0
           /\ apiQ' = Append(apiQ, StopDistance(k, ThenWith("switchToTime", k, o)))
  <2>1. PICK m : m = StopDistance(k, ThenWith("switchToTime", k, o))
    OBVIOUS
  <2>2. m \in ApiMsgs
    BY <1>2, <1>6, <2>1, CallbackTypes, RequestTypes DEF MaybeCallback, SessionOptions
  <2>3. Harmless(m.cb)
    BY <1>1, <1>6, <2>1, RestoringHarmless DEF StopDistance, ThenWith, InMaps, Restorable
  <2>4. \A j : InMaps(j)' => InMaps(j)
    BY <1>6, MapSteps
  <2> QED BY <1>1, <1>6, <2>1, <2>2, <2>3, <2>4, RequestMoves
<1>7. ASSUME k \in DOMAIN timeBased, NEW e \in UpdateEffects(k, o), Post(e),
             SaveTrackingSession(timeBased, k, o)
      PROVE  \E r \in Seq(ApiMsgs), p \in Seq(AdapterMsgs) : Moves(r, p)
  <2>1. e \in Effects /\ Innocent(e.requests)
    BY <1>1, <1>2, <1>7, UpdateTypes, InnocentUpdate
  <2>2. \A j : InMaps(j)' => InMaps(j)
    <3>1. InMaps(k)
      BY <1>7 DEF InMaps
    <3>2. \A j : InMaps(j)' => InMaps(j) \/ j = k
      BY <1>7, MapSteps
    <3> QED BY <3>1, <3>2
  <2> QED BY <1>1, <1>7, <2>1, <2>2, EffectMoves DEF Post
<1>8. CASE /\ k \in DOMAIN distanceBased /\ UNCHANGED sessionVars /\ o.distance > 0
           /\ apiQ' = Append(apiQ, StopDistance(k, ThenWith("restartDistance", k, o)))
  <2>1. PICK m : m = StopDistance(k, ThenWith("restartDistance", k, o))
    OBVIOUS
  <2>2. m \in ApiMsgs
    BY <1>2, <1>8, <2>1, CallbackTypes, RequestTypes DEF MaybeCallback, SessionOptions
  <2>3. Harmless(m.cb)
    BY <1>1, <1>8, <2>1, RestoringHarmless DEF StopDistance, ThenWith, InMaps, Restorable
  <2>4. \A j : InMaps(j)' => InMaps(j)
    BY <1>8 DEF sessionVars, InMaps
  <2> QED BY <1>1, <1>8, <2>1, <2>2, <2>3, <2>4, RequestMoves
<1> QED BY <1>3, <1>4, <1>5, <1>6, <1>7, <1>8

LEMMA RestartMoves ==
    ASSUME TypeOK, EngineUp \/ Reconfigure
    PROVE  \E r \in Seq(ApiMsgs), p \in Seq(AdapterMsgs) : Moves(r, p)
<1>1. /\ ~danglingUsed /\ adapterQ # <<>> /\ apiQ \in Seq(ApiMsgs) /\ nHzNeeded \in BOOLEAN
      /\ UNCHANGED <<sessionVars, ended, engine, hub, owner>>
  BY DEF EngineUp, Reconfigure, Receive, Done, clientVars, TypeOK
<1>2. \A e \in RestartEffects(nHzNeeded) : e \in Effects /\ Innocent(e.requests)
  BY <1>1, RestartTypes, InnocentRestart
<1>3. \A k : InMaps(k)' => InMaps(k)
  BY <1>1 DEF sessionVars, InMaps
<1>4. CASE EngineUp
  <2>1. PICK e \in RestartEffects(nHzNeeded) : Post(e)
    BY <1>4 DEF EngineUp
  <2>2. PICK p : p = [i \in DOMAIN pendingMsgs |-> pendingMsgs[i].msg]
    OBVIOUS
  <2>3. PICK g : g = [i \in DOMAIN pendingMsgs |-> [pendingMsgs[i] EXCEPT !.sent = TRUE]]
    OBVIOUS
  <2>4. /\ adapterQ' = Tail(adapterQ) \o p /\ pendingMsgs' = g
        /\ danglingUsed' = \E i \in DOMAIN pendingMsgs : pendingMsgs[i].sent
    BY <1>4, <2>2, <2>3 DEF EngineUp
  <2>5. /\ pendingMsgs \in Seq([msg : Commands, sent : BOOLEAN])
        /\ Len(pendingMsgs) \in Nat /\ DOMAIN pendingMsgs = 1 .. Len(pendingMsgs)
        /\ \A i \in 1 .. Len(pendingMsgs) : pendingMsgs[i] \in [msg : Commands, sent : BOOLEAN]
    <3>1. pendingMsgs \in Seq([msg : Commands, sent : BOOLEAN])
      BY DEF TypeOK
    <3> QED BY <3>1, LenProperties, ElementOfSeq
  <2>6. p \in Seq(AdapterMsgs) /\ \A i \in DOMAIN p : p[i] \in Commands
    <3>1. \A i \in 1 .. Len(pendingMsgs) : p[i] \in Commands /\ p[i] \in AdapterMsgs
      BY <2>2, <2>5 DEF AdapterMsgs
    <3>2. DOMAIN p = 1 .. Len(pendingMsgs) /\ p = [i \in 1 .. Len(pendingMsgs) |-> p[i]]
      BY <2>2, <2>5
    <3> QED BY <2>5, <3>1, <3>2, MapToSeq
  <2>7. \A i \in DOMAIN p : \/ danglingUsed'
                            \/ \E j \in DOMAIN pendingMsgs : /\ pendingMsgs[j].msg = p[i]
                                                             /\ ~pendingMsgs[j].sent
    BY <2>2, <2>4
  <2>8. \A i \in DOMAIN pendingMsgs' : pendingMsgs'[i].sent
    BY <2>3, <2>4, <2>5
  <2>9. Moves(e.requests, p)
    BY <1>1, <1>2, <1>3, <2>1, <2>4, <2>6, <2>7, <2>8 DEF Moves, Post
  <2> QED BY <1>2, <2>6, <2>9 DEF Effects
<1>5. CASE Reconfigure
  <2>1. PICK e \in RestartEffects(nHzNeeded) :
            apiQ' = (apiQ \o (IF DOMAIN timeBased = {} THEN <<>> ELSE << StopFix(NoCallback) >>))
                          \o e.requests
    BY <1>5 DEF Reconfigure
  <2>2. PICK x : x = IF DOMAIN timeBased = {} THEN <<>> ELSE << StopFix(NoCallback) >>
    OBVIOUS
  <2>3. x \in Seq(ApiMsgs) /\ Innocent(x)
    <3>1. StopFix(NoCallback) \in ApiMsgs
      BY DEF StopFix, ApiMsgs, MaybeCallback
    <3>2. Harmless(StopFix(NoCallback).cb)
      BY FixHarmless DEF StopFix
    <3>3. << StopFix(NoCallback) >> \in Seq(ApiMsgs) /\ Innocent(<< StopFix(NoCallback) >>)
      BY <3>1, <3>2, OneRequest, InnocentOne
    <3> QED BY <2>2, <3>3, EmptySeq, InnocentNone
  <2>4. e.requests \in Seq(ApiMsgs) /\ Innocent(e.requests)
    BY <1>2 DEF Effects
  <2>5. PICK r \in Seq(ApiMsgs) : r = x \o e.requests
    BY <2>3, <2>4, ConcatProperties
  <2>6. apiQ' = (apiQ \o x) \o e.requests
    BY <2>1, <2>2
  <2>60. apiQ' = apiQ \o r /\ Innocent(r)
    BY <1>1, <2>3, <2>4, <2>5, <2>6, RequestsAssociate, InnocentBoth
  <2>7. Done /\ pendingMsgs' = pendingMsgs
    BY <1>5 DEF Reconfigure
  <2>8. Moves(r, <<>>)
    BY <1>1, <1>3, <2>60, <2>7, DoneMoves
  <2> QED BY <2>8, EmptySeq
<1> QED BY <1>4, <1>5

LEMMA ResponseMoves ==
    ASSUME TypeOK,
           FixStarted \/ FixUpdated \/ FixStopped \/ DistanceStarted \/ DistanceStopped
             \/ ClientDistanceStopped \/ SwitchToTime \/ RestartDistance \/ DistanceRestarted
    PROVE  \E r \in Seq(ApiMsgs), p \in Seq(AdapterMsgs) : Moves(r, p)
<1> DEFINE k == Message.cb.key
           o == Message.cb.options
<1>1. /\ adapterQ # <<>> /\ ~danglingUsed /\ Message.type = "response"
      /\ Done /\ pendingMsgs' = pendingMsgs
  BY DEF FixStarted, FixUpdated, FixStopped, DistanceStarted, DistanceStopped,
         ClientDistanceStopped, SwitchToTime, RestartDistance, DistanceRestarted,
         Response, Receive, setupVars
<1>3. Message.cb \in Callbacks /\ k \in Keys
  BY <1>1, HeadMessage, MessageFields, CallbackFields
<1>4. CASE FixStarted \/ FixStopped \/ DistanceStarted \/ ClientDistanceStopped
  <2>1. /\ EraseTrackingSession(k) \/ UNCHANGED sessionVars
        /\ apiQ' = apiQ /\ ended' = ended
    BY <1>4 DEF FixStarted, FixStopped, DistanceStarted, ClientDistanceStopped
  <2> HIDE DEF k
  <2>2. \A j : InMaps(j)' => InMaps(j)
    BY <2>1, MapSteps
  <2> QED BY <1>1, <2>1, <2>2, QuietMoves
<1>5. CASE DistanceStopped
  <2>1. /\ Ends(Message, k) /\ apiQ' = apiQ
        /\ \/ UNCHANGED sessionVars /\ ended' = ended
           \/ EraseTrackingSession(k) /\ ended' = ended \cup {k}
    BY <1>1, <1>5 DEF DistanceStopped, Response, Ends
  <2> HIDE DEF k
  <2>2. CASE UNCHANGED sessionVars /\ ended' = ended
    BY <1>1, <2>1, <2>2, QuietMoves DEF sessionVars, InMaps
  <2>3. CASE EraseTrackingSession(k) /\ ended' = ended \cup {k}
    <3>0. PICK c : c = k
      OBVIOUS
    <3>1. (\A j : InMaps(j)' => InMaps(j)) /\ (~InMaps(c)' \/ InBoth(c))
      BY <2>3, <3>0, MapSteps
    <3>2. \A j \in ended' : j \in ended \/ (Ends(Message, j) /\ (~InMaps(j)' \/ InBoth(j)))
      <4>1. \A j \in ended' : j \in ended \/ j = c
        BY <2>3, <3>0
      <4>2. Ends(Message, c)
        BY <2>1, <3>0
      <4> QED BY <3>1, <4>1, <4>2
    <3> QED BY <1>1, <2>1, <3>1, <3>2, QuietMoves
  <2> QED BY <2>1, <2>2, <2>3
<1>6. CASE FixUpdated \/ DistanceRestarted
  <2>1. /\ UNCHANGED sessionVars \/ SaveTrackingSession(timeBased, k, o)
        /\ apiQ' = apiQ /\ ended' = ended
        /\ Message.cb.then \in {"fixUpdated", "distanceRestarted"}
    BY <1>6 DEF FixUpdated, DistanceRestarted, Response
  <2>2. \A j : InMaps(j)' => InMaps(j) \/ j = k
    BY <2>1, MapSteps DEF sessionVars, InMaps
  <2>3. Brings(Message, k)
    BY <1>1, <2>1 DEF Brings, Restores
  <2> QED BY <1>1, <1>3, <2>1, <2>2, <2>3, QuietMoves
<1>7. CASE SwitchToTime
  <2>1. o \in SessionOptions /\ o.distance = 0 /\ Message.cb.then = "switchToTime"
    BY <1>3, <1>7, CallbackFields DEF SwitchToTime, Response
  <2>2. PICK e \in StartEffects(k, o) : Post(e)
    BY <1>7 DEF SwitchToTime
  <2>3. SaveTrackingSession(timeBased, k, o) /\ ended' = ended
    BY <1>7 DEF SwitchToTime
  <2>4. e \in Effects /\ Innocent(e.requests)
    BY <1>3, <2>1, StartTypes, InnocentStart
  <2>5. \A j : InMaps(j)' => InMaps(j) \/ j = k
    BY <2>3, MapSteps
  <2>6. Brings(Message, k)
    BY <1>1, <1>3, <2>1 DEF Brings, Restores
  <2> QED BY <1>1, <2>2, <2>3, <2>4, <2>5, <2>6, EffectMoves DEF Post
<1>8. CASE RestartDistance
  <2>1. /\ o \in SessionOptions /\ o.distance > 0 /\ Message.cb.then = "restartDistance"
    BY <1>3, <1>8, CallbackFields DEF RestartDistance, Response
  <2>2. PICK m : m = StartDistance(k, o, ThenWith("distanceRestarted", k, o))
    OBVIOUS
  <2>3. /\ apiQ' = apiQ \/ apiQ' = Append(apiQ, m)
        /\ UNCHANGED <<sessionVars, ended>>
    BY <1>8, <2>2 DEF RestartDistance
  <2>4. m \in ApiMsgs
    BY <1>3, <2>1, <2>2, CallbackTypes, RequestTypes DEF MaybeCallback, SessionOptions
  <2>5. Brings(Message, k)
    BY <1>1, <1>3, <2>1 DEF Brings, Restores
  <2>6. Harmless(m.cb)
    BY <2>2, <2>5, RestoringHarmless DEF StartDistance, ThenWith, Restorable
  <2>7. \A j : InMaps(j)' => InMaps(j)
    BY <2>3 DEF sessionVars, InMaps
  <2> QED BY <1>1, <2>3, <2>4, <2>6, <2>7, QuietMoves, RequestMoves
<1> QED BY <1>4, <1>5, <1>6, <1>7, <1>8

LEMMA HandlerMoves ==
    ASSUME TypeOK, Handler
    PROVE  \E r \in Seq(ApiMsgs), p \in Seq(AdapterMsgs) : Moves(r, p)
BY ClientMessageMoves, CommandMoves, UpdateMoves, RestartMoves, ResponseMoves DEF Handler

-----------------------------------------------------------------------------
(* The engine serves every session *)

\* The engine goes on serving after a step of the adapter that posts r to the API thread.
LEMMA StepServes ==
    ASSUME TypeOK, Serves, NEW r \in Seq(ApiMsgs), apiQ' = apiQ \o r, engine' = engine,
           FailuresAreRepaired', hub' = hub,
           \A k \in DOMAIN timeBased' :
               \/ Asks(r, timeBased'[k].interval)
               \/ Keeps(r) /\ WillRun(timeBased'[k].interval)
               \/ Recovering',
           speAtHighest' => IF nHzNeeded' THEN \/ Asks(r, MinInterval)
                                               \/ Keeps(r) /\ WillRun(MinInterval)
                                               \/ Recovering'
                                          ELSE hub.at = "restarting"
    PROVE  Serves'
<1>1. apiQ \in Seq(ApiMsgs)
  BY DEF TypeOK
<1>2. engine'.up \/ Reopens(apiQ')
  <2>1. engine.up \/ Reopens(apiQ)
    BY DEF Serves, Repaired, Serving
  <2> QED BY <1>1, <2>1, ConcatAsks
<1>3. ASSUME NEW n, Asks(r, n) \/ (Keeps(r) /\ WillRun(n))
      PROVE  Asks(apiQ', n) \/ (Keeps(apiQ') /\ engine'.running /\ engine'.fix.interval <= n)
  <2>1. CASE Asks(r, n)
    BY <1>1, <2>1, ConcatAsks
  <2>2. CASE Keeps(r) /\ Asks(apiQ, n)
    BY <1>1, <2>2, ConcatAsks
  <2>3. CASE Keeps(r) /\ Keeps(apiQ) /\ engine.running /\ engine.fix.interval <= n
    BY <1>1, <2>3, ConcatAsks
  <2> QED BY <1>3, <2>1, <2>2, <2>3 DEF WillRun
<1>4. speAtHighest' => IF nHzNeeded' THEN Recovering' \/ WillRun(MinInterval)'
                                      ELSE hub'.at = "restarting"
  BY <1>3 DEF WillRun
<1>5. Recovering' \/ \A k \in DOMAIN timeBased' : WillRun(timeBased[k].interval)'
  BY <1>3 DEF WillRun
<1> QED BY <1>2, <1>4, <1>5 DEF Serves, Repaired, Serving, FailuresAreRepaired

\* Consuming a message, and queueing commands p, repairs what was to be repaired.
LEMMA ConsumeRepairs ==
    ASSUME TypeOK, FailuresAreRepaired, adapterQ # <<>>, Reopens(apiQ) => Reopens(apiQ'),
           NEW p \in Seq(AdapterMsgs), \A i \in DOMAIN p : p[i].type # "response",
           adapterQ' = Tail(adapterQ) \o p
    PROVE  /\ FailuresAreRepaired'
           /\ Recovering /\ Message.type # "engineUp" => Recovering'
           /\ Message.type = "response" /\ Message.err # "SUCCESS" => Recovering'
<1> DEFINE t == Tail(adapterQ)
<1>1. /\ adapterQ \in Seq(AdapterMsgs) /\ t \in Seq(AdapterMsgs)
      /\ Len(adapterQ) \in Nat \ {0} /\ Len(t) = Len(adapterQ) - 1
      /\ DOMAIN adapterQ = 1 .. Len(adapterQ)
      /\ Message = adapterQ[1]
      /\ \A i \in 1 .. Len(t) : t[i] = adapterQ[i + 1]
  <2>1. adapterQ \in Seq(AdapterMsgs)
    BY DEF TypeOK
  <2> QED BY <2>1, EmptySeq, LenProperties, HeadTailProperties DEF Message
<1>2. /\ Len(p) \in Nat /\ DOMAIN p = 1 .. Len(p)
      /\ DOMAIN (t \o p) = 1 .. (Len(t) + Len(p))
      /\ \A i \in 1 .. Len(t) + Len(p) :
             (t \o p)[i] = IF i <= Len(t) THEN t[i] ELSE p[i - Len(t)]
  BY <1>1, LenProperties, ConcatProperties
<1>3. \A j \in DOMAIN adapterQ : j > 1 => /\ j - 1 \in DOMAIN (t \o p)
                                         /\ (t \o p)[j - 1] = adapterQ[j]
  BY <1>1, <1>2
<1>4. \A i \in DOMAIN (t \o p) : (t \o p)[i].type = "response" =>
          i + 1 \in DOMAIN adapterQ /\ (t \o p)[i] = adapterQ[i + 1]
  BY <1>1, <1>2
<1>5. ASSUME NEW i \in Nat, UpAfter(adapterQ, i + 1) PROVE UpAfter(t \o p, i)
  <2>1. PICK j \in DOMAIN adapterQ : j > i + 1 /\ adapterQ[j].type = "engineUp"
    BY <1>5 DEF UpAfter
  <2>2. j - 1 \in DOMAIN (t \o p) /\ j - 1 > i /\ (t \o p)[j - 1].type = "engineUp"
    BY <1>1, <1>3, <2>1
  <2> QED BY <2>2 DEF UpAfter
<1> HIDE DEF t
<1>6. adapterQ' = t \o p
  BY DEF t
<1>7. FailuresAreRepaired'
  <2> SUFFICES ASSUME NEW i \in DOMAIN (t \o p), (t \o p)[i].type = "response",
                      (t \o p)[i].err # "SUCCESS"
               PROVE  Reopens(apiQ') \/ UpAfter(t \o p, i)
    BY <1>6 DEF FailuresAreRepaired
  <2>1. i \in Nat /\ i + 1 \in DOMAIN adapterQ /\ (t \o p)[i] = adapterQ[i + 1]
    BY <1>1, <1>2, <1>4
  <2>2. Reopens(apiQ) \/ UpAfter(adapterQ, i + 1)
    BY <2>1 DEF FailuresAreRepaired
  <2> QED BY <1>5, <2>1, <2>2
<1>8. ASSUME Recovering, Message.type # "engineUp" PROVE Recovering'
  <2>1. CASE Reopens(apiQ)
    BY <2>1 DEF Recovering
  <2>2. CASE UpAfter(adapterQ, 0)
    <3>1. PICK j \in DOMAIN adapterQ : j > 0 /\ adapterQ[j].type = "engineUp"
      BY <2>2 DEF UpAfter
    <3>2. j # 1
      BY <1>1, <1>8, <3>1
    <3>3. j \in Nat /\ j > 1 /\ j - 1 > 0
      BY <1>1, <3>1, <3>2
    <3>4. j - 1 \in DOMAIN (t \o p) /\ (t \o p)[j - 1].type = "engineUp"
      BY <1>3, <3>1, <3>3
    <3>5. UpAfter(t \o p, 0)
      BY <3>3, <3>4 DEF UpAfter
    <3> QED BY <1>6, <3>5 DEF Recovering
  <2> QED BY <1>8, <2>1, <2>2 DEF Recovering
<1>9. ASSUME Message.type = "response", Message.err # "SUCCESS" PROVE Recovering'
  <2>0. /\ 1 \in DOMAIN adapterQ /\ 0 + 1 = 1
        /\ adapterQ[1].type = "response" /\ adapterQ[1].err # "SUCCESS"
    BY <1>1, <1>9
  <2>1. Reopens(apiQ) \/ UpAfter(adapterQ, 0 + 1)
    BY <2>0 DEF FailuresAreRepaired
  <2>2. Reopens(apiQ') \/ UpAfter(t \o p, 0)
    BY <1>5, <2>1
  <2> QED BY <1>6, <2>2 DEF Recovering
<1> QED BY <1>7, <1>8, <1>9

\* The same for a step that only consumes its message.
LEMMA DoneRepairs ==
    ASSUME TypeOK, FailuresAreRepaired, adapterQ # <<>>, NEW r \in Seq(ApiMsgs), apiQ' = apiQ \o r, Done
    PROVE  /\ FailuresAreRepaired'
           /\ Recovering /\ Message.type # "engineUp" => Recovering'
           /\ Message.type = "response" /\ Message.err # "SUCCESS" => Recovering'
<1>1. Reopens(apiQ) => Reopens(apiQ')
  BY ConcatAsks DEF TypeOK
<1>2. /\ adapterQ' = Tail(adapterQ) \o <<>> /\ <<>> \in Seq(AdapterMsgs)
      /\ \A i \in DOMAIN <<>> : <<>>[i].type # "response"
  BY HeadMessage, EmptySeq, ConcatEmptySeq DEF Done
<1> QED BY <1>1, <1>2, ConsumeRepairs

\* A step that leaves the fix session alone and adds no time-based session.
LEMMA KeepStep ==
    ASSUME TypeOK, Serves, NEW r \in Seq(ApiMsgs), Keeps(r), apiQ' = apiQ \o r,
           engine' = engine, speAtHighest' = speAtHighest, nHzNeeded' = nHzNeeded,
           hub' = hub, FailuresAreRepaired', Recovering => Recovering',
           \A k \in DOMAIN timeBased' : k \in DOMAIN timeBased /\ timeBased'[k] = timeBased[k]
    PROVE  Serves'
<1>1. \A k \in DOMAIN timeBased' :
          (Keeps(r) /\ WillRun(timeBased'[k].interval)) \/ Recovering'
  BY DEF Serves, Repaired, Serving
<1>2. speAtHighest' => IF nHzNeeded' THEN (Keeps(r) /\ WillRun(MinInterval)) \/ Recovering'
                                      ELSE hub.at = "restarting"
  BY DEF Serves, Repaired, Serving
<1> QED BY <1>1, <1>2, StepServes

\* A step that posts the requests of an effect, which serve the sessions it leaves.
LEMMA EffectStep ==
    ASSUME TypeOK, Serves, NEW e \in Effects, NEW d \in Seq(ApiMsgs), Keeps(d),
           apiQ' = (apiQ \o e.requests) \o d, speAtHighest' = e.spe,
           engine' = engine, nHzNeeded' = nHzNeeded, hub' = hub,
           SpeKept(e), Covers(e.requests, timeBased'),
           FailuresAreRepaired', Recovering => Recovering'
    PROVE  Serves'
<1> DEFINE r == e.requests \o d
<1>1. e.requests \in Seq(ApiMsgs) /\ apiQ \in Seq(ApiMsgs)
  BY DEF Effects, TypeOK
<1>2. r \in Seq(ApiMsgs) /\ apiQ' = apiQ \o r
  <2>1. (apiQ \o e.requests) \o d = apiQ \o (e.requests \o d)
    BY <1>1, RequestsAssociate
  <2>2. r \in Seq(ApiMsgs)
    BY <1>1, ConcatProperties
  <2> QED BY <2>1, <2>2
<1>3. \A n : Asks(e.requests, n) => Asks(r, n)
  BY <1>1, ConcatAsks
<1>4. e.requests = <<>> => Keeps(r)
  BY <1>1, ConcatEmptySeq
<1> HIDE DEF r
<1>5. ASSUME NEW k \in DOMAIN timeBased'
      PROVE  \/ Asks(r, timeBased'[k].interval)
             \/ Keeps(r) /\ WillRun(timeBased'[k].interval)
             \/ Recovering'
  <2>1. \/ Asks(e.requests, timeBased'[k].interval)
        \/ e.requests = <<>> /\ (Recovering \/ WillRun(timeBased'[k].interval))
    BY DEF Covers
  <2> QED BY <1>3, <1>4, <2>1
<1>6. ASSUME speAtHighest'
      PROVE  IF nHzNeeded' THEN \/ Asks(r, MinInterval)
                                \/ Keeps(r) /\ WillRun(MinInterval)
                                \/ Recovering'
                           ELSE hub.at = "restarting"
  <2>1. CASE e.requests = <<>> /\ e.spe = speAtHighest
    BY <1>4, <1>6, <2>1 DEF Serves, Repaired, Serving
  <2>2. CASE e.spe => IF nHzNeeded THEN Asks(e.requests, MinInterval)
                                   ELSE hub.at = "restarting"
    BY <1>3, <1>6, <2>2
  <2> QED BY <2>1, <2>2 DEF SpeKept
<1> QED BY <1>2, <1>5, <1>6, StepServes

\* A message appended to the queue of the adapter leaves the promises about it alone.
LEMMA AppendUp ==
    ASSUME NEW q \in Seq(AdapterMsgs), NEW m \in AdapterMsgs
    PROVE  /\ \A i : UpAfter(q, i) => UpAfter(Append(q, m), i)
           /\ \A i \in DOMAIN q : Append(q, m)[i] = q[i]
           /\ \A i \in DOMAIN Append(q, m) : i \in DOMAIN q \/ Append(q, m)[i] = m
           /\ Append(q, m)[Len(q) + 1] = m /\ Len(q) + 1 \in DOMAIN Append(q, m)
           /\ \A i \in DOMAIN q : Len(q) + 1 > i
<1>1. /\ Append(q, m) \in Seq(AdapterMsgs) /\ Len(q) \in Nat
      /\ DOMAIN q = 1 .. Len(q) /\ DOMAIN Append(q, m) = 1 .. Len(q) + 1
      /\ \A i \in 1 .. Len(q) : Append(q, m)[i] = q[i]
      /\ Append(q, m)[Len(q) + 1] = m
  BY AppendProperties, LenProperties
<1>2. ASSUME NEW i, UpAfter(q, i) PROVE UpAfter(Append(q, m), i)
  <2>1. PICK j \in DOMAIN q : j > i /\ q[j].type = "engineUp"
    BY <1>2 DEF UpAfter
  <2>2. j \in DOMAIN Append(q, m) /\ Append(q, m)[j] = q[j]
    BY <1>1
  <2> QED BY <2>1, <2>2, Zenon DEF UpAfter
<1> QED BY <1>1, <1>2

\* Clients only post messages that are not responses.
LEMMA PostedServes ==
    ASSUME TypeOK, Repaired, NEW m \in AdapterMsgs, m.type # "response",
           adapterQ' = Append(adapterQ, m),
           UNCHANGED <<timeBased, nHzNeeded, speAtHighest, apiQ, engine, hub>>
    PROVE  Repaired' /\ (Serving => Serving')
<1>1. adapterQ \in Seq(AdapterMsgs)
  BY DEF TypeOK
<1>2. Recovering => Recovering'
  BY <1>1, AppendUp DEF Recovering
<1>3. FailuresAreRepaired'
  <2> SUFFICES ASSUME NEW i \in DOMAIN adapterQ', adapterQ'[i].type = "response",
                      adapterQ'[i].err # "SUCCESS"
               PROVE  Reopens(apiQ') \/ UpAfter(adapterQ', i)
    BY DEF FailuresAreRepaired
  <2>1. i \in DOMAIN adapterQ /\ adapterQ'[i] = adapterQ[i]
    BY <1>1, AppendUp
  <2> QED BY <1>1, <2>1, AppendUp DEF Repaired, FailuresAreRepaired
<1>4. \A n : WillRun(n)' <=> WillRun(n)
  BY DEF WillRun
<1> QED BY <1>2, <1>3, <1>4 DEF Repaired, Serving

\* A step that queues a message for the adapter thread, and no answer.
Posted(m) == /\ m.type # "response"
             /\ adapterQ' = Append(adapterQ, m)
             /\ UNCHANGED <<timeBased, nHzNeeded, speAtHighest, apiQ, engine, hub, raced>>

LEMMA ClientServes ==
    ASSUME TypeOK, ServesInv, Client PROVE ServesInv'
<1>1. \E m \in AdapterMsgs : Posted(m)
  <2>1. ASSUME NEW m \in AdapterMsgs, m.type # "response", Call(m)
        PROVE  Posted(m)
    BY <2>1 DEF Call, adapterVars, historyVars, Posted
  <2>2. ASSUME NEW k, NEW m \in AdapterMsgs, m.type # "response", Command(k, m)
        PROVE  Posted(m)
    BY <2>2 DEF Command, sessionVars, historyVars, Posted
  <2>3. ASSUME NEW c \in Clients, NEW t \in TrackingCbs, CreateInstance(c, t) \/ UpdateCallbacks(c, t)
        PROVE  \E m \in AdapterMsgs : Posted(m)
    <3>1. [type |-> "addClient", client |-> c, tracking |-> t] \in AdapterMsgs
      BY CommandTypes, GnssAssumption DEF GnssAssumption
    <3> QED BY <2>1, <2>3, <3>1 DEF CreateInstance, UpdateCallbacks
  <2>4. ASSUME NEW c \in Clients, Destroy(c) PROVE \E m \in AdapterMsgs : Posted(m)
    <3>1. [type |-> "removeClient", client |-> c] \in AdapterMsgs
      BY CommandTypes
    <3> QED BY <2>1, <2>4, <3>1 DEF Destroy
  <2>5. ASSUME NEW c \in Clients, NEW o \in StartOptions, StartTrackingCommand(c, o)
        PROVE  \E m \in AdapterMsgs : Posted(m)
    <3> DEFINE k == <<c, Len(owner) + 1>>
               m == [type |-> "startTracking", key |-> k, options |-> o]
    <3>1. k \in Keys
      BY <2>5, GnssAssumption, LenProperties DEF GnssAssumption, StartTrackingCommand, TypeOK, Keys, Ids
    <3>2. m \in AdapterMsgs /\ m.type # "response"
      BY <3>1, CommandTypes, GnssAssumption DEF GnssAssumption
    <3>3. Command(k, m)
      BY <2>5 DEF StartTrackingCommand
    <3> HIDE DEF m, k
    <3> QED BY <2>2, <3>2, <3>3
  <2>6. ASSUME NEW i \in DOMAIN owner, NEW o \in UpdateOptions, UpdateTrackingOptionsCommand(i, o)
        PROVE  \E m \in AdapterMsgs : Posted(m)
    <3> DEFINE k == <<owner[i], i>>
               m == [type |-> "updateTracking", key |-> k, options |-> o]
    <3>1. k \in Keys
      BY GnssAssumption, LenProperties DEF GnssAssumption, TypeOK, Keys, Ids
    <3>2. m \in AdapterMsgs /\ m.type # "response"
      BY <3>1, CommandTypes, GnssAssumption DEF GnssAssumption
    <3>3. Command(k, m)
      BY <2>6 DEF UpdateTrackingOptionsCommand
    <3> HIDE DEF m, k
    <3> QED BY <2>2, <3>2, <3>3
  <2>7. ASSUME NEW i \in DOMAIN owner, StopTrackingCommand(i) PROVE \E m \in AdapterMsgs : Posted(m)
    <3> DEFINE k == <<owner[i], i>>
               m == [type |-> "stopTracking", key |-> k]
    <3>1. k \in Keys
      BY GnssAssumption, LenProperties DEF GnssAssumption, TypeOK, Keys, Ids
    <3>2. m \in AdapterMsgs /\ m.type # "response"
      BY <3>1, CommandTypes
    <3>3. Command(k, m)
      BY <2>7 DEF StopTrackingCommand
    <3> HIDE DEF m, k
    <3> QED BY <2>2, <3>2, <3>3
  <2>8. ASSUME ReconfigureCommand PROVE \E m \in AdapterMsgs : Posted(m)
    <3>1. [type |-> "reconfigure"] \in AdapterMsgs
      BY CommandTypes
    <3> QED BY <2>1, <2>8, <3>1 DEF ReconfigureCommand
  <2> QED BY <2>3, <2>4, <2>5, <2>6, <2>7, <2>8 DEF Client
<1>2. PICK m \in AdapterMsgs : Posted(m)
  BY <1>1
<1>3. Repaired' /\ (Serving => Serving')
  BY <1>2, PostedServes DEF Posted, ServesInv
<1>4. HubWillServe => HubWillServe'
  BY <1>2 DEF Posted, HubWillServe
<1> QED BY <1>2, <1>3, <1>4 DEF Posted, ServesInv

\* What the head and the rest of the requests promise.
LEMMA FirstRequest ==
    ASSUME TypeOK, apiQ # <<>>
    PROVE  /\ Request \in ApiMsgs
           /\ Reopens(apiQ) => Request.op \in {"open", "ssr"} \/ Reopens(Tail(apiQ))
           /\ Keeps(apiQ) => ~Settles(Request) /\ Keeps(Tail(apiQ))
           /\ \A n : Asks(apiQ, n) =>
                  \/ Asks(Tail(apiQ), n)
                  \/ /\ Keeps(Tail(apiQ))
                     /\ Request.op = "startFix" /\ Request.options.interval <= n
<1> DEFINE t == Tail(apiQ)
<1>1. /\ apiQ \in Seq(ApiMsgs) /\ t \in Seq(ApiMsgs)
      /\ Len(apiQ) \in Nat \ {0} /\ Len(t) = Len(apiQ) - 1
      /\ DOMAIN apiQ = 1 .. Len(apiQ) /\ DOMAIN t = 1 .. Len(apiQ) - 1
      /\ Request = apiQ[1] /\ Request \in ApiMsgs
      /\ \A i \in 1 .. Len(t) : t[i] = apiQ[i + 1]
  <2>1. apiQ \in Seq(ApiMsgs)
    BY DEF TypeOK
  <2> QED BY <2>1, EmptySeq, LenProperties, HeadTailProperties DEF Request
<1>2. /\ 1 \in DOMAIN apiQ
      /\ \A i \in DOMAIN apiQ : i = 1 \/ (i - 1 \in DOMAIN t /\ t[i - 1] = apiQ[i])
      /\ \A i \in DOMAIN t : i + 1 \in DOMAIN apiQ /\ t[i] = apiQ[i + 1]
      /\ DOMAIN apiQ \subseteq Nat /\ DOMAIN t \subseteq Nat
      /\ \A i \in DOMAIN apiQ : i = 1 \/ i > 1
  BY <1>1
<1> HIDE DEF t
<1>3. Reopens(apiQ) => Request.op \in {"open", "ssr"} \/ Reopens(t)
  BY <1>1, <1>2 DEF Reopens
<1>4. Keeps(apiQ) => ~Settles(Request) /\ Keeps(t)
  BY <1>1, <1>2 DEF Keeps
<1>5. ASSUME NEW n, Asks(apiQ, n)
      PROVE  \/ Asks(t, n)
             \/ Keeps(t) /\ Request.op = "startFix" /\ Request.options.interval <= n
  <2>1. PICK i \in DOMAIN apiQ :
            /\ apiQ[i].op = "startFix" /\ apiQ[i].options.interval <= n
            /\ \A j \in DOMAIN apiQ : j > i => ~Settles(apiQ[j])
    BY <1>5 DEF Asks
  <2>2. CASE i = 1
    <3>1. ASSUME NEW j \in DOMAIN t PROVE ~Settles(t[j])
      <4>1. j + 1 \in DOMAIN apiQ /\ j + 1 > i /\ t[j] = apiQ[j + 1]
        BY <1>1, <1>2, <2>2
      <4> QED BY <2>1, <4>1
    <3> QED BY <1>1, <2>1, <2>2, <3>1 DEF Keeps
  <2>3. CASE i # 1
    <3>1. i - 1 \in DOMAIN t /\ t[i - 1] = apiQ[i]
      BY <1>2, <2>3
    <3>2. ASSUME NEW j \in DOMAIN t, j > i - 1 PROVE ~Settles(t[j])
      <4>1. j + 1 \in DOMAIN apiQ /\ j + 1 > i /\ t[j] = apiQ[j + 1]
        BY <1>2, <3>2
      <4> QED BY <2>1, <4>1
    <3>3. t[i - 1].op = "startFix" /\ t[i - 1].options.interval <= n
      BY <2>1, <3>1
    <3> QED BY <3>1, <3>2, <3>3, Zenon DEF Asks
  <2> QED BY <2>2, <2>3
<1> QED BY <1>1, <1>3, <1>4, <1>5 DEF t

\* The answers the API thread posts repair what a failed one breaks.
LEMMA AnswerRepairs ==
    ASSUME TypeOK, FailuresAreRepaired, Reopens(apiQ) => Reopens(apiQ'),
           NEW err \in Errors, NEW cb \in Callbacks,
           adapterQ' = Append(adapterQ, [type |-> "response", cb |-> cb, err |-> err]),
           err = "SUCCESS" \/ Reopens(apiQ')
    PROVE  FailuresAreRepaired' /\ (Recovering => Recovering')
<1> DEFINE m == [type |-> "response", cb |-> cb, err |-> err]
<1>1. m \in AdapterMsgs /\ adapterQ \in Seq(AdapterMsgs) /\ m.err = err
  BY CommandTypes DEF TypeOK
<1>2. adapterQ' = Append(adapterQ, m)
  OBVIOUS
<1> HIDE DEF m
<1>3. Recovering => Recovering'
  BY <1>1, <1>2, AppendUp DEF Recovering
<1>4. FailuresAreRepaired'
  <2> SUFFICES ASSUME NEW i \in DOMAIN adapterQ', adapterQ'[i].type = "response",
                      adapterQ'[i].err # "SUCCESS"
               PROVE  Reopens(apiQ') \/ UpAfter(adapterQ', i)
    BY DEF FailuresAreRepaired
  <2>1. CASE i \in DOMAIN adapterQ /\ adapterQ'[i] = adapterQ[i]
    BY <1>1, <1>2, <2>1, AppendUp DEF FailuresAreRepaired
  <2>2. CASE adapterQ'[i] = m
    BY <1>1, <2>2
  <2>3. \A j \in DOMAIN Append(adapterQ, m) : j \in DOMAIN adapterQ \/ Append(adapterQ, m)[j] = m
    BY <1>1, AppendUp
  <2>4. \A j \in DOMAIN adapterQ : Append(adapterQ, m)[j] = adapterQ[j]
    BY <1>1, AppendUp
  <2> QED BY <1>2, <2>1, <2>2, <2>3, <2>4
<1> QED BY <1>3, <1>4

\* A step that leaves the sessions alone, and every fix that was to run still is.
LEMMA ApiStepServes ==
    ASSUME TypeOK, Serving, Recovering => Recovering',
           \A n \in Nat : WillRun(n) => Recovering' \/ WillRun(n)',
           UNCHANGED <<timeBased, nHzNeeded, speAtHighest, hub>>
    PROVE  Serving'
<1>1. MinInterval \in Nat
  BY OptionsAssumption DEF OptionsAssumption
<1>2. \A k \in DOMAIN timeBased : timeBased[k].interval \in Nat
  BY DEF TypeOK, IsSessionMap, SessionOptions, Options
<1>3. speAtHighest' => IF nHzNeeded' THEN Recovering' \/ WillRun(MinInterval)'
                                      ELSE hub'.at = "restarting"
  BY <1>1 DEF Serving
<1>4. Recovering' \/ \A k \in DOMAIN timeBased' : WillRun(timeBased[k].interval)'
  <2> SUFFICES ASSUME ~Recovering', NEW k \in DOMAIN timeBased
               PROVE  WillRun(timeBased[k].interval)'
    OBVIOUS
  <2>1. WillRun(timeBased[k].interval)
    BY DEF Serving
  <2>2. PICK n \in Nat : n = timeBased[k].interval /\ n = timeBased'[k].interval
    BY <1>2
  <2>3. WillRun(n)'
    BY <2>1, <2>2
  <2> QED BY <2>2, <2>3
<1> QED BY <1>3, <1>4 DEF Serving

LEMMA OpenServes ==
    ASSUME TypeOK, Repaired, ~EngineMayFail, Open PROVE Repaired' /\ (Serving => Serving')
<1> DEFINE m == [type |-> "engineUp"]
<1>1. /\ engine' = Stopped(TRUE) /\ adapterQ' = Append(adapterQ, m)
      /\ apiQ # <<>> /\ apiQ' = Tail(apiQ)
      /\ UNCHANGED <<timeBased, nHzNeeded, speAtHighest, hub>>
  BY DEF Open, Serve, Served, adapterVars, clientVars
<1>2. m \in AdapterMsgs /\ adapterQ \in Seq(AdapterMsgs) /\ m.type = "engineUp"
  BY CommandTypes DEF TypeOK
<1> HIDE DEF m
<1>3. \A i : Len(adapterQ) + 1 > i => UpAfter(adapterQ', i)
  <2>1. /\ Len(adapterQ) + 1 \in DOMAIN adapterQ'
        /\ adapterQ'[Len(adapterQ) + 1].type = "engineUp"
    BY <1>1, <1>2, AppendUp
  <2> QED BY <2>1, Zenon DEF UpAfter
<1>4. Recovering'
  <2>1. Len(adapterQ) + 1 > 0
    BY <1>2, LenProperties
  <2> QED BY <1>3, <2>1 DEF Recovering
<1>5. FailuresAreRepaired'
  <2> SUFFICES ASSUME NEW i \in DOMAIN adapterQ', adapterQ'[i].type = "response"
               PROVE  UpAfter(adapterQ', i)
    BY DEF FailuresAreRepaired
  <2>1. \A j \in DOMAIN Append(adapterQ, m) : j \in DOMAIN adapterQ \/ Append(adapterQ, m)[j] = m
    BY <1>2, AppendUp
  <2>2. i \in DOMAIN adapterQ
    BY <1>1, <1>2, <2>1
  <2>3. Len(adapterQ) + 1 > i
    BY <1>2, <2>2, AppendUp
  <2> QED BY <1>3, <2>3
<1>6. engine'.up
  BY <1>1 DEF Stopped
<1> QED BY <1>1, <1>4, <1>5, <1>6, ApiStepServes DEF Repaired

LEMMA RequestServes ==
    ASSUME TypeOK, Repaired, ~EngineMayFail, EngineRequest,
           ~SharedEngine \/ Request.op \notin {"startDistance", "stopDistance"}
    PROVE  Repaired' /\ (Serving => Serving')
<1>1. /\ apiQ # <<>> /\ apiQ' = Tail(apiQ)
      /\ Request.op \in {"startFix", "stopFix", "startDistance", "stopDistance"}
      /\ UNCHANGED <<timeBased, nHzNeeded, speAtHighest, hub>>
  BY DEF EngineRequest, Serve, Served, adapterVars, clientVars
<1>2. Reopens(apiQ) => Reopens(apiQ')
  BY <1>1, FirstRequest
<1>3. PICK err \in Errors :
          /\ Answer(err)
          /\ \/ engine.up /\ engine' = Accepted(Request) /\ err = "SUCCESS"
             \/ ~engine.up /\ engine' = engine
  BY DEF EngineRequest, Errors
<1>4. engine.up \/ Reopens(apiQ')
  BY <1>2 DEF Repaired, Serving
<1>5. engine.up => engine'.up
  <2>1. engine \in [up : BOOLEAN, running : BOOLEAN, fix : Options, distance : SUBSET Ids]
    BY DEF TypeOK
  <2>2. Accepted(Request).up = engine.up
    BY <1>1, <2>1 DEF Accepted
  <2> QED BY <1>3, <2>2
<1>6. FailuresAreRepaired' /\ (Recovering => Recovering')
  <2>1. CASE Request.cb = NoCallback
    <3>1. adapterQ' = adapterQ
      BY <1>3, <2>1 DEF Answer
    <3> QED BY <1>2, <3>1 DEF FailuresAreRepaired, Recovering, Repaired
  <2>2. CASE Request.cb # NoCallback
    <3>1. Request.cb \in Callbacks
      BY <1>1, <2>2, FirstRequest, RequestFields DEF MaybeCallback
    <3>2. adapterQ' = Append(adapterQ, [type |-> "response", cb |-> Request.cb, err |-> err])
      BY <1>3, <2>2 DEF Answer
    <3> QED BY <1>2, <1>3, <1>4, <3>1, <3>2, AnswerRepairs DEF Repaired
  <2> QED BY <2>1, <2>2
<1>7. ASSUME NEW n \in Nat, WillRun(n), engine.up PROVE WillRun(n)'
  <2>1. engine \in [up : BOOLEAN, running : BOOLEAN, fix : Options, distance : SUBSET Ids]
    BY DEF TypeOK
  <2>2. engine' = Accepted(Request)
    BY <1>3, <1>7
  <2>3. CASE Asks(Tail(apiQ), n)
    BY <1>1, <2>3 DEF WillRun
  <2>4. CASE /\ Keeps(Tail(apiQ))
             /\ Request.op = "startFix" /\ Request.options.interval <= n
    <3>1. engine'.running /\ engine'.fix = Request.options
      BY <2>1, <2>2, <2>4 DEF Accepted
    <3> QED BY <1>1, <2>4, <3>1 DEF WillRun
  <2>5. CASE Keeps(apiQ) /\ engine.running /\ engine.fix.interval <= n
    <3>1. Request.op \in {"startDistance", "stopDistance"} /\ Keeps(Tail(apiQ))
      BY <1>1, <2>5, FirstRequest DEF Settles
    <3>2. engine'.running = engine.running /\ engine'.fix = engine.fix
      BY <2>1, <2>2, <3>1 DEF Accepted
    <3> QED BY <1>1, <2>5, <3>1, <3>2 DEF WillRun
  <2> QED BY <1>1, <1>7, <2>3, <2>4, <2>5, FirstRequest DEF WillRun
<1>8. \A n \in Nat : WillRun(n) => Recovering' \/ WillRun(n)'
  BY <1>4, <1>7 DEF Recovering
<1> QED BY <1>1, <1>4, <1>5, <1>6, <1>8, ApiStepServes DEF Repaired

LEMMA DownServes ==
    ASSUME TypeOK, Repaired, EngineDown PROVE Repaired' /\ (Serving => Serving')
<1> DEFINE r == [op |-> "ssr"]
<1>1. /\ apiQ' = Append(apiQ, r) /\ adapterQ' = adapterQ
      /\ UNCHANGED <<timeBased, nHzNeeded, speAtHighest, hub>>
  BY DEF EngineDown, adapterVars, clientVars
<1>2. Reopens(apiQ')
  <2>1. r \in ApiMsgs /\ apiQ \in Seq(ApiMsgs)
    BY DEF ApiMsgs, TypeOK
  <2>2. r.op = "ssr"
    OBVIOUS
  <2> HIDE DEF r
  <2>3. Len(apiQ) + 1 \in DOMAIN Append(apiQ, r) /\ Append(apiQ, r)[Len(apiQ) + 1] = r
    BY <2>1, AppendProperties, LenProperties
  <2> QED BY <1>1, <2>2, <2>3 DEF Reopens
<1>3. FailuresAreRepaired' /\ Recovering'
  BY <1>2 DEF FailuresAreRepaired, Recovering
<1> QED BY <1>1, <1>2, <1>3, ApiStepServes DEF Repaired

-----------------------------------------------------------------------------
(* ... and the adapter thread's *)

\* No time-based session is added or changed.
Shrinks == \A k \in DOMAIN timeBased' : k \in DOMAIN timeBased /\ timeBased'[k] = timeBased[k]

LEMMA SessionSteps ==
    ASSUME NEW tb, NEW k, NEW o
    PROVE  /\ UNCHANGED sessionVars => Shrinks
           /\ EraseTrackingSession(k) => Shrinks
           /\ SaveTrackingSession(tb, k, o) /\ IsDistanceBased(o) => timeBased' = tb
           /\ SaveTrackingSession(tb, k, o) /\ ~IsDistanceBased(o) => timeBased' = With(tb, k, o)
           /\ k \in DOMAIN timeBased /\ EraseTrackingSession(k) => timeBased' = Without(timeBased, k)
BY DEF sessionVars, Shrinks, EraseTrackingSession, SaveTrackingSession, Without

\* The requests about distance-based sessions leave the fix session alone.
LEMMA DistanceKeeps ==
    ASSUME NEW k, NEW o, NEW cb
    PROVE  ~Settles(StartDistance(k, o, cb)) /\ ~Settles(StopDistance(k, cb))
BY DEF StartDistance, StopDistance, Settles

\* A message other than engineUp is handled by a request that settles nothing, or none.
LEMMA PlainStep ==
    ASSUME TypeOK, Serves, adapterQ # <<>>, Message.type # "engineUp", Done, Shrinks,
           apiQ' = apiQ \/ \E r \in ApiMsgs : ~Settles(r) /\ apiQ' = Append(apiQ, r),
           UNCHANGED <<speAtHighest, nHzNeeded>>
    PROVE  Serves'
<1>1. apiQ \in Seq(ApiMsgs)
  BY DEF TypeOK
<1>2. PICK d \in Seq(ApiMsgs) : apiQ' = apiQ \o d /\ Keeps(d)
  <2>1. CASE apiQ' = apiQ
    <3>1. /\ <<>> \in Seq(ApiMsgs) /\ apiQ \o <<>> = apiQ
      BY <1>1, EmptySeq, ConcatEmptySeq
    <3>2. Keeps(<<>>)
      BY DEF Keeps
    <3> QED BY <2>1, <3>1, <3>2
  <2>2. ASSUME NEW r \in ApiMsgs, ~Settles(r), apiQ' = Append(apiQ, r)
        PROVE  \E d \in Seq(ApiMsgs) : apiQ' = apiQ \o d /\ Keeps(d)
    <3>1. <<r>> \in Seq(ApiMsgs) /\ apiQ' = apiQ \o <<r>>
      BY <1>1, <2>2, OneRequest, AppendIsConcat
    <3>2. Keeps(<<r>>)
      BY <2>2, OneRequest DEF Keeps
    <3> QED BY <3>1, <3>2
  <2> QED BY <2>1, <2>2
<1>3. FailuresAreRepaired' /\ (Recovering => Recovering')
  BY <1>2, DoneRepairs DEF Serves, Repaired
<1>4. engine' = engine /\ hub' = hub
  BY DEF Done, clientVars
<1> QED BY <1>2, <1>3, <1>4, KeepStep DEF Shrinks

\* A message is handled by the requests of an effect.
LEMMA FixStep ==
    ASSUME TypeOK, Serves, adapterQ # <<>>, Message.type # "engineUp", Done,
           NEW e \in Effects, Post(e), nHzNeeded' = nHzNeeded,
           SpeKept(e), Covers(e.requests, timeBased')
    PROVE  Serves'
<1>1. e.requests \in Seq(ApiMsgs) /\ apiQ \in Seq(ApiMsgs)
  BY DEF Effects, TypeOK
<1>2. FailuresAreRepaired' /\ (Recovering => Recovering')
  BY <1>1, DoneRepairs DEF Post, Serves, Repaired
<1>3. <<>> \in Seq(ApiMsgs) /\ (apiQ \o e.requests) \o <<>> = apiQ \o e.requests
  BY <1>1, EmptySeq, ConcatEmptySeq, ConcatProperties
<1>4. Keeps(<<>>)
  BY DEF Keeps
<1>5. /\ engine' = engine /\ hub' = hub
      /\ apiQ' = (apiQ \o e.requests) \o <<>> /\ speAtHighest' = e.spe
  BY <1>3 DEF Done, clientVars, Post
<1> QED BY <1>2, <1>3, <1>4, <1>5, EffectStep

LEMMA ClientMessagesServe ==
    ASSUME TypeOK, Serves, AddClient \/ RemoveClientStopsOne \/ RemoveClient \/ Defer
    PROVE  Serves'
<1>1. adapterQ # <<>> /\ Message.type # "engineUp"
  BY DEF AddClient, RemoveClientStopsOne, RemoveClient, Defer, Receive
<1>2. CASE AddClient \/ Defer
  <2>1. Done /\ UNCHANGED sessionVars /\ UNCHANGED <<apiQ, speAtHighest, nHzNeeded>>
    BY <1>2 DEF AddClient, Defer
  <2> QED BY <1>1, <2>1, SessionSteps, PlainStep
<1>3. CASE RemoveClientStopsOne
  <2>1. PICK k \in DOMAIN timeBased : \E e \in StopEffects(k) : Post(e) /\ EraseTrackingSession(k)
    BY <1>3 DEF RemoveClientStopsOne
  <2>2. PICK e \in StopEffects(k) : Post(e) /\ EraseTrackingSession(k)
    BY <2>1
  <2>3. e \in Effects /\ SpeKept(e) /\ Covers(e.requests, timeBased')
    BY <2>2, StopTypes, StopServes, SessionSteps
  <2>4. e.requests \in Seq(ApiMsgs) /\ apiQ \in Seq(ApiMsgs)
    BY <2>3 DEF Effects, TypeOK
  <2>5. <<>> \in Seq(ApiMsgs) /\ (apiQ \o e.requests) \o <<>> = apiQ \o e.requests
    BY <2>4, EmptySeq, ConcatEmptySeq, ConcatProperties
  <2>6. Keeps(<<>>)
    BY DEF Keeps
  <2>7. adapterQ' = adapterQ /\ engine' = engine /\ nHzNeeded' = nHzNeeded /\ hub' = hub
    BY <1>3 DEF RemoveClientStopsOne, setupVars, clientVars
  <2>8. apiQ' = (apiQ \o e.requests) \o <<>> /\ speAtHighest' = e.spe
    BY <2>2, <2>5 DEF Post
  <2>9. Reopens(apiQ) => Reopens(apiQ')
    BY <2>4, <2>5, <2>8, ConcatAsks
  <2>10. FailuresAreRepaired' /\ (Recovering => Recovering')
    BY <2>7, <2>9 DEF FailuresAreRepaired, Recovering, Serves, Repaired, Serving
  <2> QED BY <2>3, <2>5, <2>6, <2>7, <2>8, <2>10, EffectStep
<1>4. CASE RemoveClient
  <2> DEFINE mine == {k \in DOMAIN distanceBased : k[1] = Message.client}
             stop(k) == StopDistance(k, Then("clientDistanceStopped", k))
  <2>1. PICK s \in InOrder(mine) : apiQ' = apiQ \o [i \in DOMAIN s |-> stop(s[i])]
    BY <1>4 DEF RemoveClient
  <2> DEFINE d == [i \in DOMAIN s |-> stop(s[i])]
  <2>2. d \in Seq(ApiMsgs)
    <3>0. IsSessionMap(distanceBased)
      BY DEF TypeOK
    <3>1. PICK n \in Nat : DOMAIN s = 1 .. n /\ \A i \in DOMAIN s : s[i] \in Keys
      BY <3>0, InOrderTypes DEF IsSessionMap
    <3>2. ASSUME NEW i \in 1 .. n PROVE d[i] \in ApiMsgs
      <4>1. Then("clientDistanceStopped", s[i]) \in MaybeCallback /\ s[i] \in Keys
        BY <3>1, CallbackTypes DEF MaybeCallback
      <4>2. stop(s[i]) \in ApiMsgs
        BY <4>1 DEF StopDistance, ApiMsgs, Keys
      <4> QED BY <3>1, <4>2
    <3>3. DOMAIN d = 1 .. n /\ d = [i \in 1 .. n |-> d[i]]
      BY <3>1
    <3> HIDE DEF d
    <3> QED BY <3>2, <3>3, MapToSeq
  <2>3. Keeps(d)
    BY DistanceKeeps DEF Keeps
  <2> HIDE DEF mine, stop, d
  <2>4. /\ Done /\ UNCHANGED sessionVars
        /\ speAtHighest' = speAtHighest /\ nHzNeeded' = nHzNeeded
        /\ apiQ' = apiQ \o d
    BY <1>4, <2>1 DEF RemoveClient, d
  <2>5. /\ FailuresAreRepaired' /\ (Recovering => Recovering') /\ Shrinks
        /\ engine' = engine /\ hub' = hub
    BY <1>1, <2>2, <2>4, DoneRepairs, SessionSteps DEF Done, clientVars, Serves, Repaired
  <2> QED BY <2>2, <2>3, <2>4, <2>5, KeepStep DEF Shrinks
<1> QED BY <1>2, <1>3, <1>4

LEMMA StartServesSessions ==
    ASSUME TypeOK, Serves, StartTracking PROVE Serves'
<1> DEFINE k == Message.key
           o == WithFastestInterval(Message.options)
           p == WithPowerFallback(o)
<1>1. /\ adapterQ # <<>> /\ Message.type # "engineUp"
      /\ Done /\ nHzNeeded' = nHzNeeded
  BY DEF StartTracking, Receive
<1>2. k \in Keys /\ Message.options \in Options
  BY <1>1, HeadMessage, MessageFields DEF StartTracking, Receive
<1>3. o \in SessionOptions /\ p \in SessionOptions /\ (IsDistanceBased(p) <=> IsDistanceBased(o))
  <2>1. o \in SessionOptions /\ o \in Options /\ p \in SessionOptions /\ p.distance = o.distance
    BY <1>2, OptionTypes DEF SessionOptions
  <2> QED BY <2>1 DEF IsDistanceBased
<1>4. \/ UNCHANGED <<sessionVars, speAtHighest, apiQ>>
      \/ /\ IsDistanceBased(o) /\ SaveTrackingSession(timeBased, k, o)
         /\ apiQ' = Append(apiQ, StartDistance(k, o, Then("distanceStarted", k)))
         /\ speAtHighest' = speAtHighest
      \/ /\ ~IsDistanceBased(o)
         /\ \E e \in StartEffects(k, p) : Post(e)
         /\ SaveTrackingSession(timeBased, k, p)
  BY DEF StartTracking
<1> HIDE DEF k, o, p
<1>5. CASE UNCHANGED <<sessionVars, speAtHighest, apiQ>>
  BY <1>1, <1>5, SessionSteps, PlainStep
<1>6. CASE /\ IsDistanceBased(o) /\ SaveTrackingSession(timeBased, k, o)
           /\ apiQ' = Append(apiQ, StartDistance(k, o, Then("distanceStarted", k)))
           /\ speAtHighest' = speAtHighest
  <2>1. timeBased' = timeBased
    BY <1>6, SessionSteps
  <2>2. StartDistance(k, o, Then("distanceStarted", k)) \in ApiMsgs
    BY <1>2, <1>3, CallbackTypes, RequestTypes DEF MaybeCallback, SessionOptions
  <2> QED BY <1>1, <1>6, <2>1, <2>2, DistanceKeeps, PlainStep DEF Shrinks
<1>7. ASSUME ~IsDistanceBased(o), NEW e \in StartEffects(k, p), Post(e),
             SaveTrackingSession(timeBased, k, p)
      PROVE  Serves'
  <2>1. e \in Effects
    BY <1>2, <1>3, <1>7, StartTypes
  <2>2. SpeKept(e) /\ Covers(e.requests, timeBased')
    BY <1>2, <1>3, <1>7, StartServes, SessionSteps
  <2> QED BY <1>1, <1>7, <2>1, <2>2, FixStep
<1> QED BY <1>4, <1>5, <1>6, <1>7

LEMMA StopServesSessions ==
    ASSUME TypeOK, Serves, StopTracking PROVE Serves'
<1> DEFINE k == Message.key
<1>1. /\ adapterQ # <<>> /\ Message.type # "engineUp"
      /\ Done /\ nHzNeeded' = nHzNeeded
  BY DEF StopTracking, Receive
<1>2. k \in Keys
  BY <1>1, HeadMessage, MessageFields DEF StopTracking, Receive
<1>3. \/ /\ k \in DOMAIN timeBased
         /\ \E e \in StopEffects(k) : Post(e)
         /\ EraseTrackingSession(k)
      \/ /\ apiQ' = Append(apiQ, StopDistance(k, Then("distanceStopped", k)))
         /\ UNCHANGED <<sessionVars, speAtHighest>>
      \/ UNCHANGED <<sessionVars, speAtHighest, apiQ>>
  BY DEF StopTracking
<1> HIDE DEF k
<1>4. ASSUME k \in DOMAIN timeBased, NEW e \in StopEffects(k), Post(e), EraseTrackingSession(k)
      PROVE  Serves'
  <2>1. e \in Effects /\ SpeKept(e) /\ Covers(e.requests, timeBased')
    BY <1>4, StopTypes, StopServes, SessionSteps
  <2> QED BY <1>1, <1>4, <2>1, FixStep
<1>5. CASE /\ apiQ' = Append(apiQ, StopDistance(k, Then("distanceStopped", k)))
           /\ UNCHANGED <<sessionVars, speAtHighest>>
  <2>1. StopDistance(k, Then("distanceStopped", k)) \in ApiMsgs
    BY <1>2, CallbackTypes, RequestTypes, OptionTypes DEF MaybeCallback
  <2> QED BY <1>1, <1>5, <2>1, SessionSteps, DistanceKeeps, PlainStep
<1>6. CASE UNCHANGED <<sessionVars, speAtHighest, apiQ>>
  BY <1>1, <1>6, SessionSteps, PlainStep
<1> QED BY <1>3, <1>4, <1>5, <1>6

LEMMA UpdateServesSessions ==
    ASSUME TypeOK, Serves, UpdateTracking, DistanceSupported \/ Message.options.distance = 0
    PROVE  Serves'
<1> DEFINE k == Message.key
           o == WithFastestInterval(WithPowerFallback(Message.options))
<1>1. /\ adapterQ # <<>> /\ Message.type # "engineUp"
      /\ Done /\ nHzNeeded' = nHzNeeded
  BY DEF UpdateTracking, Receive
<1>2. k \in Keys /\ Message.options \in Options
  BY <1>1, HeadMessage, MessageFields DEF UpdateTracking, Receive
<1>3. o \in SessionOptions /\ o \in Options /\ (IsDistanceBased(o) <=> o.distance > 0)
      /\ (o.distance = 0 => ~(o.distance > 0))
  BY <1>2, OptionTypes DEF SessionOptions, Options, IsDistanceBased
<1>4. \/ UNCHANGED <<sessionVars, speAtHighest, apiQ>>
      \/ /\ k \in DOMAIN timeBased /\ o.distance > 0
         /\ \E e \in StopEffects(k) :
               /\ apiQ' = (apiQ \o e.requests) \o << StartDistance(k, o, NoCallback) >>
               /\ speAtHighest' = e.spe
         /\ SaveTrackingSession(Without(timeBased, k), k, o)
      \/ /\ EraseTrackingSession(k) /\ o.distance = 0
         /\ apiQ' = Append(apiQ, StopDistance(k, ThenWith("switchToTime", k, o)))
         /\ speAtHighest' = speAtHighest
      \/ /\ k \in DOMAIN timeBased /\ o.distance = 0
         /\ \E e \in UpdateEffects(k, o) : Post(e)
         /\ SaveTrackingSession(timeBased, k, o)
      \/ /\ o.distance > 0
         /\ apiQ' = Append(apiQ, StopDistance(k, ThenWith("restartDistance", k, o)))
         /\ UNCHANGED <<sessionVars, speAtHighest>>
  BY DEF UpdateTracking
<1> HIDE DEF k, o
<1>5. CASE UNCHANGED <<sessionVars, speAtHighest, apiQ>>
  BY <1>1, <1>5, SessionSteps, PlainStep
<1>6. ASSUME k \in DOMAIN timeBased, o.distance > 0, NEW e \in StopEffects(k),
             apiQ' = (apiQ \o e.requests) \o << StartDistance(k, o, NoCallback) >>,
             speAtHighest' = e.spe, SaveTrackingSession(Without(timeBased, k), k, o)
      PROVE  Serves'
  <2> DEFINE d == << StartDistance(k, o, NoCallback) >>
  <2>1. timeBased' = Without(timeBased, k)
    BY <1>3, <1>6, SessionSteps
  <2>2. e \in Effects /\ SpeKept(e) /\ Covers(e.requests, timeBased')
    BY <1>6, <2>1, StopTypes, StopServes
  <2>3. StartDistance(k, o, NoCallback) \in ApiMsgs
    BY <1>2, <1>3, RequestTypes DEF MaybeCallback
  <2>4. d \in Seq(ApiMsgs) /\ Keeps(d)
    BY <2>3, OneRequest, DistanceKeeps DEF Keeps
  <2>5. apiQ' = (apiQ \o e.requests) \o d
    BY <1>6
  <2> HIDE DEF d
  <2>6. e.requests \in Seq(ApiMsgs) /\ apiQ \in Seq(ApiMsgs)
    BY <2>2 DEF Effects, TypeOK
  <2>7. e.requests \o d \in Seq(ApiMsgs) /\ apiQ' = apiQ \o (e.requests \o d)
    BY <2>4, <2>5, <2>6, ConcatProperties, RequestsAssociate
  <2>8. FailuresAreRepaired' /\ (Recovering => Recovering')
    BY <1>1, <2>7, DoneRepairs DEF Serves, Repaired
  <2>9. engine' = engine /\ hub' = hub
    BY <1>1 DEF Done, clientVars
  <2> QED BY <1>1, <1>6, <2>2, <2>4, <2>5, <2>8, <2>9, EffectStep
<1>7. CASE /\ EraseTrackingSession(k) /\ o.distance = 0
           /\ apiQ' = Append(apiQ, StopDistance(k, ThenWith("switchToTime", k, o)))
           /\ speAtHighest' = speAtHighest
  <2>1. StopDistance(k, ThenWith("switchToTime", k, o)) \in ApiMsgs
    BY <1>2, <1>3, <1>7, CallbackTypes, RequestTypes DEF MaybeCallback
  <2> QED BY <1>1, <1>7, <2>1, SessionSteps, DistanceKeeps, PlainStep
<1>8. ASSUME k \in DOMAIN timeBased, o.distance = 0, NEW e \in UpdateEffects(k, o), Post(e),
             SaveTrackingSession(timeBased, k, o)
      PROVE  Serves'
  <2>1. timeBased' = With(timeBased, k, o)
    BY <1>3, <1>8, SessionSteps
  <2>2. e \in Effects /\ SpeKept(e) /\ Covers(e.requests, timeBased')
    BY <1>2, <1>3, <1>8, <2>1, UpdateTypes, UpdateServes
  <2> QED BY <1>1, <1>8, <2>2, FixStep
<1>9. CASE /\ o.distance > 0
           /\ apiQ' = Append(apiQ, StopDistance(k, ThenWith("restartDistance", k, o)))
           /\ UNCHANGED <<sessionVars, speAtHighest>>
  <2>1. StopDistance(k, ThenWith("restartDistance", k, o)) \in ApiMsgs
    BY <1>2, <1>3, <1>9, CallbackTypes, RequestTypes DEF MaybeCallback
  <2> QED BY <1>1, <1>9, <2>1, SessionSteps, DistanceKeeps, PlainStep
<1> QED BY <1>4, <1>5, <1>6, <1>7, <1>8, <1>9

LEMMA ResponsesServe ==
    ASSUME TypeOK, Serves, DistanceSupported \/ Message.cb.then # "distanceRestarted",
           FixStarted \/ FixUpdated \/ FixStopped \/ DistanceStarted \/ DistanceStopped
             \/ ClientDistanceStopped \/ SwitchToTime \/ RestartDistance \/ DistanceRestarted
    PROVE  Serves'
<1> DEFINE k == Message.cb.key
           o == Message.cb.options
<1>1. /\ adapterQ # <<>> /\ Message.type = "response"
      /\ Done /\ nHzNeeded' = nHzNeeded
  BY DEF FixStarted, FixUpdated, FixStopped, DistanceStarted, DistanceStopped,
         ClientDistanceStopped, SwitchToTime, RestartDistance, DistanceRestarted,
         Response, Receive, setupVars
<1>2. Message.cb \in Callbacks /\ k \in Keys
  BY <1>1, HeadMessage, MessageFields, CallbackFields
<1>3. ASSUME FixStarted \/ FixStopped \/ DistanceStarted \/ DistanceStopped \/ ClientDistanceStopped
      PROVE  Serves'
  <2>1. /\ EraseTrackingSession(k) \/ UNCHANGED sessionVars
        /\ UNCHANGED <<speAtHighest, apiQ>>
    BY <1>3 DEF FixStarted, FixStopped, DistanceStarted, DistanceStopped, ClientDistanceStopped
  <2> HIDE DEF k
  <2> QED BY <1>1, <2>1, SessionSteps, PlainStep
<1>4. CASE FixUpdated
  <2>1. CASE ~Failed
    <3>1. UNCHANGED sessionVars /\ UNCHANGED <<speAtHighest, apiQ>>
      BY <1>4, <2>1 DEF FixUpdated
    <3> QED BY <1>1, <3>1, SessionSteps, PlainStep
  <2>2. CASE Failed
    <3>1. UNCHANGED <<speAtHighest, apiQ>> /\ engine' = engine /\ hub' = hub
      BY <1>4, <1>1 DEF FixUpdated, Done, clientVars
    <3>2. apiQ \in Seq(ApiMsgs) /\ <<>> \in Seq(ApiMsgs) /\ apiQ \o <<>> = apiQ
      BY EmptySeq, ConcatEmptySeq DEF TypeOK
    <3>3. apiQ' = apiQ \o <<>>
      BY <3>1, <3>2
    <3>4. FailuresAreRepaired' /\ Recovering'
      BY <1>1, <2>2, <3>2, <3>3, DoneRepairs DEF Failed, Serves, Repaired
    <3>5. speAtHighest' => nHzNeeded' \/ hub.at = "restarting"
      BY <1>1, <3>1 DEF Serves, Repaired, Serving
    <3> QED BY <3>1, <3>2, <3>3, <3>4, <3>5, StepServes
  <2> QED BY <2>1, <2>2
<1>5. CASE SwitchToTime
  <2>1. o \in SessionOptions /\ o.distance = 0
    BY <1>2, <1>5, CallbackFields DEF SwitchToTime, Response
  <2>2. PICK e \in StartEffects(k, o) : Post(e)
    BY <1>5 DEF SwitchToTime
  <2>3. SaveTrackingSession(timeBased, k, o)
    BY <1>5 DEF SwitchToTime
  <2> HIDE DEF k, o
  <2>4. ~IsDistanceBased(o)
    BY <2>1 DEF IsDistanceBased
  <2>5. e \in Effects /\ SpeKept(e) /\ Covers(e.requests, timeBased')
    BY <1>2, <2>1, <2>2, <2>3, <2>4, StartTypes, StartServes, SessionSteps
  <2> QED BY <1>1, <2>2, <2>5, FixStep
<1>6. CASE RestartDistance
  <2>1. o \in SessionOptions /\ o.distance > 0
    BY <1>2, <1>6, CallbackFields DEF RestartDistance, Response
  <2>2. /\ \/ apiQ' = apiQ
           \/ apiQ' = Append(apiQ, StartDistance(k, o, ThenWith("distanceRestarted", k, o)))
        /\ UNCHANGED <<sessionVars, speAtHighest>>
    BY <1>6 DEF RestartDistance
  <2> HIDE DEF k, o
  <2>3. StartDistance(k, o, ThenWith("distanceRestarted", k, o)) \in ApiMsgs
    BY <1>2, <2>1, CallbackTypes, RequestTypes DEF MaybeCallback, SessionOptions
  <2> QED BY <1>1, <2>2, <2>3, SessionSteps, DistanceKeeps, PlainStep
<1>7. CASE DistanceRestarted
  <2>1. o \in SessionOptions /\ o.distance > 0
    BY <1>2, <1>7, CallbackFields DEF DistanceRestarted, Response
  <2>2. /\ SaveTrackingSession(timeBased, k, o) \/ UNCHANGED sessionVars
        /\ UNCHANGED <<speAtHighest, apiQ>>
    BY <1>7 DEF DistanceRestarted
  <2> HIDE DEF k, o
  <2>3. IsDistanceBased(o)
    BY <1>7, <2>1 DEF IsDistanceBased, DistanceRestarted, Response
  <2>4. Shrinks
    BY <2>2, <2>3, SessionSteps DEF Shrinks
  <2> QED BY <1>1, <2>2, <2>4, PlainStep
<1> QED BY <1>3, <1>4, <1>5, <1>6, <1>7

\* Whatever restarts the sessions serves them.
LEMMA RestartsServe ==
    ASSUME TypeOK, Serves, EngineUp \/ Reconfigure
    PROVE  Serves'
<1>1. adapterQ # <<>> /\ Message \in AdapterMsgs /\ apiQ \in Seq(ApiMsgs)
  <2>1. adapterQ # <<>>
    BY DEF EngineUp, Reconfigure, Receive
  <2> QED BY <2>1, HeadMessage DEF TypeOK
<1>2. nHzNeeded \in BOOLEAN
  BY DEF TypeOK
<1>3. CASE EngineUp
  <2>1. PICK e \in RestartEffects(nHzNeeded) : Post(e)
    BY <1>3 DEF EngineUp
  <2>2. /\ e.requests \in Seq(ApiMsgs)
        /\ \A k \in DOMAIN timeBased : Asks(e.requests, timeBased[k].interval)
        /\ e.spe => nHzNeeded /\ Asks(e.requests, MinInterval)
    BY <1>2, <2>1, RestartTypes, RestartServes DEF Effects
  <2> DEFINE p == [i \in DOMAIN pendingMsgs |-> pendingMsgs[i].msg]
  <2>3. p \in Seq(AdapterMsgs) /\ \A i \in DOMAIN p : p[i].type # "response"
    <3>0. pendingMsgs \in Seq([msg : Commands, sent : BOOLEAN])
      BY DEF TypeOK
    <3>1. /\ \A i \in DOMAIN pendingMsgs : pendingMsgs[i] \in [msg : Commands, sent : BOOLEAN]
          /\ Len(pendingMsgs) \in Nat /\ DOMAIN pendingMsgs = 1 .. Len(pendingMsgs)
      BY <3>0, LenProperties
    <3>2. \A m \in Commands : m \in AdapterMsgs /\ m.type # "response"
      BY DEF Commands, AdapterMsgs
    <3> QED BY <3>1, <3>2
  <2> HIDE DEF p
  <2>4. /\ adapterQ' = Tail(adapterQ) \o p /\ apiQ' = apiQ \o e.requests
        /\ engine' = engine /\ timeBased' = timeBased /\ nHzNeeded' = nHzNeeded
        /\ speAtHighest' = e.spe /\ hub' = hub
    BY <1>3, <2>1 DEF EngineUp, Post, sessionVars, clientVars, p
  <2>5. Reopens(apiQ) => Reopens(apiQ')
    BY <1>1, <2>2, <2>4, ConcatAsks
  <2>6. FailuresAreRepaired'
    BY <1>1, <2>3, <2>4, <2>5, ConsumeRepairs DEF Serves, Repaired
  <2> QED BY <2>2, <2>4, <2>6, StepServes
<1>4. CASE Reconfigure
  <2>1. PICK e \in RestartEffects(nHzNeeded) :
            /\ apiQ' = (apiQ \o (IF DOMAIN timeBased = {} THEN <<>> ELSE << StopFix(NoCallback) >>))
                            \o e.requests
            /\ speAtHighest' = e.spe
    BY <1>4 DEF Reconfigure
  <2>2. /\ e.requests \in Seq(ApiMsgs)
        /\ \A k \in DOMAIN timeBased : Asks(e.requests, timeBased[k].interval)
        /\ e.spe => nHzNeeded /\ Asks(e.requests, MinInterval)
    BY <1>2, <2>1, RestartTypes, RestartServes DEF Effects
  <2>3. PICK x \in Seq(ApiMsgs) : apiQ' = (apiQ \o x) \o e.requests
    <3>1. StopFix(NoCallback) \in ApiMsgs
      BY RequestTypes DEF MaybeCallback, StopFix, ApiMsgs
    <3>2. <<>> \in Seq(ApiMsgs) /\ << StopFix(NoCallback) >> \in Seq(ApiMsgs)
      BY <3>1, EmptySeq, OneRequest
    <3> QED BY <2>1, <3>2
  <2> DEFINE r == x \o e.requests
  <2>4. r \in Seq(ApiMsgs) /\ apiQ' = apiQ \o r
    BY <1>1, <2>2, <2>3, ConcatProperties, RequestsAssociate
  <2>5. \A n : Asks(e.requests, n) => Asks(r, n)
    BY <2>2, <2>3, ConcatAsks
  <2> HIDE DEF r
  <2>6. /\ Done /\ engine' = engine /\ timeBased' = timeBased /\ nHzNeeded' = nHzNeeded
        /\ speAtHighest' = e.spe /\ hub' = hub
    BY <1>4, <2>1 DEF Reconfigure, Done, sessionVars, clientVars
  <2>7. FailuresAreRepaired'
    BY <1>1, <2>4, <2>6, DoneRepairs DEF Serves, Repaired
  <2> QED BY <2>2, <2>4, <2>5, <2>6, <2>7, StepServes
<1> QED BY <1>3, <1>4

LEMMA InitServes == Init => ServesInv
<1> SUFFICES ASSUME Init PROVE ServesInv
  OBVIOUS
<1>1. /\ adapterQ = <<>> /\ apiQ = << [op |-> "open"] >> /\ speAtHighest = FALSE
      /\ timeBased = <<>> /\ hub.at = "idle"
  BY DEF Init
<1>2. Reopens(apiQ)
  <2>1. 1 \in DOMAIN apiQ /\ apiQ[1].op = "open"
    BY <1>1
  <2> QED BY <2>1 DEF Reopens
<1>3. Recovering
  BY <1>2 DEF Recovering
<1> QED BY <1>1, <1>2, <1>3 DEF ServesInv, Repaired, FailuresAreRepaired, Serving

\* At rest, the promise of the inductive invariant is about the engine as it runs.
LEMMA ServesAtRest == TypeOK /\ ServesInv => EngineServes
<1> SUFFICES ASSUME TypeOK, Serving, adapterQ = <<>>, apiQ = <<>>, DOMAIN timeBased # {}
             PROVE  engine.running /\ Fast(engine.fix)
  BY DEF EngineServes, Quiet, ServesInv
<1>1. ~Recovering
  BY DEF Recovering, Reopens, UpAfter
<1>2. \A n : ~Asks(apiQ, n)
  BY DEF Asks
<1>3. \A k \in DOMAIN timeBased : engine.running /\ engine.fix.interval <= timeBased[k].interval
  BY <1>1, <1>2 DEF Serving, WillRun
<1> QED BY <1>3 DEF Fast

\* A message that is handled leaves repaired what was to be repaired.
LEMMA HandlerRepairs ==
    ASSUME TypeOK, Repaired, Handler
    PROVE  Repaired'
<1>1. PICK r \in Seq(ApiMsgs), p \in Seq(AdapterMsgs) : Moves(r, p)
  BY HandlerMoves
<1>2. /\ adapterQ # <<>> /\ apiQ' = apiQ \o r /\ engine' = engine
      /\ adapterQ' = adapterQ \/ adapterQ' = Tail(adapterQ) \o p
      /\ \A i \in DOMAIN p : p[i].type # "response"
  BY <1>1 DEF Moves, Commands
<1>3. Reopens(apiQ) => Reopens(apiQ')
  BY <1>2, ConcatAsks DEF TypeOK
<1>4. CASE adapterQ' = adapterQ
  BY <1>2, <1>3, <1>4 DEF Repaired, FailuresAreRepaired
<1>5. CASE adapterQ' = Tail(adapterQ) \o p
  BY <1>2, <1>3, <1>5, ConsumeRepairs DEF Repaired
<1> QED BY <1>2, <1>4, <1>5

\* The engine goes on serving while the hub is not about to request something, as long as
\* distance-based sessions, if there are any, are kept apart: the engine runs them beside
\* the fix session, and the adapter in their own map.
LEMMA HandlerServes ==
    ASSUME TypeOK, Serves, Handler,
           DistanceSupported \/ ~UpdateTracking \/ Message.options.distance = 0,
           DistanceSupported \/ ~DistanceRestarted
    PROVE  Serves'
<1>1. CASE AddClient \/ RemoveClientStopsOne \/ RemoveClient \/ Defer
  BY <1>1, ClientMessagesServe
<1>2. CASE StartTracking \/ UpdateTracking \/ StopTracking
  BY <1>2, StartServesSessions, UpdateServesSessions, StopServesSessions
<1>3. CASE EngineUp \/ Reconfigure
  BY <1>3, RestartsServe
<1>4. CASE \/ FixStarted \/ FixUpdated \/ FixStopped \/ DistanceStarted \/ DistanceStopped
           \/ ClientDistanceStopped \/ SwitchToTime \/ RestartDistance
  <2>1. Message.cb.then # "distanceRestarted"
    BY <1>4 DEF FixStarted, FixUpdated, FixStopped, DistanceStarted, DistanceStopped,
                ClientDistanceStopped, SwitchToTime, RestartDistance, Response
  <2> QED BY <1>4, <2>1, ResponsesServe
<1>5. CASE DistanceRestarted
  BY <1>5, ResponsesServe
<1> QED BY <1>1, <1>2, <1>3, <1>4, <1>5 DEF Handler

\* Only the hub changes what it needs, and what it will request.
LEMMA HandlerKeepsHub == TypeOK /\ Handler => nHzNeeded' = nHzNeeded /\ hub' = hub
<1> SUFFICES ASSUME TypeOK, Handler PROVE nHzNeeded' = nHzNeeded /\ hub' = hub
  OBVIOUS
<1>1. hub' = hub
  BY HandlerMoves DEF Moves
<1>2. nHzNeeded' = nHzNeeded
  BY DEF Handler, AddClient, RemoveClientStopsOne, RemoveClient, Defer, StartTracking,
         UpdateTracking, StopTracking, EngineUp, Reconfigure, FixStarted, FixUpdated,
         FixStopped, DistanceStarted, DistanceStopped, ClientDistanceStopped, SwitchToTime,
         RestartDistance, DistanceRestarted, setupVars
<1> QED BY <1>1, <1>2

\* The hub serves the sessions it read, and requests what it promised.
LEMMA HubServes ==
    ASSUME TypeOK, ServesInv, Hub
    PROVE  ServesInv'
<1>1. adapterQ' = adapterQ /\ engine' = engine /\ raced' = raced /\ timeBased' = timeBased
  BY DEF Hub, NHzRequirement, HubReads, HubPosts, historyVars, sessionVars, adapterVars
<1>2. CASE NHzRequirement
  <2>1. /\ apiQ' = apiQ /\ speAtHighest' = speAtHighest /\ nHzNeeded' = ~nHzNeeded
        /\ hub.at = "idle" /\ hub'.at = "restarting"
    BY <1>2 DEF NHzRequirement, TypeOK
  <2>2. Repaired'
    BY <1>1, <2>1 DEF ServesInv, Repaired, FailuresAreRepaired
  <2>3. Recovering' = Recovering /\ \A n : WillRun(n)' = WillRun(n)
    BY <1>1, <2>1 DEF Recovering, WillRun
  <2>4. Serving => Serving'
    <3> SUFFICES ASSUME Serving PROVE Serving'
      OBVIOUS
    <3>1. Recovering' \/ \A k \in DOMAIN timeBased' : WillRun(timeBased[k].interval)'
      BY <1>1, <2>3 DEF Serving
    <3>2. ~nHzNeeded' \/ ~speAtHighest
      BY <2>1 DEF Serving, TypeOK
    <3> QED BY <2>1, <3>1, <3>2 DEF Serving
  <2> QED BY <1>1, <2>1, <2>2, <2>4 DEF ServesInv
<1>3. CASE HubReads
  <2>1. PICK e \in RestartEffects(nHzNeeded) :
            /\ hub' = [hub EXCEPT !.at = "posting", !.requests = e.requests]
            /\ speAtHighest' = e.spe
    BY <1>3 DEF HubReads
  <2>2. /\ apiQ' = apiQ /\ nHzNeeded' = nHzNeeded /\ hub'.at = "posting"
        /\ hub'.requests = e.requests
    BY <1>3, <2>1 DEF HubReads, setupVars, TypeOK
  <2>3. /\ \A k \in DOMAIN timeBased : Asks(e.requests, timeBased[k].interval)
        /\ e.spe => nHzNeeded /\ Asks(e.requests, MinInterval)
    BY <2>1, RestartServes DEF TypeOK
  <2>4. HubWillServe'
    BY <1>1, <2>1, <2>2, <2>3 DEF HubWillServe
  <2>5. Repaired'
    BY <1>1, <2>2 DEF ServesInv, Repaired, FailuresAreRepaired
  <2> QED BY <2>2, <2>4, <2>5 DEF ServesInv
<1>4. CASE HubPosts
  <2>1. /\ apiQ' = apiQ \o hub.requests /\ hub.at = "posting" /\ hub'.at = "idle"
        /\ nHzNeeded' = nHzNeeded /\ speAtHighest' = speAtHighest
    BY <1>4 DEF HubPosts, adapterVars, TypeOK
  <2>2. hub.requests \in Seq(ApiMsgs) /\ apiQ \in Seq(ApiMsgs)
    BY DEF TypeOK
  <2>3. \A n : Asks(hub.requests, n) => WillRun(n)'
    BY <2>1, <2>2, ConcatAsks DEF WillRun
  <2>4. HubWillServe => Serving'
    BY <1>1, <2>1, <2>3 DEF HubWillServe, Serving
  <2>5. Repaired'
    <3>1. Reopens(apiQ) => Reopens(apiQ')
      BY <2>1, <2>2, ConcatAsks
    <3> QED BY <1>1, <3>1 DEF ServesInv, Repaired, FailuresAreRepaired
  <2> QED BY <1>1, <2>1, <2>4, <2>5 DEF ServesInv
<1> QED BY <1>2, <1>3, <1>4 DEF Hub

\* Every step keeps the promise.
LEMMA ServesStep ==
    ASSUME TypeOK, ServesInv, [Next]_vars, ~EngineMayFail,
           DistanceSupported \/ ~UpdateTracking \/ Message.options.distance = 0,
           DistanceSupported \/ ~DistanceRestarted,
           ~SharedEngine \/ ~EngineRequest \/ Request.op \notin {"startDistance", "stopDistance"}
    PROVE  ServesInv'
<1>1. CASE UNCHANGED vars
  <2>1. UNCHANGED <<adapterQ, apiQ, engine, timeBased, nHzNeeded, speAtHighest, hub, raced>>
    BY <1>1 DEF vars
  <2> QED BY <2>1 DEF ServesInv, Repaired, FailuresAreRepaired, Serving, HubWillServe,
                       Recovering, WillRun
<1>2. CASE Client
  BY <1>2, ClientServes
<1>3. CASE AdapterThread
  <2>1. Handler
    BY <1>3 DEF AdapterThread
  <2>2. Repaired'
    BY <2>1, HandlerRepairs DEF ServesInv
  <2>3. nHzNeeded' = nHzNeeded /\ hub' = hub
    BY <2>1, HandlerKeepsHub
  <2>4. raced' \/ (~raced /\ (hub.at = "posting" => UNCHANGED <<timeBased, speAtHighest>>))
    BY <1>3 DEF AdapterThread
  <2>5. CASE raced'
    BY <2>2, <2>5 DEF ServesInv
  <2>6. CASE ~raced /\ hub.at = "posting" /\ UNCHANGED <<timeBased, speAtHighest>>
    BY <2>2, <2>3, <2>6 DEF ServesInv, HubWillServe
  <2>7. CASE ~raced /\ hub.at # "posting"
    <3>1. Serves'
      BY <2>1, <2>7, HandlerServes DEF Serves, ServesInv
    <3> QED BY <2>3, <2>7, <3>1 DEF Serves, ServesInv
  <2> QED BY <2>4, <2>5, <2>6, <2>7
<1>4. CASE Hub
  BY <1>4, HubServes
<1>5. CASE ApiThread \/ EngineDown
  <2>1. UNCHANGED <<timeBased, nHzNeeded, speAtHighest, hub, raced>>
    BY <1>5 DEF ApiThread, Open, EngineRequest, Served, EngineDown, clientVars, adapterVars,
                historyVars
  <2>2. Repaired' /\ (Serving => Serving')
    BY <1>5, OpenServes, RequestServes, DownServes DEF ApiThread, ServesInv
  <2> QED BY <2>1, <2>2 DEF ServesInv, HubWillServe
<1> QED BY <1>1, <1>2, <1>3, <1>4, <1>5 DEF Next

\* An engine with a fix session of its own, which refuses no request while it is up.
DedicatedEngine == ~EngineMayFail /\ ~SharedEngine

\* Whatever the interleaving of clients, threads and engine crashes: every step keeps
\* the promise that the fix session will run fast enough for all time-based sessions
\* (startTimeBasedTrackingMultiplex, updateTrackingMultiplex, stopTimeBasedTrackingMultiplex,
\* checkAndRestartSPESession).
THEOREM ServesInductive ==
    ASSUME DedicatedEngine, DistanceSupported
    PROVE  Spec => []ServesInv
<1>1. TypeOK /\ ServesInv /\ [Next]_vars => ServesInv'
  BY ServesStep DEF DedicatedEngine
<1> QED BY <1>1, InitServes, TypeCorrect, PTL DEF Spec

\* Once both threads are idle, the fix session runs at least as fast as every
\* time-based session asks, for any number of clients, sessions, calls and crashes of
\* an engine that refuses no request while it is up.
THEOREM EngineServesEveryone ==
    ASSUME DedicatedEngine, DistanceSupported
    PROVE  Spec => []EngineServes
BY ServesInductive, TypeCorrect, ServesAtRest, PTL
-----------------------------------------------------------------------------
(* How many elements of a queue are of some kind                            *)

MarksIn(q, S) == {i \in DOMAIN q : q[i] \in S}
Marked(q, S) == Cardinality(MarksIn(q, S))

LEMMA MarkedTypes ==
    ASSUME NEW T, NEW q \in Seq(T), NEW S
    PROVE  IsFiniteSet(MarksIn(q, S)) /\ Marked(q, S) \in Nat
<1>1. Len(q) \in Nat /\ DOMAIN q = 1..Len(q)
  OBVIOUS
<1>2. IsFiniteSet(1..Len(q)) /\ MarksIn(q, S) \in SUBSET (1..Len(q))
  BY <1>1, FS_Interval DEF MarksIn
<1>3. IsFiniteSet(MarksIn(q, S))
  BY <1>2, FS_Subset
<1> QED BY <1>3, FS_CardinalityType DEF Marked

LEMMA MarkedSame ==
    ASSUME NEW p, NEW q, NEW S, NEW U, DOMAIN p = DOMAIN q,
           \A i \in DOMAIN p : p[i] \in S <=> q[i] \in U
    PROVE  Marked(p, S) = Marked(q, U)
<1>1. MarksIn(p, S) = MarksIn(q, U)
  BY DEF MarksIn
<1> QED BY <1>1 DEF Marked

LEMMA MarkedNone ==
    ASSUME NEW q, NEW S, \A i \in DOMAIN q : q[i] \notin S
    PROVE  Marked(q, S) = 0
<1>1. MarksIn(q, S) = {}
  BY DEF MarksIn
<1> QED BY <1>1, FS_EmptySet DEF Marked

LEMMA MarkedOne ==
    ASSUME NEW m, NEW S
    PROVE  Marked(<<m>>, S) = IF m \in S THEN 1 ELSE 0
<1>1. DOMAIN <<m>> = {1} /\ <<m>>[1] = m
  OBVIOUS
<1>2. MarksIn(<<m>>, S) = IF m \in S THEN {1} ELSE {}
  BY <1>1 DEF MarksIn
<1> QED BY <1>2, FS_EmptySet, FS_Singleton DEF Marked

LEMMA MarkedJoined ==
    ASSUME NEW T, NEW q \in Seq(T), NEW s \in Seq(T), NEW S
    PROVE  Marked(q \o s, S) = Marked(q, S) + Marked(s, S)
<1> DEFINE n == Len(q)
           A == MarksIn(q, S)
           B == MarksIn(s, S)
           C == {n + i : i \in B}
<1>1. n \in Nat /\ Len(s) \in Nat /\ q \o s \in Seq(T) /\ Len(q \o s) = n + Len(s)
      /\ DOMAIN q = 1..n /\ DOMAIN s = 1..Len(s) /\ DOMAIN (q \o s) = 1..(n + Len(s))
  BY ConcatProperties
<1>2. /\ \A i \in 1..n : (q \o s)[i] = q[i]
      /\ \A i \in 1..Len(s) : (q \o s)[n + i] = s[i]
  <2>1. \A i \in 1..(n + Len(s)) : (q \o s)[i] = IF i <= n THEN q[i] ELSE s[i - n]
    BY <1>1, ConcatProperties
  <2>2. ASSUME NEW i \in 1..Len(s) PROVE (q \o s)[n + i] = s[i]
    <3>1. n + i \in 1..(n + Len(s)) /\ ~(n + i <= n) /\ (n + i) - n = i
      BY <1>1
    <3> QED BY <2>1, <3>1
  <2> QED BY <1>1, <2>1, <2>2
<1>3. A \subseteq 1..n /\ B \subseteq 1..Len(s)
  BY <1>1 DEF MarksIn
<1>4. MarksIn(q \o s, S) = A \cup C
  <2>1. ASSUME NEW j \in MarksIn(q \o s, S) PROVE j \in A \cup C
    <3>1. j \in 1..(n + Len(s)) /\ (q \o s)[j] \in S
      BY <1>1, <2>1 DEF MarksIn
    <3>2. CASE j \in 1..n
      BY <1>1, <1>2, <3>1, <3>2 DEF MarksIn
    <3>3. CASE j \notin 1..n
      <4>1. j - n \in 1..Len(s) /\ n + (j - n) = j
        BY <1>1, <3>1, <3>3
      <4>2. j - n \in B
        BY <1>1, <1>2, <3>1, <4>1 DEF MarksIn
      <4> QED BY <4>1, <4>2
    <3> QED BY <3>2, <3>3
  <2>2. ASSUME NEW j \in A PROVE j \in MarksIn(q \o s, S)
    <3>1. j \in 1..n /\ q[j] \in S
      BY <1>3 DEF MarksIn
    <3>2. j \in 1..(n + Len(s))
      BY <1>1, <3>1
    <3> QED BY <1>1, <1>2, <3>1, <3>2 DEF MarksIn
  <2>3. ASSUME NEW i \in B PROVE n + i \in MarksIn(q \o s, S)
    <3>1. i \in 1..Len(s) /\ s[i] \in S
      BY <1>3 DEF MarksIn
    <3>2. n + i \in 1..(n + Len(s))
      BY <1>1, <3>1
    <3> QED BY <1>1, <1>2, <3>1, <3>2 DEF MarksIn
  <2> QED BY <2>1, <2>2, <2>3
<1>5. IsFiniteSet(A) /\ IsFiniteSet(B) /\ Cardinality(A) \in Nat /\ Cardinality(B) \in Nat
  BY MarkedTypes DEF Marked
<1>6. IsFiniteSet(C) /\ Cardinality(C) = Cardinality(B)
  <2>1. PICK f : f = [i \in B |-> n + i]
    OBVIOUS
  <2>2. f \in Bijection(B, C)
    <3>1. f \in [B -> C]
      BY <2>1
    <3>2. \A i, j \in B : f[i] = f[j] => i = j
      BY <1>1, <1>3, <2>1
    <3>3. \A j \in C : \E i \in B : f[i] = j
      BY <2>1
    <3> QED BY <3>1, <3>2, <3>3 DEF Bijection, Injection, Surjection, IsInjective
  <2> QED BY <1>5, <2>2, FS_Bijection DEF ExistsBijection
<1>7. A \cap C = {}
  BY <1>1, <1>3
<1>8. Cardinality(A \cup C) = Cardinality(A) + Cardinality(C) - Cardinality(A \cap C)
  BY <1>5, <1>6, FS_Union
<1>9. Cardinality(A \cap C) = 0
  BY <1>7, FS_EmptySet
<1> QED BY <1>4, <1>5, <1>6, <1>8, <1>9 DEF Marked

LEMMA MarkedAppended ==
    ASSUME NEW T, NEW q \in Seq(T), NEW m \in T, NEW S
    PROVE  Marked(Append(q, m), S) = Marked(q, S) + (IF m \in S THEN 1 ELSE 0)
<1>1. <<m>> \in Seq(T) /\ Append(q, m) = q \o <<m>>
  BY AppendIsConcat
<1>2. Marked(q \o <<m>>, S) = Marked(q, S) + Marked(<<m>>, S)
  BY <1>1, MarkedJoined
<1> QED BY <1>1, <1>2, MarkedOne

LEMMA MarkedTaken ==
    ASSUME NEW T, NEW q \in Seq(T), q # <<>>, NEW S
    PROVE  Marked(q, S) = Marked(Tail(q), S) + (IF Head(q) \in S THEN 1 ELSE 0)
<1>1. PICK h \in T : h = Head(q)
  OBVIOUS
<1>2. PICK t \in Seq(T) : t = Tail(q)
  <2>1. Tail(q) \in Seq(T)
    OBVIOUS
  <2> QED BY <2>1
<1>3. <<h>> \in Seq(T) /\ q = <<h>> \o t
  BY <1>1, <1>2
<1>4. Marked(<<h>> \o t, S) = Marked(<<h>>, S) + Marked(t, S)
  BY <1>3, MarkedJoined
<1>5. Marked(t, S) \in Nat
  BY MarkedTypes
<1>6. Marked(<<h>>, S) = IF h \in S THEN 1 ELSE 0
  BY MarkedOne
<1>7. Marked(q, S) = Marked(t, S) + (IF h \in S THEN 1 ELSE 0)
  BY <1>3, <1>4, <1>5, <1>6
<1> QED BY <1>1, <1>2, <1>7

-----------------------------------------------------------------------------
(* A command is answered at most once                                       *)

\* What will still answer a command of session k: the command itself or an answer of
\* the engine, with the adapter; a request, with the API thread; a command that waits
\* for the engine.
CommandsOf(k) ==
    {m \in AdapterMsgs :
        \/ m.type \in {"startTracking", "updateTracking", "stopTracking"} /\ m.key = k
        \/ m.type = "response" /\ m.cb.key = k /\ m.cb.then # "clientDistanceStopped"}
RequestsOf(k) ==
    {r \in ApiMsgs :
        /\ r.op \notin {"open", "ssr"}
        /\ r.cb # NoCallback /\ r.cb.key = k /\ r.cb.then # "clientDistanceStopped"}
WaitingOf(k) ==
    {p \in [msg : Commands, sent : BOOLEAN] : ~p.sent /\ p.msg.key = k}

Due(k) == Marked(adapterQ, CommandsOf(k)) + Marked(apiQ, RequestsOf(k))
            + Marked(pendingMsgs, WaitingOf(k))

\* The adapter removes clients that are gone.
RemovedAreDestroyed ==
    \A i \in DOMAIN adapterQ :
        adapterQ[i].type = "removeClient" => lifecycle[adapterQ[i].client] = "destroyed"

\* As many responses are owed to a session as are still to come.
Owes(k) ==
    lifecycle[k[1]] # "destroyed" => owed[k] >= 0 /\ (danglingUsed \/ owed[k] >= Due(k))

\* What the hub is about to request answers nobody.
HubAnswersNobody == \A i \in DOMAIN hub.requests : hub.requests[i].cb = NoCallback

AnswersInv == RemovedAreDestroyed /\ HubAnswersNobody /\ \A k \in Keys : Owes(k)

\* The step answers session k at most d times.
Less(k, d) == owed'[k] >= owed[k] - d

LEMMA DueTypes ==
    ASSUME TypeOK, NEW k \in Keys
    PROVE  /\ Marked(adapterQ, CommandsOf(k)) \in Nat
           /\ Marked(apiQ, RequestsOf(k)) \in Nat
           /\ Marked(pendingMsgs, WaitingOf(k)) \in Nat
           /\ owed[k] \in Int
<1>1. /\ adapterQ \in Seq(AdapterMsgs) /\ apiQ \in Seq(ApiMsgs)
      /\ pendingMsgs \in Seq([msg : Commands, sent : BOOLEAN])
      /\ owed \in [Keys -> Int]
  BY DEF TypeOK
<1> QED BY <1>1, MarkedTypes

\* The adapter handles a message and posts r.
LEMMA HandledOwes ==
    ASSUME TypeOK, TypeOK', ~danglingUsed, adapterQ # <<>>, adapterQ' = Tail(adapterQ),
           lifecycle' = lifecycle, NEW r \in Seq(ApiMsgs), apiQ' = apiQ \o r,
           NEW k \in Keys, Owes(k), NEW d \in {0, 1}, Less(k, d), NEW w \in {0, 1},
           Marked(pendingMsgs', WaitingOf(k)) = Marked(pendingMsgs, WaitingOf(k)) + w,
           Marked(r, RequestsOf(k)) + d + w <= IF Message \in CommandsOf(k) THEN 1 ELSE 0
    PROVE  Owes(k)'
<1>1. adapterQ \in Seq(AdapterMsgs) /\ apiQ \in Seq(ApiMsgs)
  BY DEF TypeOK
<1>2. Marked(adapterQ, CommandsOf(k))
        = Marked(Tail(adapterQ), CommandsOf(k)) + (IF Head(adapterQ) \in CommandsOf(k) THEN 1 ELSE 0)
  BY <1>1, MarkedTaken
<1>3. Marked(apiQ \o r, RequestsOf(k)) = Marked(apiQ, RequestsOf(k)) + Marked(r, RequestsOf(k))
  BY <1>1, MarkedJoined
<1>4. PICK a \in Nat, b \in Nat, p \in Nat :
          a = Marked(adapterQ, CommandsOf(k)) /\ b = Marked(apiQ, RequestsOf(k))
          /\ p = Marked(pendingMsgs, WaitingOf(k))
  BY DueTypes
<1>5. PICK z \in Nat : z = Marked(r, RequestsOf(k))
  BY MarkedTypes
<1>6. PICK c \in Nat : c = Marked(Tail(adapterQ), CommandsOf(k))
  <2>1. Tail(adapterQ) \in Seq(AdapterMsgs)
    BY HeadMessage
  <2> QED BY <2>1, MarkedTypes
<1>7. PICK n \in {0, 1} : n = IF Message \in CommandsOf(k) THEN 1 ELSE 0
  OBVIOUS
<1>8. a = c + n
  BY <1>2, <1>4, <1>6, <1>7 DEF Message
<1>9. Due(k)' = (c + (b + z)) + (p + w)
  BY <1>3, <1>4, <1>5, <1>6 DEF Due
<1>10. z + d + w <= n
  BY <1>5, <1>7
<1>11. Due(k) = (a + b) + p
  BY <1>4 DEF Due
<1>12. owed[k] \in Int /\ owed'[k] \in Int
  BY DueTypes DEF TypeOK
<1>13. ASSUME lifecycle[k[1]] # "destroyed" PROVE owed'[k] >= 0 /\ owed'[k] >= Due(k)'
  <2>1. owed[k] >= (a + b) + p
    BY <1>11, <1>13 DEF Owes
  <2>2. owed'[k] >= owed[k] - d
    BY DEF Less
  <2>3. /\ d \in Nat /\ w \in Nat /\ n \in Nat
        /\ a \in Nat /\ b \in Nat /\ c \in Nat /\ p \in Nat /\ z \in Nat
    OBVIOUS
  <2>4. owed'[k] >= (c + (b + z)) + (p + w)
    <3>1. PICK x \in Int : x = owed'[k] /\ x >= ((a + b) + p) - d
      <4>1. owed[k] \in Int /\ owed'[k] \in Int
        BY <1>12
      <4> QED BY ONLY <2>1, <2>2, <2>3, <4>1
    <3>2. x >= (((c + n) + b) + p) - d
      BY <1>8, <3>1
    <3>3. x >= (c + (b + z)) + (p + w)
      BY ONLY x \in Int, <1>10, <2>3, <3>2
    <3> QED BY <3>1, <3>3
  <2>5. owed'[k] >= 0
    BY <1>12, <2>3, <2>4
  <2> QED BY <1>9, <2>4, <2>5
<1> QED BY <1>13 DEF Owes

\* A request for the fix session on behalf of session k answers k at most once, now or
\* when the engine answers, and no other session.
Answers(e, k, now) ==
    \A j \in Keys :
        Marked(e.requests, RequestsOf(j)) + (IF j = k /\ now THEN 1 ELSE 0) <= IF j = k THEN 1 ELSE 0

LEMMA NoMarks ==
    ASSUME NEW S
    PROVE  Marked(<<>>, S) = 0
<1>1. \A i \in DOMAIN <<>> : <<>>[i] \notin S
  OBVIOUS
<1> QED BY <1>1, MarkedNone

LEMMA OneAnswer ==
    ASSUME NEW r, NEW k \in Keys, NEW e, e.requests = <<r>>, r.cb.key = k
    PROVE  Answers(e, k, FALSE)
<1> SUFFICES ASSUME NEW j \in Keys
             PROVE  Marked(<<r>>, RequestsOf(j)) <= IF j = k THEN 1 ELSE 0
  BY MarkedOne DEF Answers
<1>1. r \in RequestsOf(j) => j = k
  BY DEF RequestsOf
<1> QED BY <1>1, MarkedOne

LEMMA AnsweredNow ==
    ASSUME NEW k \in Keys, NEW now \in BOOLEAN, NEW e, e.requests = <<>>
    PROVE  Answers(e, k, now)
BY NoMarks DEF Answers

LEMMA RequestFixAnswers ==
    ASSUME NEW o, NEW k \in Keys, NEW cb, cb.key = k, NEW spe, NEW nHz,
           NEW e, e = RequestFix(o, cb, spe, nHz)
    PROVE  Answers(e, k, e.reported \/ e.noWait)
<1>1. CASE nHz /\ spe
  <2>1. e.requests = <<>> /\ (e.reported \/ e.noWait) \in BOOLEAN
    BY <1>1 DEF RequestFix, Effect
  <2> QED BY <2>1, AnsweredNow
<1>2. CASE ~(nHz /\ spe)
  <2>1. PICK p : e.requests = <<StartFix(p, cb)>> /\ e.reported = FALSE /\ e.noWait = FALSE
    <3>1. CASE nHz /\ o.interval > MinInterval
      BY <1>2, <3>1 DEF RequestFix, Effect
    <3>2. CASE ~(nHz /\ o.interval > MinInterval)
      BY <1>2, <3>2 DEF RequestFix, Effect
    <3> QED BY <3>1, <3>2
  <2>2. StartFix(p, cb).cb.key = k
    BY DEF StartFix
  <2>3. Answers(e, k, FALSE)
    BY <2>1, <2>2, OneAnswer
  <2>4. (e.reported \/ e.noWait) = FALSE
    BY <2>1
  <2> QED BY <2>3, <2>4
<1> QED BY <1>1, <1>2

LEMMA NoRequestAnswers ==
    ASSUME NEW k \in Keys, NEW e, e = NoRequest
    PROVE  Answers(e, k, e.reported \/ e.noWait)
<1>1. e.requests = <<>> /\ (e.reported \/ e.noWait) \in BOOLEAN
  BY DEF NoRequest, Effect
<1> QED BY <1>1, AnsweredNow

LEMMA JoinAnswers ==
    ASSUME NEW k \in Keys, NEW cb, cb.key = k, NEW o, NEW f, NEW e \in JoinEffects(o, f, cb)
    PROVE  Answers(e, k, e.reported \/ e.noWait)
<1>1. PICK base, power :
          \/ e = RequestFix(Multiplexed(o, base, power), cb, speAtHighest, nHzNeeded)
          \/ e = NoRequest
  BY DEF JoinEffects
<1> QED BY <1>1, RequestFixAnswers, NoRequestAnswers

LEMMA StartAnswers ==
    ASSUME NEW k \in Keys, NEW o, NEW e \in StartEffects(k, o)
    PROVE  Answers(e, k, e.reported \/ e.noWait)
<1>1. PICK cb : cb = Then("fixStarted", k)
  OBVIOUS
<1>2. cb.key = k
  BY <1>1 DEF Then
<1>3. \/ e = RequestFix(o, cb, speAtHighest, nHzNeeded)
      \/ e \in JoinEffects(o, timeBased, cb)
  BY <1>1 DEF StartEffects
<1> QED BY <1>2, <1>3, RequestFixAnswers, JoinAnswers

LEMMA UpdateAnswers ==
    ASSUME NEW k \in Keys, NEW o, NEW e \in UpdateEffects(k, o)
    PROVE  Answers(e, k, e.reported \/ e.noWait)
<1>1. PICK cb : cb = ThenWith("fixUpdated", k, timeBased[k])
  OBVIOUS
<1>2. cb.key = k
  BY <1>1 DEF ThenWith
<1>3. \/ e = NoRequest
      \/ e = RequestFix(o, cb, speAtHighest, nHzNeeded)
      \/ e \in JoinEffects(o, Without(timeBased, k), cb)
  BY <1>1 DEF UpdateEffects
<1> QED BY <1>2, <1>3, NoRequestAnswers, RequestFixAnswers, JoinAnswers

LEMMA StopAnswers ==
    ASSUME NEW k \in Keys, NEW e \in StopEffects(k)
    PROVE  Answers(e, k, e.reported \/ e.noWait)
<1>1. CASE e = StopRequest(k)
  <2>1. /\ e.requests = <<StopFix(Then("fixStopped", k))>>
        /\ (e.reported \/ e.noWait) = FALSE
        /\ StopFix(Then("fixStopped", k)).cb.key = k
    BY <1>1 DEF StopRequest, Effect, StopFix, Then
  <2>2. Answers(e, k, FALSE)
    BY <2>1, OneAnswer
  <2> QED BY <2>1, <2>2
<1>2. CASE e = NoRequest
  BY <1>2, NoRequestAnswers
<1>3. ASSUME NEW o, e = RequestFix(o, Then("fixStarted", k), speAtHighest, nHzNeeded)
      PROVE  Answers(e, k, e.reported \/ e.noWait)
  <2>1. PICK cb : cb = Then("fixStarted", k)
    OBVIOUS
  <2>2. cb.key = k
    BY <2>1 DEF Then
  <2> QED BY <1>3, <2>1, <2>2, RequestFixAnswers
<1>4. \/ e = StopRequest(k)
      \/ e = NoRequest
      \/ \E o : e = RequestFix(o, Then("fixStarted", k), speAtHighest, nHzNeeded)
  <2>1. CASE DOMAIN timeBased # {k}
    <3>1. PICK base \in SmallestInterval(Without(timeBased, k)),
               power \in LowestPower(Without(timeBased, k)) :
              \/ e = NoRequest
              \/ e = RequestFix(WithPower(base, power), Then("fixStarted", k),
                                speAtHighest, nHzNeeded)
      BY <2>1, StopCases
    <3> QED BY <3>1
  <2>2. CASE DOMAIN timeBased = {k}
    BY <2>2, StopCases
  <2> QED BY <2>1, <2>2
<1> QED BY <1>1, <1>2, <1>3, <1>4

\* The requests of a restart answer nobody.
LEMMA RestartAnswers ==
    ASSUME TypeOK, NEW nHz \in BOOLEAN, NEW e \in RestartEffects(nHz), NEW k \in Keys
    PROVE  Marked(e.requests, RequestsOf(k)) = 0
<1>1. \A i \in DOMAIN e.requests : e.requests[i] \notin RequestsOf(k)
  BY RestartUnmarked DEF RequestsOf
<1> QED BY <1>1, MarkedNone

LEMMA RestartQuiet ==
    ASSUME TypeOK, NEW e \in RestartEffects(nHzNeeded), NEW k \in Keys
    PROVE  e.requests \in Seq(ApiMsgs) /\ Marked(e.requests, RequestsOf(k)) = 0
<1>1. nHzNeeded \in BOOLEAN
  BY DEF TypeOK
<1>2. RestartEffects(nHzNeeded) \subseteq Effects
  BY <1>1, RestartTypes
<1>3. e.requests \in Seq(ApiMsgs)
  BY <1>2 DEF Effects
<1>4. Marked(e.requests, RequestsOf(k)) = 0
  BY <1>1, RestartAnswers
<1> QED BY <1>3, <1>4

-----------------------------------------------------------------------------
(* ... step by step                                                         *)

\* What a response does to what is owed.
LEMMA ReplyOwes ==
    ASSUME TypeOK, NEW k \in Keys, NEW err, ReportResponse(k, err), NEW j \in Keys
    PROVE  Less(j, IF j = k THEN 1 ELSE 0)
<1>1. owed \in [Keys -> Int]
  BY DEF TypeOK
<1>2. owed' = [owed EXCEPT ![k] = @ - 1] \/ owed' = owed
  BY DEF ReportResponse, replyVars
<1> QED BY <1>1, <1>2 DEF Less

LEMMA SilenceOwes ==
    ASSUME TypeOK, NEW j \in Keys, owed' = owed
    PROVE  Less(j, 0)
<1>1. owed \in [Keys -> Int]
  BY DEF TypeOK
<1> QED BY <1>1 DEF Less

LEMMA ReportOwes ==
    ASSUME TypeOK, NEW k \in Keys, NEW now, ReportIf(now, k, "SUCCESS"), NEW j \in Keys
    PROVE  Less(j, IF j = k /\ now THEN 1 ELSE 0)
<1>1. CASE now
  <2>1. ReportResponse(k, "SUCCESS")
    BY <1>1 DEF ReportIf
  <2>2. Less(j, IF j = k THEN 1 ELSE 0)
    BY <2>1, ReplyOwes
  <2> QED BY <1>1, <2>2
<1>2. CASE ~now
  <2>1. owed' = owed
    BY <1>2 DEF ReportIf, replyVars
  <2> QED BY <1>2, <2>1, SilenceOwes
<1> QED BY <1>1, <1>2

\* A message of a session that has nothing more to say is handled.
LEMMA DoneOwes ==
    ASSUME TypeOK, TypeOK', ~danglingUsed, adapterQ # <<>>, Done, pendingMsgs' = pendingMsgs,
           NEW r \in Seq(ApiMsgs), apiQ' = apiQ \o r,
           NEW k \in Keys, Owes(k), NEW d \in {0, 1}, Less(k, d),
           Marked(r, RequestsOf(k)) + d <= IF Message \in CommandsOf(k) THEN 1 ELSE 0
    PROVE  Owes(k)'
<1>1. adapterQ' = Tail(adapterQ) /\ lifecycle' = lifecycle
  BY DEF Done, clientVars
<1>2. PICK w \in {0, 1} : w = 0
  OBVIOUS
<1>3. Marked(pendingMsgs', WaitingOf(k)) = Marked(pendingMsgs, WaitingOf(k)) + w
  BY <1>2, DueTypes
<1>4. Marked(r, RequestsOf(k)) \in Nat
  BY MarkedTypes
<1>5. Marked(r, RequestsOf(k)) + d + w <= IF Message \in CommandsOf(k) THEN 1 ELSE 0
  BY <1>2, <1>4
<1> QED BY <1>1, <1>3, <1>5, HandledOwes

\* The command of k, or an answer to it, is handled with an effect that answers k once.
LEMMA EffectOwes ==
    ASSUME TypeOK, TypeOK', ~danglingUsed, adapterQ # <<>>, Done, pendingMsgs' = pendingMsgs,
           NEW k \in Keys, Message \in CommandsOf(k),
           NEW e \in Effects, Answers(e, k, e.reported \/ e.noWait),
           apiQ' = apiQ \o e.requests, ReportIf(e.reported \/ e.noWait, k, "SUCCESS"),
           NEW j \in Keys, Owes(j)
    PROVE  Owes(j)'
<1>1. PICK d \in {0, 1} : d = IF j = k /\ (e.reported \/ e.noWait) THEN 1 ELSE 0
  OBVIOUS
<1>2. Less(j, d)
  BY <1>1, ReportOwes
<1>3. Marked(e.requests, RequestsOf(j)) + d <= IF j = k THEN 1 ELSE 0
  BY <1>1 DEF Answers
<1>4. e.requests \in Seq(ApiMsgs)
  BY DEF Effects
<1>5. Marked(e.requests, RequestsOf(j)) \in Nat
  BY <1>4, MarkedTypes
<1>6. Marked(e.requests, RequestsOf(j)) + d <= IF Message \in CommandsOf(j) THEN 1 ELSE 0
  <2>1. CASE j = k
    BY <1>3, <2>1
  <2>2. CASE j # k
    <3>1. Marked(e.requests, RequestsOf(j)) + d <= 0
      BY <1>3, <2>2
    <3> QED BY <1>5, <3>1
  <2> QED BY <2>1, <2>2
<1> QED BY <1>2, <1>4, <1>6, DoneOwes

\* ... with a response and no request.
LEMMA ReplyDoneOwes ==
    ASSUME TypeOK, TypeOK', ~danglingUsed, adapterQ # <<>>, Done, pendingMsgs' = pendingMsgs,
           NEW k \in Keys, Message \in CommandsOf(k), NEW err, ReportResponse(k, err), apiQ' = apiQ,
           NEW j \in Keys, Owes(j)
    PROVE  Owes(j)'
<1>1. PICK r \in Seq(ApiMsgs) : r = <<>>
  <2>1. <<>> \in Seq(ApiMsgs)
    OBVIOUS
  <2> QED BY <2>1
<1>2. apiQ' = apiQ \o r
  BY <1>1 DEF TypeOK
<1>3. PICK d \in {0, 1} : d = IF j = k THEN 1 ELSE 0
  OBVIOUS
<1>4. Less(j, d)
  BY <1>3, ReplyOwes
<1>5. Marked(r, RequestsOf(j)) = 0
  BY <1>1, NoMarks
<1>6. Marked(r, RequestsOf(j)) + d <= IF Message \in CommandsOf(j) THEN 1 ELSE 0
  BY <1>3, <1>5
<1> QED BY <1>2, <1>4, <1>6, DoneOwes

\* ... with one request of k.
LEMMA RequestDoneOwes ==
    ASSUME TypeOK, TypeOK', ~danglingUsed, adapterQ # <<>>, Done, pendingMsgs' = pendingMsgs,
           owed' = owed,
           NEW k \in Keys, NEW m \in ApiMsgs, apiQ' = Append(apiQ, m), m.cb.key = k,
           Message \in CommandsOf(k),
           NEW j \in Keys, Owes(j)
    PROVE  Owes(j)'
<1>1. PICK r \in Seq(ApiMsgs) : r = <<m>>
  <2>1. <<m>> \in Seq(ApiMsgs)
    OBVIOUS
  <2> QED BY <2>1
<1>2. apiQ' = apiQ \o r
  BY <1>1, AppendIsConcat DEF TypeOK
<1>3. PICK d \in {0, 1} : d = 0
  OBVIOUS
<1>4. Less(j, d)
  BY <1>3, SilenceOwes
<1>5. Marked(r, RequestsOf(j)) = IF m \in RequestsOf(j) THEN 1 ELSE 0
  BY <1>1, MarkedOne
<1>6. m \in RequestsOf(j) => j = k
  BY DEF RequestsOf
<1>7. Marked(r, RequestsOf(j)) + d <= IF Message \in CommandsOf(j) THEN 1 ELSE 0
  BY <1>3, <1>5, <1>6
<1> QED BY <1>2, <1>4, <1>7, DoneOwes

\* ... silently.
LEMMA SilentDoneOwes ==
    ASSUME TypeOK, TypeOK', ~danglingUsed, adapterQ # <<>>, Done, pendingMsgs' = pendingMsgs,
           owed' = owed, NEW r \in Seq(ApiMsgs), apiQ' = apiQ \o r,
           NEW j \in Keys, Owes(j), Marked(r, RequestsOf(j)) = 0
    PROVE  Owes(j)'
<1>1. PICK d \in {0, 1} : d = 0
  OBVIOUS
<1>2. Less(j, d)
  BY <1>1, SilenceOwes
<1>3. Marked(r, RequestsOf(j)) + d <= IF Message \in CommandsOf(j) THEN 1 ELSE 0
  BY <1>1
<1> QED BY <1>2, <1>3, DoneOwes

LEMMA MessageCommands ==
    ASSUME TypeOK, adapterQ # <<>>
    PROVE  /\ Message.type \in {"startTracking", "updateTracking", "stopTracking"}
                => Message.key \in Keys /\ Message \in CommandsOf(Message.key)
           /\ Message.type = "response"
                => /\ Message.cb.key \in Keys /\ Message.cb \in Callbacks /\ Message.err \in Errors
                   /\ Message.cb.then # "clientDistanceStopped"
                        => Message \in CommandsOf(Message.cb.key)
<1>1. Message \in AdapterMsgs
  BY HeadMessage
<1>2. /\ Message.type \in {"startTracking", "updateTracking"} => Message.key \in Keys
      /\ Message.type = "stopTracking" => Message.key \in Keys
      /\ Message.type = "response" => Message.cb \in Callbacks /\ Message.err \in Errors
  BY <1>1, MessageFields
<1>3. Message.type = "response" => Message.cb.key \in Keys
  BY <1>2, CallbackFields
<1> QED BY <1>1, <1>2, <1>3 DEF CommandsOf

LEMMA NothingPosted ==
    ASSUME TypeOK, apiQ' = apiQ
    PROVE  <<>> \in Seq(ApiMsgs) /\ apiQ' = apiQ \o <<>> /\ \A S : Marked(<<>>, S) = 0
BY NoMarks DEF TypeOK

\* The handlers that answer nobody.
LEMMA SilentSteps ==
    ASSUME TypeOK, TypeOK',
           AddClient \/ RemoveClient \/ Reconfigure \/ ClientDistanceStopped,
           NEW j \in Keys, Owes(j)
    PROVE  Owes(j)'
<1>1. /\ ~danglingUsed /\ adapterQ # <<>> /\ Done /\ pendingMsgs' = pendingMsgs /\ owed' = owed
  BY DEF AddClient, RemoveClient, Reconfigure, ClientDistanceStopped, Response, Receive,
         replyVars, setupVars
<1>2. PICK r \in Seq(ApiMsgs) : apiQ' = apiQ \o r /\ Marked(r, RequestsOf(j)) = 0
  <2>1. CASE apiQ' = apiQ
    BY <2>1, NothingPosted
  <2>2. CASE RemoveClient
    <3> DEFINE mine == {k \in DOMAIN distanceBased : k[1] = Message.client}
               stop(k) == StopDistance(k, Then("clientDistanceStopped", k))
    <3>1. PICK s \in InOrder(mine) : apiQ' = apiQ \o [i \in DOMAIN s |-> stop(s[i])]
      BY <2>2 DEF RemoveClient
    <3>2. PICK n \in Nat : DOMAIN s = 1 .. n /\ \A i \in DOMAIN s : s[i] \in Keys
      <4>1. mine \in SUBSET Keys
        BY DEF TypeOK, IsSessionMap
      <4> QED BY <4>1, InOrderTypes
    <3>3. ASSUME NEW i \in DOMAIN s PROVE stop(s[i]) \in ApiMsgs /\ stop(s[i]) \notin RequestsOf(j)
      <4>1. Then("clientDistanceStopped", s[i]) \in MaybeCallback /\ s[i] \in Keys
        BY <3>2, <3>3, CallbackTypes DEF MaybeCallback
      <4>2. stop(s[i]) \in ApiMsgs
        BY <4>1 DEF StopDistance, ApiMsgs, Keys
      <4>3. stop(s[i]) \notin RequestsOf(j)
        BY DEF StopDistance, Then, RequestsOf
      <4> QED BY <4>2, <4>3
    <3>4. PICK r : r = [i \in DOMAIN s |-> stop(s[i])]
      OBVIOUS
    <3>5. r \in Seq(ApiMsgs)
      <4>1. DOMAIN r = 1 .. n /\ \A i \in 1 .. n : r[i] \in ApiMsgs
        BY <3>2, <3>3, <3>4
      <4>2. r = [i \in 1 .. n |-> r[i]]
        BY <3>2, <3>4
      <4> HIDE DEF stop, mine
      <4> QED BY ONLY <4>1, <4>2, MapToSeq, n \in Nat
    <3>6. Marked(r, RequestsOf(j)) = 0
      <4>1. \A i \in DOMAIN r : r[i] \notin RequestsOf(j)
        BY <3>3, <3>4
      <4> QED BY <4>1, MarkedNone
    <3> QED BY <3>1, <3>4, <3>5, <3>6
  <2>3. CASE Reconfigure
    <3>1. PICK e \in RestartEffects(nHzNeeded), p \in {<<>>, << StopFix(NoCallback) >>} :
              apiQ' = apiQ \o p \o e.requests
      BY <2>3 DEF Reconfigure
    <3>2. e.requests \in Seq(ApiMsgs) /\ Marked(e.requests, RequestsOf(j)) = 0
      BY RestartQuiet
    <3>3. p \in Seq(ApiMsgs) /\ Marked(p, RequestsOf(j)) = 0
      <4>1. CASE p = <<>>
        BY <4>1, NoMarks
      <4>2. CASE p = << StopFix(NoCallback) >>
        <5>1. StopFix(NoCallback) \in ApiMsgs /\ StopFix(NoCallback) \notin RequestsOf(j)
          BY DEF StopFix, ApiMsgs, MaybeCallback, RequestsOf
        <5> QED BY <4>2, <5>1, MarkedOne
      <4> QED BY <4>1, <4>2
    <3>4. Marked(p \o e.requests, RequestsOf(j)) = 0 /\ p \o e.requests \in Seq(ApiMsgs)
      BY <3>2, <3>3, MarkedJoined, ConcatProperties
    <3>5. apiQ' = apiQ \o (p \o e.requests)
      <4>1. apiQ \in Seq(ApiMsgs)
        BY DEF TypeOK
      <4> QED BY <3>1, <3>2, <3>3, <4>1, RequestsAssociate
    <3> QED BY <3>4, <3>5
  <2> QED BY <2>1, <2>2, <2>3 DEF AddClient, ClientDistanceStopped
<1> QED BY <1>1, <1>2, SilentDoneOwes

\* A command that waits for the engine still waits for its answer.
LEMMA DeferOwes ==
    ASSUME TypeOK, TypeOK', Defer, NEW j \in Keys, Owes(j)
    PROVE  Owes(j)'
<1>1. /\ ~danglingUsed /\ adapterQ # <<>> /\ adapterQ' = Tail(adapterQ)
      /\ lifecycle' = lifecycle /\ apiQ' = apiQ /\ owed' = owed
      /\ pendingMsgs' = Append(pendingMsgs, [msg |-> Message, sent |-> FALSE])
      /\ Message.type \in {"startTracking", "updateTracking"}
  BY DEF Defer, Receive, Done, replyVars, clientVars
<1>2. Message \in Commands
  BY <1>1, HeadMessage, MessageFields
<1>3. PICK p \in [msg : Commands, sent : BOOLEAN] : p = [msg |-> Message, sent |-> FALSE]
  BY <1>2
<1>4. Marked(Append(pendingMsgs, p), WaitingOf(j))
        = Marked(pendingMsgs, WaitingOf(j)) + (IF p \in WaitingOf(j) THEN 1 ELSE 0)
  <2>1. PICK T : T = [msg : Commands, sent : BOOLEAN]
    OBVIOUS
  <2>2. pendingMsgs \in Seq(T) /\ p \in T
    BY <2>1 DEF TypeOK
  <2> HIDE DEF WaitingOf
  <2> QED BY ONLY <2>2, MarkedAppended
<1>5. PICK w \in {0, 1} : w = IF p \in WaitingOf(j) THEN 1 ELSE 0
  OBVIOUS
<1>6. p \in WaitingOf(j) => Message \in CommandsOf(j)
  <2>1. p.msg = Message
    BY <1>3
  <2>2. Message \in AdapterMsgs
    BY <1>1, HeadMessage
  <2> QED BY <1>1, <2>1, <2>2 DEF WaitingOf, CommandsOf
<1>7. PICK d \in {0, 1} : d = 0
  OBVIOUS
<1>8. Less(j, d)
  BY <1>1, <1>7, SilenceOwes
<1>9. PICK r \in Seq(ApiMsgs) : r = <<>>
  <2>1. <<>> \in Seq(ApiMsgs)
    OBVIOUS
  <2> QED BY <2>1
<1>10. apiQ' = apiQ \o r /\ Marked(r, RequestsOf(j)) = 0
  BY <1>1, <1>9, NoMarks DEF TypeOK
<1>11. Marked(r, RequestsOf(j)) + d + w <= IF Message \in CommandsOf(j) THEN 1 ELSE 0
  BY <1>5, <1>6, <1>7, <1>10
<1>12. Marked(pendingMsgs', WaitingOf(j)) = Marked(pendingMsgs, WaitingOf(j)) + w
  BY <1>1, <1>3, <1>4, <1>5
<1> QED BY <1>1, <1>8, <1>10, <1>11, <1>12, HandledOwes

\* The commands of the clients.
LEMMA CommandOwes ==
    ASSUME TypeOK, TypeOK', StartTracking \/ UpdateTracking \/ StopTracking,
           NEW j \in Keys, Owes(j)
    PROVE  Owes(j)'
<1>1. /\ ~danglingUsed /\ adapterQ # <<>> /\ Done /\ pendingMsgs' = pendingMsgs
      /\ Message.type \in {"startTracking", "updateTracking", "stopTracking"}
  BY DEF StartTracking, UpdateTracking, StopTracking, Receive
<1>2. PICK k \in Keys : k = Message.key
  BY <1>1, MessageCommands
<1>3. Message \in CommandsOf(k)
  BY <1>1, <1>2, MessageCommands
<1>4. ASSUME Message.type # "stopTracking" PROVE Message.options \in Options
  BY <1>1, <1>4, HeadMessage, MessageFields
<1>5. ASSUME NEW e \in Effects, Answers(e, k, e.reported \/ e.noWait),
             Post(e), ReportIf(e.reported \/ e.noWait, k, "SUCCESS")
      PROVE  Owes(j)'
  BY <1>1, <1>3, <1>5, EffectOwes DEF Post
<1>6. ASSUME apiQ' = apiQ, NEW err, ReportResponse(k, err) PROVE Owes(j)'
  BY <1>1, <1>3, <1>6, ReplyDoneOwes
<1>7. ASSUME NEW m \in ApiMsgs, m.cb.key = k, apiQ' = Append(apiQ, m), UNCHANGED replyVars
      PROVE  Owes(j)'
  <2>1. owed' = owed
    BY <1>7 DEF replyVars
  <2> QED BY <1>1, <1>3, <1>7, <2>1, RequestDoneOwes
<1>8. ASSUME apiQ' = apiQ, UNCHANGED replyVars PROVE Owes(j)'
  <2>1. owed' = owed
    BY <1>8 DEF replyVars
  <2> QED BY <1>1, <1>8, <2>1, NothingPosted, SilentDoneOwes
<1>9. CASE StartTracking
  <2>1. PICK o \in SessionOptions : o = WithFastestInterval(Message.options)
    BY <1>4, <1>9, OptionTypes DEF StartTracking, Receive
  <2>2. PICK p \in SessionOptions : p = WithPowerFallback(o)
    BY OptionTypes
  <2>3. \/ UNCHANGED replyVars /\ apiQ' = apiQ
        \/ /\ apiQ' = Append(apiQ, StartDistance(k, o, Then("distanceStarted", k)))
           /\ UNCHANGED replyVars
        \/ \E e \in StartEffects(k, p) : Post(e) /\ ReportIf(e.reported \/ e.noWait, k, "SUCCESS")
    BY <1>2, <1>9, <2>1, <2>2 DEF StartTracking
  <2>4. /\ StartDistance(k, o, Then("distanceStarted", k)) \in ApiMsgs
        /\ StartDistance(k, o, Then("distanceStarted", k)).cb.key = k
    <3>1. Then("distanceStarted", k) \in MaybeCallback
      BY CallbackTypes DEF MaybeCallback
    <3>2. o \in Options
      BY DEF SessionOptions
    <3> QED BY <3>1, <3>2, RequestTypes DEF StartDistance, Then
  <2>5. ASSUME NEW e \in StartEffects(k, p), Post(e), ReportIf(e.reported \/ e.noWait, k, "SUCCESS")
        PROVE  Owes(j)'
    BY <1>5, <2>5, StartTypes, StartAnswers
  <2> QED BY <1>7, <1>8, <2>3, <2>4, <2>5
<1>10. CASE UpdateTracking
  <2>1. PICK o \in SessionOptions : o = WithFastestInterval(WithPowerFallback(Message.options))
    BY <1>4, <1>10, OptionTypes DEF UpdateTracking, Receive
  <2>2. \/ /\ ReportResponse(k, "ID_UNKNOWN") \/ ReportResponse(k, "INVALID_PARAMETER")
           /\ apiQ' = apiQ
        \/ /\ k \in DOMAIN timeBased
           /\ \E e \in StopEffects(k) :
                 /\ apiQ' = (apiQ \o e.requests) \o << StartDistance(k, o, NoCallback) >>
                 /\ ReportIf(e.reported \/ e.noWait, k, "SUCCESS")
        \/ /\ o.distance = 0
           /\ apiQ' = Append(apiQ, StopDistance(k, ThenWith("switchToTime", k, o)))
           /\ UNCHANGED replyVars
        \/ /\ k \in DOMAIN timeBased
           /\ \E e \in UpdateEffects(k, o) : Post(e) /\ ReportIf(e.reported \/ e.noWait, k, "SUCCESS")
        \/ /\ o.distance > 0
           /\ apiQ' = Append(apiQ, StopDistance(k, ThenWith("restartDistance", k, o)))
           /\ UNCHANGED replyVars
    BY <1>2, <1>10, <2>1 DEF UpdateTracking
  <2>3. ASSUME k \in DOMAIN timeBased, NEW e \in StopEffects(k),
               apiQ' = (apiQ \o e.requests) \o << StartDistance(k, o, NoCallback) >>,
               ReportIf(e.reported \/ e.noWait, k, "SUCCESS")
        PROVE  Owes(j)'
    <3>1. e \in Effects /\ Answers(e, k, e.reported \/ e.noWait)
      BY <2>3, StopTypes, StopAnswers
    <3>2. StartDistance(k, o, NoCallback) \in ApiMsgs
      BY RequestTypes DEF MaybeCallback, SessionOptions
    <3>3. PICK r \in Seq(ApiMsgs) : r = << StartDistance(k, o, NoCallback) >>
      <4>1. << StartDistance(k, o, NoCallback) >> \in Seq(ApiMsgs)
        BY <3>2
      <4> QED BY <4>1
    <3>4. PICK f \in Effects : f = [e EXCEPT !.requests = @ \o r]
      BY <3>1, ConcatProperties DEF Effects
    <3>5. /\ f.requests = e.requests \o r /\ e.requests \in Seq(ApiMsgs)
          /\ f.reported = e.reported /\ f.noWait = e.noWait
      BY <3>1, <3>4 DEF Effects
    <3>6. Answers(f, k, e.reported \/ e.noWait)
      <4>1. SUFFICES ASSUME NEW i \in Keys
                     PROVE  Marked(f.requests, RequestsOf(i)) = Marked(e.requests, RequestsOf(i))
        BY <3>1, <4>1 DEF Answers
      <4>2. StartDistance(k, o, NoCallback) \notin RequestsOf(i)
        BY DEF StartDistance, RequestsOf
      <4>3. Marked(r, RequestsOf(i)) = 0
        BY <3>3, <4>2, MarkedOne
      <4>4. Marked(e.requests, RequestsOf(i)) \in Nat
        BY <3>5, MarkedTypes
      <4>5. Marked(e.requests \o r, RequestsOf(i))
              = Marked(e.requests, RequestsOf(i)) + Marked(r, RequestsOf(i))
        BY <3>5, MarkedJoined
      <4> QED BY <3>5, <4>3, <4>4, <4>5
    <3>7. apiQ' = apiQ \o f.requests
      <4>1. apiQ \in Seq(ApiMsgs)
        BY DEF TypeOK
      <4>2. (apiQ \o e.requests) \o r = apiQ \o (e.requests \o r)
        BY ONLY <3>5, <4>1, r \in Seq(ApiMsgs), RequestsAssociate
      <4> QED BY ONLY <2>3, <3>3, <3>5, <4>2
    <3>8. Answers(f, k, f.reported \/ f.noWait) /\ ReportIf(f.reported \/ f.noWait, k, "SUCCESS")
      BY <2>3, <3>5, <3>6
    <3> QED BY <1>1, <1>3, <3>7, <3>8, EffectOwes
  <2>4. ASSUME k \in DOMAIN timeBased, NEW e \in UpdateEffects(k, o), Post(e),
               ReportIf(e.reported \/ e.noWait, k, "SUCCESS")
        PROVE  Owes(j)'
    BY <1>5, <2>4, UpdateTypes, UpdateAnswers
  <2>5. ASSUME o.distance = 0 PROVE /\ StopDistance(k, ThenWith("switchToTime", k, o)) \in ApiMsgs
                                    /\ StopDistance(k, ThenWith("switchToTime", k, o)).cb.key = k
    <3>1. ThenWith("switchToTime", k, o) \in MaybeCallback /\ o \in Options
      BY <2>5, CallbackTypes DEF MaybeCallback, SessionOptions
    <3> QED BY <3>1, RequestTypes DEF StopDistance, ThenWith
  <2>6. ASSUME o.distance > 0 PROVE /\ StopDistance(k, ThenWith("restartDistance", k, o)) \in ApiMsgs
                                    /\ StopDistance(k, ThenWith("restartDistance", k, o)).cb.key = k
    <3>1. ThenWith("restartDistance", k, o) \in MaybeCallback /\ o \in Options
      BY <2>6, CallbackTypes DEF MaybeCallback, SessionOptions
    <3> QED BY <3>1, RequestTypes DEF StopDistance, ThenWith
  <2> QED BY <1>6, <1>7, <2>2, <2>3, <2>4, <2>5, <2>6
<1>11. CASE StopTracking
  <2>1. \/ /\ k \in DOMAIN timeBased
           /\ \E e \in StopEffects(k) : Post(e) /\ ReportIf(e.reported \/ e.noWait, k, "SUCCESS")
        \/ /\ apiQ' = Append(apiQ, StopDistance(k, Then("distanceStopped", k)))
           /\ UNCHANGED replyVars
        \/ ReportResponse(k, "ID_UNKNOWN") /\ apiQ' = apiQ
    BY <1>2, <1>11 DEF StopTracking
  <2>2. ASSUME k \in DOMAIN timeBased, NEW e \in StopEffects(k), Post(e),
               ReportIf(e.reported \/ e.noWait, k, "SUCCESS")
        PROVE  Owes(j)'
    BY <1>5, <2>2, StopTypes, StopAnswers
  <2>3. /\ StopDistance(k, Then("distanceStopped", k)) \in ApiMsgs
        /\ StopDistance(k, Then("distanceStopped", k)).cb.key = k
    <3>1. Then("distanceStopped", k) \in MaybeCallback
      BY CallbackTypes DEF MaybeCallback
    <3> QED BY <3>1, OptionTypes, RequestTypes DEF StopDistance, Then
  <2> QED BY <1>6, <1>7, <2>1, <2>2, <2>3
<1> QED BY <1>9, <1>10, <1>11

\* The engine's answers.
LEMMA ResponseOwes ==
    ASSUME TypeOK, TypeOK',
           \/ FixStarted \/ FixUpdated \/ FixStopped \/ DistanceStarted \/ DistanceStopped
           \/ SwitchToTime \/ RestartDistance \/ DistanceRestarted,
           NEW j \in Keys, Owes(j)
    PROVE  Owes(j)'
<1>1. /\ ~danglingUsed /\ adapterQ # <<>> /\ Done /\ pendingMsgs' = pendingMsgs
      /\ Message.type = "response" /\ Message.cb.then # "clientDistanceStopped"
  BY DEF FixStarted, FixUpdated, FixStopped, DistanceStarted, DistanceStopped, SwitchToTime,
         RestartDistance, DistanceRestarted, Response, Receive, setupVars
<1>2. PICK k \in Keys : k = Message.cb.key
  BY <1>1, MessageCommands
<1>3. Message \in CommandsOf(k)
  BY <1>1, <1>2, MessageCommands
<1>4. CASE SwitchToTime
  <2>1. PICK o \in SessionOptions : o = Message.cb.options
    <3>1. Message.cb \in Callbacks /\ Message.cb.then = "switchToTime"
      BY <1>1, <1>4, MessageCommands DEF SwitchToTime, Response
    <3> QED BY <3>1, CallbackFields
  <2>2. PICK e \in StartEffects(k, o) : Post(e) /\ ReportIf(e.reported \/ e.noWait, k, "SUCCESS")
    BY <1>2, <1>4, <2>1 DEF SwitchToTime
  <2> QED BY <1>1, <1>3, <2>2, StartTypes, StartAnswers, EffectOwes DEF Post
<1>5. CASE RestartDistance
  <2>1. PICK o \in SessionOptions : o = Message.cb.options /\ o.distance > 0
    <3>1. Message.cb \in Callbacks /\ Message.cb.then = "restartDistance"
      BY <1>1, <1>5, MessageCommands DEF RestartDistance, Response
    <3> QED BY <3>1, CallbackFields
  <2>2. /\ owed' = owed
        /\ \/ apiQ' = apiQ
           \/ apiQ' = Append(apiQ, StartDistance(k, o, ThenWith("distanceRestarted", k, o)))
    BY <1>2, <1>5, <2>1 DEF RestartDistance, replyVars
  <2>3. CASE apiQ' = apiQ
    BY <1>1, <2>2, <2>3, NothingPosted, SilentDoneOwes
  <2>4. /\ StartDistance(k, o, ThenWith("distanceRestarted", k, o)) \in ApiMsgs
        /\ StartDistance(k, o, ThenWith("distanceRestarted", k, o)).cb.key = k
    <3>1. ThenWith("distanceRestarted", k, o) \in MaybeCallback /\ o \in Options
      BY <2>1, CallbackTypes DEF MaybeCallback, SessionOptions
    <3> QED BY <3>1, RequestTypes DEF StartDistance, ThenWith
  <2> QED BY <1>1, <1>3, <2>2, <2>3, <2>4, RequestDoneOwes
<1>6. CASE \/ FixStarted \/ FixUpdated \/ FixStopped \/ DistanceStarted \/ DistanceStopped
           \/ DistanceRestarted
  <2>1. ReportResponse(k, Message.err) /\ apiQ' = apiQ
    BY <1>2, <1>6 DEF FixStarted, FixUpdated, FixStopped, DistanceStarted, DistanceStopped,
                      DistanceRestarted
  <2> QED BY <1>1, <1>3, <2>1, ReplyDoneOwes
<1> QED BY <1>4, <1>5, <1>6

\* The sessions of a client that is gone are stopped: no other session is concerned.
LEMMA RemovalOwes ==
    ASSUME TypeOK, TypeOK', RemovedAreDestroyed, RemoveClientStopsOne, NEW j \in Keys, Owes(j)
    PROVE  Owes(j)'
<1>1. /\ ~danglingUsed /\ adapterQ # <<>> /\ Message.type = "removeClient"
      /\ UNCHANGED <<lifecycle, adapterQ, pendingMsgs, danglingUsed>>
  BY DEF RemoveClientStopsOne, Receive, setupVars, clientVars
<1>2. lifecycle[Message.client] = "destroyed"
  <2>1. 1 \in DOMAIN adapterQ /\ Message = adapterQ[1]
    BY <1>1 DEF TypeOK, Message
  <2> QED BY <1>1, <2>1 DEF RemovedAreDestroyed
<1>3. PICK k \in DOMAIN timeBased : \E e \in StopEffects(k) :
          k[1] = Message.client /\ Post(e) /\ ReportIf(e.reported, k, "SUCCESS")
  BY DEF RemoveClientStopsOne
<1>4. PICK e \in StopEffects(k) :
          k[1] = Message.client /\ Post(e) /\ ReportIf(e.reported, k, "SUCCESS")
  BY <1>3
<1>5. k \in Keys
  BY DEF TypeOK, IsSessionMap
<1>6. e \in Effects /\ Answers(e, k, e.reported \/ e.noWait)
  BY <1>5, StopTypes, StopAnswers
<1>7. CASE j = k
  <2>1. lifecycle'[j[1]] = "destroyed"
    BY <1>1, <1>2, <1>4, <1>7
  <2> QED BY <2>1 DEF Owes
<1>8. CASE j # k
  <2>1. PICK z \in Nat : z = Marked(e.requests, RequestsOf(j))
    BY <1>6, MarkedTypes DEF Effects
  <2>2. z = 0
    <3>1. Marked(e.requests, RequestsOf(j)) + 0 <= 0
      BY <1>6, <1>8 DEF Answers
    <3> QED BY <2>1, <3>1
  <2>3. Marked(apiQ', RequestsOf(j)) = Marked(apiQ, RequestsOf(j))
    <3>1. apiQ' = apiQ \o e.requests
      BY <1>4 DEF Post
    <3>2. apiQ \in Seq(ApiMsgs) /\ e.requests \in Seq(ApiMsgs)
      BY <1>6 DEF TypeOK, Effects
    <3>3. Marked(apiQ \o e.requests, RequestsOf(j))
            = Marked(apiQ, RequestsOf(j)) + Marked(e.requests, RequestsOf(j))
      BY <3>2, MarkedJoined
    <3>4. Marked(apiQ, RequestsOf(j)) \in Nat
      BY <3>2, MarkedTypes
    <3>5. Marked(apiQ \o e.requests, RequestsOf(j)) = Marked(apiQ, RequestsOf(j)) + 0
      BY <2>1, <2>2, <3>3
    <3>6. PICK b \in Nat : b = Marked(apiQ, RequestsOf(j))
      BY <3>4
    <3>7. b + 0 = b
      OBVIOUS
    <3> QED BY ONLY <3>1, <3>5, <3>6, <3>7
  <2>4. owed'[j] = owed[j]
    <3>1. owed' = [owed EXCEPT ![k] = @ - 1] \/ owed' = owed
      BY <1>4 DEF ReportIf, ReportResponse, replyVars
    <3> QED BY <1>8, <3>1 DEF TypeOK
  <2>5. Due(j)' = Due(j)
    BY <1>1, <2>3 DEF Due
  <2> QED BY <1>1, <2>4, <2>5 DEF Owes
<1> QED BY <1>7, <1>8

\* Commands that waited for the engine go to the queue of the adapter.
LEMMA EngineUpOwes ==
    ASSUME TypeOK, TypeOK', EngineUp, NEW j \in Keys, Owes(j)
    PROVE  Owes(j)'
<1>1. PICK ps \in Seq([msg : Commands, sent : BOOLEAN]) : ps = pendingMsgs
  BY DEF TypeOK
<1>2. PICK msgs : msgs = [i \in DOMAIN ps |-> ps[i].msg]
  OBVIOUS
<1>3. PICK done : done = [i \in DOMAIN ps |-> [ps[i] EXCEPT !.sent = TRUE]]
  OBVIOUS
<1>4. /\ ~danglingUsed /\ adapterQ # <<>> /\ Message.type = "engineUp"
      /\ lifecycle' = lifecycle /\ owed' = owed
      /\ adapterQ' = Tail(adapterQ) \o msgs /\ pendingMsgs' = done
      /\ ~danglingUsed' => \A i \in DOMAIN ps : ~ps[i].sent
  BY <1>1, <1>2, <1>3 DEF EngineUp, Receive, clientVars, replyVars
<1>5. PICK n \in Nat : DOMAIN ps = 1 .. n /\ \A i \in 1 .. n : ps[i] \in [msg : Commands, sent : BOOLEAN]
  <2>1. Len(ps) \in Nat /\ DOMAIN ps = 1 .. Len(ps)
    OBVIOUS
  <2>2. \A i \in 1 .. Len(ps) : ps[i] \in [msg : Commands, sent : BOOLEAN]
    BY <2>1, ElementOfSeq
  <2> QED BY <2>1, <2>2
<1>6. msgs \in Seq(AdapterMsgs)
  <2>1. \A i \in 1 .. n : msgs[i] \in AdapterMsgs
    BY <1>2, <1>5 DEF AdapterMsgs
  <2>2. DOMAIN msgs = 1 .. n /\ msgs = [i \in 1 .. n |-> msgs[i]]
    BY <1>2, <1>5
  <2> QED BY <2>1, <2>2, MapToSeq
<1>7. Marked(done, WaitingOf(j)) = 0
  <2>1. ASSUME NEW i \in DOMAIN done PROVE done[i] \notin WaitingOf(j)
    BY <1>3, <1>5, <2>1 DEF WaitingOf
  <2> QED BY <2>1, MarkedNone
<1>8. ASSUME ~danglingUsed' PROVE Marked(ps, WaitingOf(j)) = Marked(msgs, CommandsOf(j))
  <2>1. DOMAIN ps = DOMAIN msgs
    BY <1>2
  <2>2. ASSUME NEW i \in DOMAIN ps PROVE ps[i] \in WaitingOf(j) <=> msgs[i] \in CommandsOf(j)
    <3>1. ps[i] \in [msg : Commands, sent : BOOLEAN] /\ ~ps[i].sent /\ msgs[i] = ps[i].msg
      BY <1>2, <1>4, <1>5, <1>8
    <3>2. msgs[i] \in Commands /\ msgs[i] \in AdapterMsgs
      BY <3>1 DEF AdapterMsgs
    <3>3. msgs[i].type \in {"startTracking", "updateTracking"}
      BY <3>2 DEF Commands
    <3> QED BY <3>1, <3>2, <3>3 DEF WaitingOf, CommandsOf
  <2> QED BY <2>1, <2>2, MarkedSame
<1>9. PICK a \in Nat, b \in Nat, p \in Nat, c \in Nat :
          /\ a = Marked(adapterQ, CommandsOf(j)) /\ b = Marked(apiQ, RequestsOf(j))
          /\ p = Marked(ps, WaitingOf(j)) /\ c = Marked(msgs, CommandsOf(j))
  BY <1>1, <1>6, DueTypes, MarkedTypes
<1>10. a = Marked(Tail(adapterQ), CommandsOf(j))
  <2>1. adapterQ \in Seq(AdapterMsgs) /\ Tail(adapterQ) \in Seq(AdapterMsgs)
    BY <1>4 DEF TypeOK
  <2>2. Marked(Tail(adapterQ), CommandsOf(j)) \in Nat
    BY <2>1, MarkedTypes
  <2>3. Head(adapterQ) \notin CommandsOf(j)
    BY <1>4 DEF Message, CommandsOf
  <2>4. Marked(adapterQ, CommandsOf(j))
          = Marked(Tail(adapterQ), CommandsOf(j)) + (IF Head(adapterQ) \in CommandsOf(j) THEN 1 ELSE 0)
    BY <1>4, <2>1, MarkedTaken
  <2> QED BY <1>9, <2>2, <2>3, <2>4
<1>11. Marked(adapterQ', CommandsOf(j)) = a + c
  <2>1. Tail(adapterQ) \in Seq(AdapterMsgs)
    BY <1>4 DEF TypeOK
  <2>2. Marked(Tail(adapterQ) \o msgs, CommandsOf(j))
          = Marked(Tail(adapterQ), CommandsOf(j)) + Marked(msgs, CommandsOf(j))
    BY <1>6, <2>1, MarkedJoined
  <2> QED BY <1>4, <1>9, <1>10, <2>2
<1>12. Marked(apiQ', RequestsOf(j)) = b
  <2>1. PICK e \in RestartEffects(nHzNeeded) : Post(e)
    BY DEF EngineUp
  <2>2. e.requests \in Seq(ApiMsgs) /\ Marked(e.requests, RequestsOf(j)) = 0
    BY RestartQuiet
  <2>3. apiQ \in Seq(ApiMsgs) /\ apiQ' = apiQ \o e.requests
    BY <2>1 DEF TypeOK, Post
  <2>4. Marked(apiQ \o e.requests, RequestsOf(j))
          = Marked(apiQ, RequestsOf(j)) + Marked(e.requests, RequestsOf(j))
    BY <2>2, <2>3, MarkedJoined
  <2> QED BY <1>9, <2>2, <2>3, <2>4
<1>13. ~danglingUsed' => Due(j)' = Due(j)
  <2>1. Due(j)' = ((a + c) + b) + 0
    BY <1>4, <1>7, <1>11, <1>12 DEF Due
  <2>2. Due(j) = (a + b) + p
    BY <1>1, <1>9 DEF Due
  <2> QED BY <1>8, <1>9, <2>1, <2>2
<1> QED BY <1>4, <1>13 DEF Owes

\* A message that answers nobody joins the queue of the adapter.
LEMMA JoinOwes ==
    ASSUME TypeOK, NEW m \in AdapterMsgs, adapterQ' = Append(adapterQ, m), NEW j \in Keys, Owes(j),
           UNCHANGED <<apiQ, pendingMsgs, danglingUsed>>,
           lifecycle'[j[1]] # "destroyed" => lifecycle[j[1]] # "destroyed",
           NEW d \in {0, 1}, m \in CommandsOf(j) => d = 1, owed'[j] = owed[j] + d
    PROVE  Owes(j)'
<1>1. PICK a \in Nat, b \in Nat, p \in Nat, n \in Int :
          a = Marked(adapterQ, CommandsOf(j)) /\ b = Marked(apiQ, RequestsOf(j))
          /\ p = Marked(pendingMsgs, WaitingOf(j)) /\ n = owed[j]
  BY DueTypes
<1>2. Marked(Append(adapterQ, m), CommandsOf(j)) = a + (IF m \in CommandsOf(j) THEN 1 ELSE 0)
  <2>1. adapterQ \in Seq(AdapterMsgs)
    BY DEF TypeOK
  <2>2. Marked(Append(adapterQ, m), CommandsOf(j))
          = Marked(adapterQ, CommandsOf(j)) + (IF m \in CommandsOf(j) THEN 1 ELSE 0)
    BY <2>1, MarkedAppended
  <2> QED BY <1>1, <2>2
<1>3. PICK w \in {0, 1} : w = (IF m \in CommandsOf(j) THEN 1 ELSE 0) /\ w <= d
  OBVIOUS
<1>4. Due(j)' = ((a + w) + b) + p
  <2>1. Marked(adapterQ', CommandsOf(j)) = a + w
    BY <1>2, <1>3
  <2>2. Marked(apiQ', RequestsOf(j)) = b /\ Marked(pendingMsgs', WaitingOf(j)) = p
    BY <1>1
  <2> QED BY <2>1, <2>2 DEF Due
<1>5. Due(j) = (a + b) + p
  BY <1>1 DEF Due
<1>6. owed'[j] = n + d /\ danglingUsed' = danglingUsed
  BY <1>1
<1>7. ASSUME lifecycle'[j[1]] # "destroyed"
      PROVE  owed'[j] >= 0 /\ (danglingUsed' \/ owed'[j] >= Due(j)')
  <2>1. n >= 0 /\ (danglingUsed \/ n >= (a + b) + p)
    BY <1>1, <1>5, <1>7 DEF Owes
  <2>2. n + d >= 0 /\ (danglingUsed \/ n + d >= ((a + w) + b) + p)
    BY <1>3, <2>1
  <2> QED BY <1>4, <1>6, <2>2
<1> QED BY <1>7 DEF Owes

\* Clients call.
LEMMA ClientOwes ==
    ASSUME TypeOK, Client, NEW j \in Keys, Owes(j)
    PROVE  Owes(j)'
<1>1. PICK zero \in {0, 1}, one \in {0, 1} : zero = 0 /\ one = 1
  OBVIOUS
<1>2. owed \in [Keys -> Int] /\ owed[j] \in Int
  BY DEF TypeOK
<1>3. ASSUME NEW m \in AdapterMsgs, Call(m),
             m.type \in {"addClient", "removeClient", "reconfigure"},
             lifecycle'[j[1]] # "destroyed" => lifecycle[j[1]] # "destroyed"
      PROVE  Owes(j)'
  <2>1. /\ adapterQ' = Append(adapterQ, m) /\ owed' = owed
        /\ UNCHANGED <<apiQ, pendingMsgs, danglingUsed>>
    BY <1>3 DEF Call, adapterVars
  <2>2. m \notin CommandsOf(j)
    BY <1>3 DEF CommandsOf
  <2>3. owed'[j] = owed[j] + zero
    BY <1>1, <1>2, <2>1
  <2> QED BY <1>1, <1>3, <2>1, <2>2, <2>3, JoinOwes
<1>4. ASSUME NEW k \in Keys, NEW m \in AdapterMsgs, Command(k, m),
             m.type \in {"startTracking", "updateTracking", "stopTracking"}, m.key = k
      PROVE  Owes(j)'
  <2>1. /\ adapterQ' = Append(adapterQ, m) /\ owed' = [owed EXCEPT ![k] = @ + 1]
        /\ UNCHANGED <<apiQ, pendingMsgs, danglingUsed>> /\ lifecycle' = lifecycle
    BY <1>4 DEF Command
  <2>2. CASE j = k
    <3>1. owed'[j] = owed[j] + one
      BY <1>1, <1>2, <2>1, <2>2
    <3> QED BY <1>1, <2>1, <3>1, JoinOwes
  <2>3. CASE j # k
    <3>1. m \notin CommandsOf(j)
      BY <1>4, <2>3 DEF CommandsOf
    <3>2. owed'[j] = owed[j] + zero
      BY <1>1, <1>2, <2>1, <2>3
    <3> QED BY <1>1, <2>1, <3>1, <3>2, JoinOwes
  <2> QED BY <2>2, <2>3
<1>5. j[1] \in Clients /\ lifecycle \in [Clients -> {"unborn", "alive", "destroyed"}]
  BY DEF Keys, TypeOK
<1>6. ASSUME NEW c \in Clients, NEW t \in TrackingCbs, CreateInstance(c, t) \/ UpdateCallbacks(c, t)
      PROVE  Owes(j)'
  <2>1. PICK m \in AdapterMsgs : m = [type |-> "addClient", client |-> c, tracking |-> t]
    BY CommandTypes, GnssAssumption DEF GnssAssumption
  <2>2. Call(m) /\ m.type = "addClient"
    BY <1>6, <2>1 DEF CreateInstance, UpdateCallbacks
  <2>3. lifecycle'[j[1]] # "destroyed" => lifecycle[j[1]] # "destroyed"
    BY <1>5, <1>6 DEF CreateInstance, UpdateCallbacks
  <2> QED BY <1>3, <2>2, <2>3
<1>7. ASSUME NEW c \in Clients, Destroy(c) PROVE Owes(j)'
  <2>1. PICK m \in AdapterMsgs : m = [type |-> "removeClient", client |-> c]
    BY CommandTypes
  <2>2. Call(m) /\ m.type = "removeClient"
    BY <1>7, <2>1 DEF Destroy
  <2>3. lifecycle'[j[1]] # "destroyed" => lifecycle[j[1]] # "destroyed"
    BY <1>5, <1>7 DEF Destroy
  <2> QED BY <1>3, <2>2, <2>3
<1>8. ASSUME NEW c \in Clients, NEW o \in StartOptions, StartTrackingCommand(c, o) PROVE Owes(j)'
  <2>1. PICK k \in Keys : k = <<c, Len(owner) + 1>>
    <3>1. Len(owner) \in Nat /\ Len(owner) < MaxId /\ MaxId \in Nat
      BY <1>8, GnssAssumption DEF GnssAssumption, TypeOK, StartTrackingCommand
    <3>2. <<c, Len(owner) + 1>> \in Keys
      BY <3>1 DEF Keys, Ids
    <3> QED BY <3>2
  <2>2. PICK m \in AdapterMsgs : m = [type |-> "startTracking", key |-> k, options |-> o]
    BY CommandTypes, GnssAssumption DEF GnssAssumption
  <2>3. Command(k, m) /\ m.type = "startTracking" /\ m.key = k
    BY <1>8, <2>1, <2>2 DEF StartTrackingCommand
  <2> QED BY <1>4, <2>3
<1>9. ASSUME NEW i \in DOMAIN owner,
             \/ \E o \in UpdateOptions : UpdateTrackingOptionsCommand(i, o)
             \/ StopTrackingCommand(i)
      PROVE  Owes(j)'
  <2>1. PICK k \in Keys : k = <<owner[i], i>>
    <3>1. <<owner[i], i>> \in Keys
      BY LenProperties, ElementOfSeq, GnssAssumption DEF GnssAssumption, TypeOK, Keys, Ids
    <3> QED BY <3>1
  <2>2. CASE StopTrackingCommand(i)
    <3>1. PICK m \in AdapterMsgs : m = [type |-> "stopTracking", key |-> k]
      BY CommandTypes
    <3>2. Command(k, m) /\ m.type = "stopTracking" /\ m.key = k
      BY <2>1, <2>2, <3>1 DEF StopTrackingCommand
    <3> QED BY <1>4, <3>2
  <2>3. ASSUME NEW o \in UpdateOptions, UpdateTrackingOptionsCommand(i, o) PROVE Owes(j)'
    <3>1. PICK m \in AdapterMsgs : m = [type |-> "updateTracking", key |-> k, options |-> o]
      BY CommandTypes, GnssAssumption DEF GnssAssumption
    <3>2. Command(k, m) /\ m.type = "updateTracking" /\ m.key = k
      BY <2>1, <2>3, <3>1 DEF UpdateTrackingOptionsCommand
    <3> QED BY <1>4, <3>2
  <2> QED BY <1>9, <2>2, <2>3
<1>10. ASSUME ReconfigureCommand PROVE Owes(j)'
  <2>1. PICK m \in AdapterMsgs :
            Call(m) /\ m.type = "reconfigure" /\ lifecycle' = lifecycle
    BY <1>10, CommandTypes DEF ReconfigureCommand
  <2> QED BY <1>3, <2>1
<1> QED BY <1>6, <1>7, <1>8, <1>9, <1>10 DEF Client

\* The API thread and the engine: an answer takes the place of the request.
LEMMA ApiOwes ==
    ASSUME TypeOK, ApiThread \/ EngineDown, NEW j \in Keys, Owes(j)
    PROVE  Owes(j)'
<1>1. UNCHANGED <<lifecycle, owed, danglingUsed, pendingMsgs>>
  BY DEF ApiThread, Open, EngineRequest, Served, EngineDown, clientVars, adapterVars
<1>2. PICK a \in Nat, b \in Nat : a = Marked(adapterQ, CommandsOf(j)) /\ b = Marked(apiQ, RequestsOf(j))
  BY DueTypes
<1>3. apiQ \in Seq(ApiMsgs) /\ adapterQ \in Seq(AdapterMsgs)
  BY DEF TypeOK
<1>4. ASSUME Marked(adapterQ', CommandsOf(j)) + Marked(apiQ', RequestsOf(j)) = a + b
      PROVE  Owes(j)'
  <2>1. Due(j)' = Due(j)
    BY <1>1, <1>2, <1>4 DEF Due
  <2> QED BY <1>1, <2>1 DEF Owes
<1>5. CASE EngineDown
  <2>1. adapterQ' = adapterQ /\ apiQ' = Append(apiQ, [op |-> "ssr"])
    BY <1>5 DEF EngineDown
  <2>2. [op |-> "ssr"] \in ApiMsgs /\ [op |-> "ssr"] \notin RequestsOf(j)
    BY DEF ApiMsgs, RequestsOf
  <2>3. Marked(Append(apiQ, [op |-> "ssr"]), RequestsOf(j)) = b + 0
    BY <1>2, <1>3, <2>2, MarkedAppended
  <2> QED BY <1>2, <1>4, <2>1, <2>3
<1>6. CASE ApiThread
  <2>1. apiQ # <<>> /\ apiQ' = Tail(apiQ)
    BY <1>6 DEF ApiThread, Open, EngineRequest, Serve, Served
  <2>2. PICK t \in Nat, n \in {0, 1} :
            /\ t = Marked(Tail(apiQ), RequestsOf(j))
            /\ n = (IF Request \in RequestsOf(j) THEN 1 ELSE 0) /\ b = t + n
    <3>1. Marked(Tail(apiQ), RequestsOf(j)) \in Nat
      <4>1. Tail(apiQ) \in Seq(ApiMsgs)
        BY <1>3, <2>1
      <4> QED BY <4>1, MarkedTypes
    <3>2. Marked(apiQ, RequestsOf(j))
            = Marked(Tail(apiQ), RequestsOf(j)) + (IF Head(apiQ) \in RequestsOf(j) THEN 1 ELSE 0)
      BY <1>3, <2>1, MarkedTaken
    <3> QED BY <1>2, <3>1, <3>2 DEF Request
  <2>3. SUFFICES Marked(adapterQ', CommandsOf(j)) = a + n
    BY <1>2, <1>4, <2>1, <2>2, <2>3
  <2>4. ASSUME adapterQ' = adapterQ, Request \notin RequestsOf(j)
        PROVE  Marked(adapterQ', CommandsOf(j)) = a + n
    BY <1>2, <2>2, <2>4
  <2>5. ASSUME NEW m \in AdapterMsgs, adapterQ' = Append(adapterQ, m),
               m \in CommandsOf(j) <=> Request \in RequestsOf(j)
        PROVE  Marked(adapterQ', CommandsOf(j)) = a + n
    <3>1. Marked(Append(adapterQ, m), CommandsOf(j)) = a + (IF m \in CommandsOf(j) THEN 1 ELSE 0)
      BY <1>2, <1>3, MarkedAppended
    <3> QED BY <2>2, <2>5, <3>1
  <2>6. CASE Open
    <3>1. Request \notin RequestsOf(j)
      BY <2>6 DEF Open, Serve, RequestsOf
    <3>2. PICK m \in AdapterMsgs : m = [type |-> "engineUp"]
      BY CommandTypes
    <3>3. m \notin CommandsOf(j)
      BY <3>2 DEF CommandsOf
    <3>4. adapterQ' = adapterQ \/ adapterQ' = Append(adapterQ, m)
      BY <2>6, <3>2 DEF Open
    <3> QED BY <2>4, <2>5, <3>1, <3>3, <3>4
  <2>7. CASE EngineRequest
    <3>1. PICK err \in Errors : Answer(err)
      BY <2>7 DEF EngineRequest, Errors
    <3>2. Request \in ApiMsgs /\ Request.op \notin {"open", "ssr"}
      BY <1>3, <2>1, <2>7 DEF EngineRequest, Serve, Request
    <3>3. CASE Request.cb = NoCallback
      <4>1. Request \notin RequestsOf(j) /\ adapterQ' = adapterQ
        BY <3>1, <3>3 DEF RequestsOf, Answer
      <4> QED BY <2>4, <4>1
    <3>4. CASE Request.cb # NoCallback
      <4>1. Request.cb \in Callbacks
        BY <3>2, <3>4, RequestFields DEF MaybeCallback
      <4>2. PICK m \in AdapterMsgs : m = [type |-> "response", cb |-> Request.cb, err |-> err]
        BY <4>1, CommandTypes
      <4>3. m \in CommandsOf(j) <=> Request \in RequestsOf(j)
        BY <3>2, <3>4, <4>2 DEF CommandsOf, RequestsOf
      <4>4. adapterQ' = Append(adapterQ, m)
        BY <3>1, <3>4, <4>2 DEF Answer
      <4> QED BY <2>5, <4>3, <4>4
    <3> QED BY <3>3, <3>4
  <2> QED BY <1>6, <2>6, <2>7 DEF ApiThread
<1> QED BY <1>5, <1>6

\* The hub's thread.
LEMMA HubAnswers ==
    ASSUME TypeOK, HubAnswersNobody, [Next]_vars
    PROVE  HubAnswersNobody'
<1>1. CASE HubReads
  <2>1. PICK e \in RestartEffects(nHzNeeded) :
            hub' = [hub EXCEPT !.at = "posting", !.requests = e.requests]
    BY <1>1 DEF HubReads
  <2>2. \A i \in DOMAIN e.requests : e.requests[i].cb = NoCallback
    BY RestartUnmarked DEF TypeOK
  <2>3. hub'.requests = e.requests
    BY <2>1 DEF TypeOK
  <2> QED BY <2>2, <2>3 DEF HubAnswersNobody
<1>2. CASE HubPosts
  BY <1>2 DEF HubPosts, HubAnswersNobody, TypeOK
<1>3. CASE NHzRequirement
  <2>1. hub'.requests = hub.requests
    BY <1>3 DEF NHzRequirement, TypeOK
  <2> QED BY <2>1 DEF HubAnswersNobody
<1>4. CASE ~Hub
  <2>1. hub' = hub
    BY <1>4, HandlerKeepsHub DEF Next, vars, Client, CreateInstance, UpdateCallbacks, Destroy,
              StartTrackingCommand, UpdateTrackingOptionsCommand, StopTrackingCommand,
              ReconfigureCommand, Call, Command, AdapterThread, ApiThread, Open, EngineRequest,
              Served, EngineDown, clientVars
  <2> QED BY <2>1 DEF HubAnswersNobody
<1> QED BY <1>1, <1>2, <1>3, <1>4 DEF Hub

LEMMA HubOwes ==
    ASSUME TypeOK, HubAnswersNobody, Hub, NEW j \in Keys, Owes(j)
    PROVE  Owes(j)'
<1>1. UNCHANGED <<lifecycle, owed, danglingUsed, pendingMsgs, adapterQ>>
  BY DEF Hub, NHzRequirement, HubReads, HubPosts, setupVars, replyVars, adapterVars
<1>2. Marked(apiQ', RequestsOf(j)) = Marked(apiQ, RequestsOf(j))
  <2>1. CASE HubPosts
    <3>1. apiQ' = apiQ \o hub.requests /\ apiQ \in Seq(ApiMsgs) /\ hub.requests \in Seq(ApiMsgs)
      BY <2>1 DEF HubPosts, TypeOK
    <3>2. \A i \in DOMAIN hub.requests : hub.requests[i] \notin RequestsOf(j)
      BY DEF HubAnswersNobody, RequestsOf
    <3>3. Marked(hub.requests, RequestsOf(j)) = 0
      BY <3>2, MarkedNone
    <3>4. Marked(apiQ \o hub.requests, RequestsOf(j))
            = Marked(apiQ, RequestsOf(j)) + Marked(hub.requests, RequestsOf(j))
      BY <3>1, MarkedJoined
    <3> QED BY <3>1, <3>3, <3>4, DueTypes
  <2>2. CASE NHzRequirement \/ HubReads
    BY <2>2 DEF NHzRequirement, HubReads
  <2> QED BY <2>1, <2>2 DEF Hub
<1>3. Due(j)' = Due(j)
  BY <1>1, <1>2 DEF Due
<1> QED BY <1>1, <1>3 DEF Owes

\* A client that is destroyed stays so.
LEMMA StaysDestroyed ==
    ASSUME TypeOK, [Next]_vars, NEW c \in Clients, lifecycle[c] = "destroyed"
    PROVE  lifecycle'[c] = "destroyed"
<1>1. lifecycle \in [Clients -> {"unborn", "alive", "destroyed"}]
  BY DEF TypeOK
<1>2. CASE Client
  <2>1. lifecycle' = lifecycle \/ \E d \in Clients : \E s :
            lifecycle[d] # "destroyed" /\ lifecycle' = [lifecycle EXCEPT ![d] = s]
    BY <1>2 DEF Client, CreateInstance, UpdateCallbacks, Destroy, StartTrackingCommand, Command,
                UpdateTrackingOptionsCommand, StopTrackingCommand, ReconfigureCommand
  <2> QED BY <1>1, <2>1
<1>3. CASE ApiThread \/ EngineDown \/ Hub
  BY <1>3 DEF ApiThread, Open, EngineRequest, Served, EngineDown, Hub, NHzRequirement, HubReads,
              HubPosts, clientVars
<1>4. CASE AdapterThread
  BY <1>4 DEF AdapterThread, Handler, AddClient, RemoveClientStopsOne, RemoveClient, Defer,
              StartTracking, UpdateTracking, StopTracking, EngineUp, Reconfigure, FixStarted,
              FixUpdated, FixStopped, DistanceStarted, DistanceStopped, ClientDistanceStopped,
              SwitchToTime, RestartDistance, DistanceRestarted, Done, clientVars
<1>5. CASE UNCHANGED vars
  BY <1>5 DEF vars
<1> QED BY <1>2, <1>3, <1>4, <1>5 DEF Next

\* What a step adds to the queue of the adapter: nothing, messages that remove nobody, or
\* the removal of a client that is gone.
Adds(m) == m.type # "removeClient" \/ lifecycle'[m.client] = "destroyed"

LEMMA AppendRemovals ==
    ASSUME TypeOK, [Next]_vars, RemovedAreDestroyed,
           \A i \in DOMAIN adapterQ' : Adds(adapterQ'[i]) \/ \E n \in DOMAIN adapterQ :
                                                         adapterQ'[i] = adapterQ[n]
    PROVE  RemovedAreDestroyed'
<1> SUFFICES ASSUME NEW i \in DOMAIN adapterQ', adapterQ'[i].type = "removeClient"
             PROVE  lifecycle'[adapterQ'[i].client] = "destroyed"
  BY DEF RemovedAreDestroyed
<1>1. CASE Adds(adapterQ'[i])
  BY <1>1 DEF Adds
<1>2. ASSUME NEW n \in DOMAIN adapterQ, adapterQ'[i] = adapterQ[n]
      PROVE  lifecycle'[adapterQ'[i].client] = "destroyed"
  <2>1. adapterQ[n] \in AdapterMsgs /\ adapterQ[n].type = "removeClient"
    BY <1>2, LenProperties, ElementOfSeq DEF TypeOK
  <2>2. adapterQ[n].client \in Clients
    BY <2>1, MessageFields
  <2>3. lifecycle[adapterQ[n].client] = "destroyed"
    BY <2>1 DEF RemovedAreDestroyed
  <2> QED BY <1>2, <2>2, <2>3, StaysDestroyed
<1> QED BY <1>1, <1>2

LEMMA RemovalsStep ==
    ASSUME TypeOK, [Next]_vars, RemovedAreDestroyed
    PROVE  RemovedAreDestroyed'
<1>1. adapterQ \in Seq(AdapterMsgs)
  BY DEF TypeOK
<1>2. ASSUME NEW m, adapterQ' = Append(adapterQ, m), Adds(m) PROVE RemovedAreDestroyed'
  <2>1. ASSUME NEW i \in DOMAIN adapterQ'
        PROVE  Adds(adapterQ'[i]) \/ \E n \in DOMAIN adapterQ : adapterQ'[i] = adapterQ[n]
    <3>1. \/ i \in DOMAIN adapterQ /\ Append(adapterQ, m)[i] = adapterQ[i]
          \/ Append(adapterQ, m)[i] = m
      BY <1>1, <1>2, <2>1
    <3> QED BY <1>2, <3>1
  <2> QED BY <2>1, AppendRemovals
<1>3. ASSUME adapterQ' = adapterQ PROVE RemovedAreDestroyed'
  BY <1>3, AppendRemovals
<1>4. ASSUME adapterQ # <<>>, adapterQ' = Tail(adapterQ) PROVE RemovedAreDestroyed'
  <2>1. ASSUME NEW i \in DOMAIN adapterQ' PROVE \E n \in DOMAIN adapterQ : adapterQ'[i] = adapterQ[n]
    <3>1. i + 1 \in DOMAIN adapterQ /\ Tail(adapterQ)[i] = adapterQ[i + 1]
      BY <1>1, <1>4, <2>1
    <3> QED BY <1>4, <3>1
  <2> QED BY <2>1, AppendRemovals
<1>5. CASE Client
  <2>1. PICK m : adapterQ' = Append(adapterQ, m) /\ Adds(m)
    <3>1. ASSUME NEW c \in Clients, Destroy(c) PROVE \E m : adapterQ' = Append(adapterQ, m) /\ Adds(m)
      <4>1. PICK m : m = [type |-> "removeClient", client |-> c]
        OBVIOUS
      <4>2. adapterQ' = Append(adapterQ, m)
        BY <3>1, <4>1 DEF Destroy, Call
      <4>3. lifecycle'[m.client] = "destroyed"
        BY <3>1, <4>1 DEF Destroy, TypeOK
      <4> QED BY <4>2, <4>3 DEF Adds
    <3>2. ASSUME NEW m, adapterQ' = Append(adapterQ, m), m.type # "removeClient"
          PROVE  \E x : adapterQ' = Append(adapterQ, x) /\ Adds(x)
      BY <3>2 DEF Adds
    <3>3. ASSUME NEW c \in Clients, NEW t, CreateInstance(c, t) \/ UpdateCallbacks(c, t)
          PROVE  \E m : adapterQ' = Append(adapterQ, m) /\ m.type # "removeClient"
      <4>1. PICK m : m = [type |-> "addClient", client |-> c, tracking |-> t]
        OBVIOUS
      <4> QED BY <3>3, <4>1 DEF CreateInstance, UpdateCallbacks, Call
    <3>4. ASSUME NEW c \in Clients, NEW o, StartTrackingCommand(c, o)
          PROVE  \E m : adapterQ' = Append(adapterQ, m) /\ m.type # "removeClient"
      <4>1. PICK m : m = [type |-> "startTracking", key |-> <<c, Len(owner) + 1>>, options |-> o]
        OBVIOUS
      <4> QED BY <3>4, <4>1 DEF StartTrackingCommand, Command
    <3>5. ASSUME NEW i, NEW o, UpdateTrackingOptionsCommand(i, o)
          PROVE  \E m : adapterQ' = Append(adapterQ, m) /\ m.type # "removeClient"
      <4>1. PICK m : m = [type |-> "updateTracking", key |-> <<owner[i], i>>, options |-> o]
        OBVIOUS
      <4> QED BY <3>5, <4>1 DEF UpdateTrackingOptionsCommand, Command
    <3>6. ASSUME NEW i, StopTrackingCommand(i)
          PROVE  \E m : adapterQ' = Append(adapterQ, m) /\ m.type # "removeClient"
      <4>1. PICK m : m = [type |-> "stopTracking", key |-> <<owner[i], i>>]
        OBVIOUS
      <4> QED BY <3>6, <4>1 DEF StopTrackingCommand, Command
    <3>7. ASSUME ReconfigureCommand
          PROVE  \E m : adapterQ' = Append(adapterQ, m) /\ m.type # "removeClient"
      <4>1. PICK m : adapterQ' = Append(adapterQ, m) /\ m = [type |-> "reconfigure"]
        BY <3>7 DEF ReconfigureCommand, Call
      <4> QED BY <4>1
    <3> QED BY <1>5, <3>1, <3>2, <3>3, <3>4, <3>5, <3>6, <3>7 DEF Client
  <2> QED BY <1>2, <2>1
<1>6. CASE ApiThread \/ EngineDown \/ Hub
  <2>1. \/ adapterQ' = adapterQ
        \/ \E cb, err : adapterQ' = Append(adapterQ, [type |-> "response", cb |-> cb, err |-> err])
        \/ adapterQ' = Append(adapterQ, [type |-> "engineUp"])
    BY <1>6 DEF ApiThread, Open, EngineRequest, Answer, EngineDown, Hub, NHzRequirement, HubReads,
                HubPosts
  <2>2. ASSUME NEW cb, NEW err PROVE Adds([type |-> "response", cb |-> cb, err |-> err])
    BY DEF Adds
  <2>3. Adds([type |-> "engineUp"])
    BY DEF Adds
  <2> QED BY <1>2, <1>3, <2>1, <2>2, <2>3
<1>7. CASE AdapterThread
  <2>1. \/ adapterQ # <<>> /\ adapterQ' = Tail(adapterQ)
        \/ EngineUp
        \/ adapterQ' = adapterQ
    BY <1>7 DEF AdapterThread, Handler, AddClient, RemoveClientStopsOne, RemoveClient, Defer,
              StartTracking, UpdateTracking, StopTracking, Reconfigure, FixStarted, FixUpdated,
              FixStopped, DistanceStarted, DistanceStopped, ClientDistanceStopped, SwitchToTime,
              RestartDistance, DistanceRestarted, Done, Response, Receive
  <2>2. CASE EngineUp
    <3>1. PICK ps \in Seq([msg : Commands, sent : BOOLEAN]) : ps = pendingMsgs
      BY DEF TypeOK
    <3>2. PICK msgs : msgs = [i \in DOMAIN ps |-> ps[i].msg]
      OBVIOUS
    <3>3. adapterQ # <<>> /\ adapterQ' = Tail(adapterQ) \o msgs
      BY <2>2, <3>1, <3>2 DEF EngineUp, Receive
    <3>4. PICK n \in Nat : DOMAIN ps = 1 .. n /\ \A i \in 1 .. n : ps[i] \in [msg : Commands, sent : BOOLEAN]
      <4>1. Len(ps) \in Nat /\ DOMAIN ps = 1 .. Len(ps)
        OBVIOUS
      <4>2. \A i \in 1 .. Len(ps) : ps[i] \in [msg : Commands, sent : BOOLEAN]
        BY <4>1, ElementOfSeq
      <4> QED BY <4>1, <4>2
    <3>5. msgs \in Seq(Commands)
      <4>1. \A i \in 1 .. n : msgs[i] \in Commands
        BY <3>2, <3>4
      <4>2. DOMAIN msgs = 1 .. n /\ msgs = [i \in 1 .. n |-> msgs[i]]
        BY <3>2, <3>4
      <4> QED BY <4>1, <4>2, MapToSeq
    <3>6. ASSUME NEW i \in DOMAIN adapterQ'
          PROVE  Adds(adapterQ'[i]) \/ \E x \in DOMAIN adapterQ : adapterQ'[i] = adapterQ[x]
      <4>1. PICK t \in Seq(AdapterMsgs) : t = Tail(adapterQ)
        <5>1. Tail(adapterQ) \in Seq(AdapterMsgs)
          BY <1>1, <3>3
        <5> QED BY <5>1
      <4>2. \/ i \in DOMAIN t /\ (t \o msgs)[i] = t[i]
            \/ i - Len(t) \in DOMAIN msgs /\ (t \o msgs)[i] = msgs[i - Len(t)]
        BY <3>3, <3>5, <3>6, <4>1
      <4>3. CASE i \in DOMAIN t /\ (t \o msgs)[i] = t[i]
        <5>1. i + 1 \in DOMAIN adapterQ /\ t[i] = adapterQ[i + 1]
          BY <1>1, <3>3, <4>1, <4>3
        <5> QED BY <3>3, <4>1, <4>3, <5>1
      <4>4. CASE i - Len(t) \in DOMAIN msgs /\ (t \o msgs)[i] = msgs[i - Len(t)]
        <5>1. msgs[i - Len(t)] \in Commands
          BY <3>5, <4>4
        <5>2. msgs[i - Len(t)].type # "removeClient"
          BY <5>1 DEF Commands
        <5> QED BY <3>3, <4>1, <4>4, <5>2 DEF Adds
      <4> QED BY <4>2, <4>3, <4>4
    <3> QED BY <3>6, AppendRemovals
  <2> QED BY <1>3, <1>4, <2>1, <2>2
<1>8. CASE UNCHANGED vars
  BY <1>3, <1>8 DEF vars
<1> QED BY <1>5, <1>6, <1>7, <1>8 DEF Next

LEMMA InitAnswers == Init => AnswersInv
<1> SUFFICES ASSUME Init PROVE AnswersInv
  OBVIOUS
<1>1. adapterQ = <<>> /\ pendingMsgs = <<>> /\ apiQ = << [op |-> "open"] >>
  BY DEF Init
<1>2. RemovedAreDestroyed
  BY <1>1 DEF RemovedAreDestroyed
<1>3. ASSUME NEW k \in Keys PROVE Owes(k)
  <2>1. Marked(adapterQ, CommandsOf(k)) = 0 /\ Marked(pendingMsgs, WaitingOf(k)) = 0
    BY <1>1, NoMarks
  <2>2. [op |-> "open"] \notin RequestsOf(k)
    BY DEF RequestsOf
  <2>3. Marked(apiQ, RequestsOf(k)) = 0
    BY <1>1, <2>2, MarkedOne
  <2>4. Due(k) = 0
    BY <2>1, <2>3 DEF Due
  <2>5. owed[k] = 0
    BY DEF Init
  <2> QED BY <2>4, <2>5 DEF Owes
<1>4. HubAnswersNobody
  BY DEF Init, HubAnswersNobody
<1> QED BY <1>2, <1>3, <1>4 DEF AnswersInv

\* A command is never answered twice, with every kind of session and whatever crashes and
\* refusals meet it: as many responses stay owed to a session as its commands, requests
\* and answers under way may still bring, until its client goes.
THEOREM NobodyAnsweredTwice == Spec => []AnsweredAtMostOnce
<1>1. TypeOK /\ TypeOK' /\ AnswersInv /\ [Next]_vars => AnswersInv'
  <2> SUFFICES ASSUME TypeOK, TypeOK', AnswersInv, [Next]_vars PROVE AnswersInv'
    OBVIOUS
  <2>1. RemovedAreDestroyed'
    BY RemovalsStep DEF AnswersInv
  <2>2. ASSUME NEW j \in Keys PROVE Owes(j)'
    <3>1. Owes(j) /\ RemovedAreDestroyed /\ HubAnswersNobody
      BY DEF AnswersInv
    <3>2. CASE Client
      BY <3>1, <3>2, ClientOwes
    <3>3. CASE ApiThread \/ EngineDown
      BY <3>1, <3>3, ApiOwes
    <3>4. CASE AdapterThread
      BY <3>1, <3>4, SilentSteps, DeferOwes, CommandOwes, ResponseOwes, RemovalOwes, EngineUpOwes
         DEF AdapterThread, Handler
    <3>5. CASE Hub
      BY <3>1, <3>5, HubOwes
    <3>6. CASE UNCHANGED vars
      <4>1. Due(j)' = Due(j) /\ UNCHANGED <<lifecycle, owed, danglingUsed>>
        BY <3>6 DEF vars, Due
      <4> QED BY <3>1, <4>1 DEF Owes
    <3> QED BY <3>2, <3>3, <3>4, <3>5, <3>6 DEF Next
  <2>3. HubAnswersNobody'
    BY HubAnswers DEF AnswersInv
  <2> QED BY <2>1, <2>2, <2>3 DEF AnswersInv
<1>2. TypeOK /\ AnswersInv => AnsweredAtMostOnce
  BY DEF AnswersInv, Owes, AnsweredAtMostOnce
<1> QED BY <1>1, <1>2, InitAnswers, TypeCorrect, PTL DEF Spec
-----------------------------------------------------------------------------
(* A session that was stopped stays so                                      *)

\* Something of k is under way that may bring it back.
Coming(k) ==
    \/ \E i \in DOMAIN adapterQ : Brings(adapterQ[i], k)
    \/ \E i \in DOMAIN apiQ : Asked(apiQ[i], k)
    \/ \E i \in DOMAIN pendingMsgs : ~pendingMsgs[i].sent /\ Starts(pendingMsgs[i].msg, k)

\* Sessions are stopped after their ids were given away, so a start that is posted now is
\* not that of a session that was stopped.
EndsKnown(m) == \A k : Ends(m, k) => k[2] <= Len(owner)
AwaitsKnown(r) ==
    r.op \notin {"open", "ssr"} /\ r.cb # NoCallback /\ r.cb.then = "distanceStopped"
      => r.cb.key[2] <= Len(owner)
StopsKnown ==
    /\ \A k \in ended : k[2] <= Len(owner)
    /\ \A i \in DOMAIN adapterQ : EndsKnown(adapterQ[i])
    /\ \A i \in DOMAIN apiQ : AwaitsKnown(apiQ[i])

\* A stopped session is in no map, and nothing will bring it back.
StopsHold == \A k \in ended \ crossed : ~InMaps(k) /\ (danglingUsed \/ ~Coming(k))

FinalInv == HubAnswersNobody /\ StopsKnown /\ StopsHold

LEMMA UnderWayComing == \A k : UnderWay(k) <=> Coming(k) \/ InBoth(k)
BY DEF UnderWay, Coming, InBoth

LEMMA NumberedKeys ==
    ASSUME TypeOK
    PROVE  /\ Len(owner) \in Nat /\ \A k \in Keys : k[2] \in Nat
           /\ \A m \in AdapterMsgs : \A k : Ends(m, k) => k \in Keys
           /\ \A r \in ApiMsgs : r.op \notin {"open", "ssr"} /\ r.cb # NoCallback => r.cb.key \in Keys
<1>1. Len(owner) \in Nat
  BY DEF TypeOK
<1>2. \A k \in Keys : k[2] \in Nat
  BY GnssAssumption DEF GnssAssumption, Keys, Ids
<1>3. ASSUME NEW m \in AdapterMsgs, NEW k, Ends(m, k) PROVE k \in Keys
  <2>1. CASE m.type = "stopTracking"
    BY <1>3, <2>1, MessageFields DEF Ends
  <2>2. CASE m.type # "stopTracking"
    BY <1>3, <2>2, MessageFields, CallbackFields DEF Ends
  <2> QED BY <2>1, <2>2
<1>4. ASSUME NEW r \in ApiMsgs, r.op \notin {"open", "ssr"}, r.cb # NoCallback PROVE r.cb.key \in Keys
  BY <1>4, RequestFields, CallbackFields DEF MaybeCallback
<1> QED BY <1>1, <1>2, <1>3, <1>4

\* What the adapter thread posts and takes, message by message.
LEMMA MovedMessages ==
    ASSUME TypeOK, NEW r \in Seq(ApiMsgs), NEW p \in Seq(AdapterMsgs), Moves(r, p)
    PROVE  /\ Message = adapterQ[1] /\ 1 \in DOMAIN adapterQ
           /\ \A i \in DOMAIN adapterQ' : \/ \E j \in DOMAIN adapterQ : adapterQ'[i] = adapterQ[j]
                                         \/ \E j \in DOMAIN p : adapterQ'[i] = p[j]
           /\ \A i \in DOMAIN apiQ' : \/ \E j \in DOMAIN apiQ : apiQ'[i] = apiQ[j]
                                     \/ \E j \in DOMAIN r : apiQ'[i] = r[j]
<1>1. adapterQ \in Seq(AdapterMsgs) /\ apiQ \in Seq(ApiMsgs) /\ adapterQ # <<>>
  BY DEF TypeOK, Moves
<1>2. Message = adapterQ[1] /\ 1 \in DOMAIN adapterQ
  BY <1>1 DEF Message
<1>3. ASSUME NEW i \in DOMAIN adapterQ'
      PROVE  \/ \E j \in DOMAIN adapterQ : adapterQ'[i] = adapterQ[j]
             \/ \E j \in DOMAIN p : adapterQ'[i] = p[j]
  <2>1. CASE adapterQ' = adapterQ
    BY <1>3, <2>1
  <2>2. CASE adapterQ' = Tail(adapterQ) \o p
    <3>1. PICK t \in Seq(AdapterMsgs) : t = Tail(adapterQ)
      <4>1. Tail(adapterQ) \in Seq(AdapterMsgs)
        BY <1>1
      <4> QED BY <4>1
    <3>2. \/ i \in DOMAIN t /\ (t \o p)[i] = t[i]
          \/ i - Len(t) \in DOMAIN p /\ (t \o p)[i] = p[i - Len(t)]
      BY <1>3, <2>2, <3>1, LenProperties, ConcatProperties
    <3>3. i \in DOMAIN t => i + 1 \in DOMAIN adapterQ /\ t[i] = adapterQ[i + 1]
      BY <1>1, <3>1
    <3> QED BY <2>2, <3>1, <3>2, <3>3
  <2> QED BY <2>1, <2>2 DEF Moves
<1>4. ASSUME NEW i \in DOMAIN apiQ'
      PROVE  \/ \E j \in DOMAIN apiQ : apiQ'[i] = apiQ[j]
             \/ \E j \in DOMAIN r : apiQ'[i] = r[j]
  <2>1. \/ i \in DOMAIN apiQ /\ (apiQ \o r)[i] = apiQ[i]
        \/ i - Len(apiQ) \in DOMAIN r /\ (apiQ \o r)[i] = r[i - Len(apiQ)]
    BY <1>1, <1>4, LenProperties, ConcatProperties DEF Moves
  <2> QED BY <2>1 DEF Moves
<1> QED BY <1>2, <1>3, <1>4

LEMMA AdapterStopsKnown ==
    ASSUME TypeOK, StopsKnown, NEW r \in Seq(ApiMsgs), NEW p \in Seq(AdapterMsgs), Moves(r, p)
    PROVE  StopsKnown'
<1>1. owner' = owner /\ EndsKnown(Message)
  BY MovedMessages DEF Moves, StopsKnown
<1>2. \A k \in ended' : k[2] <= Len(owner)'
  BY <1>1 DEF Moves, StopsKnown, EndsKnown
<1>3. ASSUME NEW i \in DOMAIN adapterQ' PROVE EndsKnown(adapterQ'[i])
  <2>1. ASSUME NEW j \in DOMAIN p PROVE EndsKnown(p[j])
    <3>1. p[j] \in Commands
      BY DEF Moves
    <3>2. p[j].type \in {"startTracking", "updateTracking"}
      BY <3>1 DEF Commands
    <3> QED BY <3>2 DEF EndsKnown, Ends
  <2> QED BY <1>3, <2>1, MovedMessages DEF StopsKnown
<1>4. ASSUME NEW i \in DOMAIN apiQ' PROVE AwaitsKnown(apiQ'[i])
  <2>1. ASSUME NEW j \in DOMAIN r PROVE AwaitsKnown(r[j])
    <3>1. Harmless(r[j].cb)
      BY DEF Moves, Innocent
    <3> QED BY <1>1, <3>1 DEF Harmless, AwaitsKnown, EndsKnown, Ends
  <2> QED BY <1>4, <2>1, MovedMessages DEF StopsKnown
<1> QED BY <1>1, <1>2, <1>3, <1>4 DEF StopsKnown, EndsKnown, AwaitsKnown

\* The adapter thread ends sessions, and lets no ended one come back.
LEMMA AdapterStopsHold ==
    ASSUME TypeOK, StopsHold, AdapterThread
    PROVE  StopsHold'
<1>1. PICK r \in Seq(ApiMsgs), p \in Seq(AdapterMsgs) : Moves(r, p)
  BY HandlerMoves DEF AdapterThread
<1>2. ASSUME NEW k, k \in ended' \ crossed'
      PROVE  /\ ~Coming(k) /\ ~InMaps(k)' /\ (InMaps(k) => Message.type # "updateTracking")
  <2>1. crossed' = crossed \cup {c \in ended' \ ended : UnderWay(c)}
    BY DEF AdapterThread
  <2>2. ~danglingUsed
    BY <1>1 DEF Moves
  <2>3. CASE k \in ended
    <3>1. ~InMaps(k) /\ ~Coming(k)
      BY <1>2, <2>1, <2>2, <2>3 DEF StopsHold
    <3>2. ~Brings(Message, k)
      BY <1>1, <3>1, MovedMessages DEF Coming
    <3>3. PICK c : c = k
      OBVIOUS
    <3>4. ~InMaps(c)'
      BY <1>1, <3>1, <3>2, <3>3 DEF Moves
    <3> QED BY <3>1, <3>3, <3>4
  <2>4. CASE k \notin ended
    <3>1. ~UnderWay(k)
      BY <1>2, <2>1, <2>4
    <3>2. ~Coming(k) /\ ~InBoth(k)
      BY <3>1, UnderWayComing
    <3>3. PICK c : c = k
      OBVIOUS
    <3>4. Ends(Message, c) /\ (~InMaps(c)' \/ InBoth(c))
      BY <1>1, <1>2, <2>4, <3>3 DEF Moves
    <3> QED BY <3>2, <3>3, <3>4 DEF Ends
  <2> QED BY <2>3, <2>4
<1>3. ASSUME NEW k, k \in ended' \ crossed', ~danglingUsed' PROVE ~Coming(k)'
  <2>1. ~Coming(k) /\ (InMaps(k) => Message.type # "updateTracking")
    BY <1>2, <1>3
  <2>2. ~Brings(Message, k) /\ ~Restorable(k)
    BY <1>1, <2>1, MovedMessages DEF Coming, Restorable
  <2>3. ASSUME NEW i \in DOMAIN adapterQ' PROVE ~Brings(adapterQ'[i], k)
    <3>1. ASSUME NEW j \in DOMAIN p PROVE ~Brings(p[j], k)
      <4>1. p[j] \in Commands /\ \E n \in DOMAIN pendingMsgs : /\ pendingMsgs[n].msg = p[j]
                                                              /\ ~pendingMsgs[n].sent
        BY <1>1, <1>3 DEF Moves
      <4>2. p[j].type # "response" /\ ~Starts(p[j], k)
        BY <2>1, <4>1 DEF Coming, Commands
      <4> QED BY <4>2 DEF Brings
    <3>2. ASSUME NEW j \in DOMAIN adapterQ PROVE ~Brings(adapterQ[j], k)
      BY <2>1 DEF Coming
    <3> QED BY <1>1, <2>3, <3>1, <3>2, MovedMessages
  <2>4. ASSUME NEW i \in DOMAIN apiQ' PROVE ~Asked(apiQ'[i], k)
    <3>1. ASSUME NEW j \in DOMAIN r PROVE ~Asked(r[j], k)
      <4>1. Harmless(r[j].cb)
        BY <1>1 DEF Moves, Innocent
      <4> QED BY <2>2, <4>1 DEF Harmless, Asked
    <3>2. ASSUME NEW j \in DOMAIN apiQ PROVE ~Asked(apiQ[j], k)
      BY <2>1 DEF Coming
    <3> QED BY <1>1, <2>4, <3>1, <3>2, MovedMessages
  <2>5. ASSUME NEW i \in DOMAIN pendingMsgs', ~pendingMsgs'[i].sent
        PROVE  ~Starts(pendingMsgs'[i].msg, k)
    <3>1. CASE pendingMsgs'[i].msg = Message
      BY <2>2, <3>1 DEF Brings
    <3>2. CASE i \in DOMAIN pendingMsgs /\ pendingMsgs[i] = pendingMsgs'[i]
      BY <2>1, <2>5, <3>2 DEF Coming
    <3> QED BY <1>1, <2>5, <3>1, <3>2 DEF Moves
  <2> QED BY <2>3, <2>4, <2>5 DEF Coming
<1> QED BY <1>2, <1>3 DEF StopsHold

\* A call of a client: no start of a session that was stopped.
Calling(m) ==
    /\ adapterQ' = Append(adapterQ, m)
    /\ UNCHANGED <<timeBased, distanceBased, pendingMsgs, apiQ, ended, crossed, danglingUsed>>
    /\ Len(owner)' >= Len(owner)
    /\ \A k : ~Ends(m, k) \/ k[2] <= Len(owner)
    /\ \A k : ~Brings(m, k) \/ k[2] = Len(owner) + 1

LEMMA ClientCalling ==
    ASSUME TypeOK, Client
    PROVE  \E m \in AdapterMsgs : Calling(m)
<1>1. owner \in Seq(Clients) /\ Len(owner) \in Nat
  BY DEF TypeOK
<1>2. ASSUME NEW m \in AdapterMsgs, Call(m), owner' = owner,
             m.type \in {"addClient", "removeClient", "reconfigure"}
      PROVE  Calling(m)
  <2>1. \A k : ~Ends(m, k) /\ ~Brings(m, k)
    BY <1>2 DEF Ends, Brings, Starts
  <2> QED BY <1>1, <1>2, <2>1 DEF Calling, Call, adapterVars, historyVars
<1>3. ASSUME NEW k \in Keys, NEW m \in AdapterMsgs, Command(k, m), Len(owner') >= Len(owner),
             \A c : ~Ends(m, c) \/ c[2] <= Len(owner),
             \A c : ~Brings(m, c) \/ c[2] = Len(owner) + 1
      PROVE  Calling(m)
  BY <1>3 DEF Calling, Command, sessionVars, historyVars
<1>4. ASSUME NEW c \in Clients, NEW t \in TrackingCbs, CreateInstance(c, t) \/ UpdateCallbacks(c, t)
      PROVE  \E m \in AdapterMsgs : Calling(m)
  <2>1. PICK m \in AdapterMsgs : m = [type |-> "addClient", client |-> c, tracking |-> t]
    BY CommandTypes, GnssAssumption DEF GnssAssumption
  <2>2. Call(m) /\ m.type = "addClient" /\ owner' = owner
    BY <1>4, <2>1 DEF CreateInstance, UpdateCallbacks
  <2> QED BY <1>2, <2>2
<1>5. ASSUME NEW c \in Clients, Destroy(c) PROVE \E m \in AdapterMsgs : Calling(m)
  <2>1. PICK m \in AdapterMsgs : m = [type |-> "removeClient", client |-> c]
    BY CommandTypes
  <2>2. Call(m) /\ m.type = "removeClient" /\ owner' = owner
    BY <1>5, <2>1 DEF Destroy
  <2> QED BY <1>2, <2>2
<1>6. ASSUME NEW c \in Clients, NEW o \in StartOptions, StartTrackingCommand(c, o)
      PROVE  \E m \in AdapterMsgs : Calling(m)
  <2>1. PICK k \in Keys : k = <<c, Len(owner) + 1>>
    <3>1. Len(owner) \in Nat /\ Len(owner) < MaxId /\ MaxId \in Nat
      BY <1>1, <1>6, GnssAssumption DEF GnssAssumption, StartTrackingCommand
    <3>2. <<c, Len(owner) + 1>> \in Keys
      BY <3>1 DEF Keys, Ids
    <3> QED BY <3>2
  <2>2. PICK m \in AdapterMsgs : m = [type |-> "startTracking", key |-> k, options |-> o]
    BY CommandTypes, GnssAssumption DEF GnssAssumption
  <2>3. Command(k, m) /\ owner' = Append(owner, c)
    BY <1>6, <2>1, <2>2 DEF StartTrackingCommand
  <2>4. Len(owner') >= Len(owner)
    BY <1>1, <2>3
  <2>5. m.type = "startTracking" /\ m.key = k /\ k[2] = Len(owner) + 1
    BY <2>1, <2>2
  <2>6. \A j : ~Ends(m, j) /\ (~Brings(m, j) \/ j[2] = Len(owner) + 1)
    BY <2>5 DEF Ends, Brings, Starts
  <2> QED BY <1>3, <2>3, <2>4, <2>6
<1>7. ASSUME NEW i \in DOMAIN owner,
             \/ \E o \in UpdateOptions : UpdateTrackingOptionsCommand(i, o)
             \/ StopTrackingCommand(i)
      PROVE  \E m \in AdapterMsgs : Calling(m)
  <2>1. PICK k \in Keys : k = <<owner[i], i>>
    <3>1. <<owner[i], i>> \in Keys
      BY LenProperties, ElementOfSeq, GnssAssumption DEF GnssAssumption, TypeOK, Keys, Ids
    <3> QED BY <3>1
  <2>2. k[2] <= Len(owner)
    BY <1>1, <2>1
  <2>3. CASE StopTrackingCommand(i)
    <3>1. PICK m \in AdapterMsgs : m = [type |-> "stopTracking", key |-> k]
      BY CommandTypes
    <3>2. Command(k, m) /\ owner' = owner /\ m.type = "stopTracking" /\ m.key = k
      BY <2>1, <2>3, <3>1 DEF StopTrackingCommand
    <3>3. \A j : (~Ends(m, j) \/ j[2] <= Len(owner)) /\ ~Brings(m, j)
      BY <2>2, <3>2 DEF Ends, Brings, Starts
    <3> QED BY <1>1, <1>3, <3>2, <3>3
  <2>4. ASSUME NEW o \in UpdateOptions, UpdateTrackingOptionsCommand(i, o)
        PROVE  \E m \in AdapterMsgs : Calling(m)
    <3>1. PICK m \in AdapterMsgs : m = [type |-> "updateTracking", key |-> k, options |-> o]
      BY CommandTypes, GnssAssumption DEF GnssAssumption
    <3>2. Command(k, m) /\ owner' = owner /\ m.type = "updateTracking"
      BY <2>1, <2>4, <3>1 DEF UpdateTrackingOptionsCommand
    <3>3. \A j : ~Ends(m, j) /\ ~Brings(m, j)
      BY <3>2 DEF Ends, Brings, Starts
    <3> QED BY <1>1, <1>3, <3>2, <3>3
  <2> QED BY <1>7, <2>3, <2>4
<1>8. ASSUME ReconfigureCommand PROVE \E m \in AdapterMsgs : Calling(m)
  <2>1. PICK m \in AdapterMsgs : Call(m) /\ m.type = "reconfigure" /\ owner' = owner
    BY <1>8, CommandTypes DEF ReconfigureCommand
  <2> QED BY <1>2, <2>1
<1> QED BY <1>4, <1>5, <1>6, <1>7, <1>8 DEF Client

LEMMA ClientStops ==
    ASSUME TypeOK, StopsKnown, StopsHold, Client
    PROVE  StopsKnown' /\ StopsHold'
<1>1. PICK m \in AdapterMsgs : Calling(m)
  BY ClientCalling
<1>2. Len(owner)' \in Nat /\ Len(owner) \in Nat /\ Len(owner)' >= Len(owner)
  <2>1. Len(owner)' \in Nat
    BY DEF TypeOK, Client, CreateInstance, UpdateCallbacks, Destroy, StartTrackingCommand,
           UpdateTrackingOptionsCommand, StopTrackingCommand, ReconfigureCommand
  <2> QED BY <1>1, <2>1, NumberedKeys DEF Calling
<1>3. adapterQ \in Seq(AdapterMsgs) /\ apiQ \in Seq(ApiMsgs) /\ ended \subseteq Keys
  BY DEF TypeOK
<1>4. ASSUME NEW k \in Keys, k[2] <= Len(owner) PROVE k[2] <= Len(owner)'
  BY <1>2, <1>4, NumberedKeys
<1>5. ASSUME NEW i \in DOMAIN adapterQ'
      PROVE  \/ adapterQ'[i] = m
             \/ \E j \in DOMAIN adapterQ : adapterQ'[i] = adapterQ[j]
  BY <1>1, <1>3, <1>5 DEF Calling
<1>6. StopsKnown'
  <2>1. \A k \in ended' : k[2] <= Len(owner)'
    BY <1>1, <1>3, <1>4 DEF Calling, StopsKnown
  <2>2. ASSUME NEW i \in DOMAIN adapterQ', NEW k, Ends(adapterQ'[i], k) PROVE k[2] <= Len(owner)'
    <3>1. adapterQ'[i] \in AdapterMsgs /\ k[2] <= Len(owner)
      BY <1>1, <1>3, <1>5, <2>2 DEF Calling, StopsKnown, EndsKnown
    <3>2. k \in Keys
      BY <2>2, <3>1, NumberedKeys
    <3> QED BY <1>4, <3>1, <3>2
  <2>3. ASSUME NEW i \in DOMAIN apiQ, apiQ[i].op \notin {"open", "ssr"}, apiQ[i].cb # NoCallback,
               apiQ[i].cb.then = "distanceStopped"
        PROVE  apiQ[i].cb.key[2] <= Len(owner)'
    <3>1. apiQ[i] \in ApiMsgs
      BY <1>3
    <3>2. apiQ[i].cb.key \in Keys
      BY <2>3, <3>1, NumberedKeys
    <3>3. apiQ[i].cb.key[2] <= Len(owner)
      BY <2>3 DEF StopsKnown, AwaitsKnown
    <3> QED BY <1>4, <3>2, <3>3
  <2>4. apiQ' = apiQ
    BY <1>1 DEF Calling
  <2> QED BY <2>1, <2>2, <2>3, <2>4 DEF StopsKnown, EndsKnown, AwaitsKnown
<1>7. ASSUME NEW k \in ended' \ crossed' PROVE ~InMaps(k)' /\ (danglingUsed' \/ ~Coming(k)')
  <2>1. k \in ended \ crossed /\ k \in Keys
    BY <1>1, <1>3, <1>7 DEF Calling
  <2>2. PICK c : c = k
    OBVIOUS
  <2>3. ~InMaps(c) /\ (danglingUsed \/ ~Coming(c))
    BY <2>1, <2>2 DEF StopsHold
  <2>4. ~InMaps(c)'
    BY <1>1, <2>3 DEF InMaps, Calling
  <2>5. ~Brings(m, c)
    <3>1. c[2] <= Len(owner) /\ c[2] \in Nat
      BY <2>1, <2>2, NumberedKeys DEF StopsKnown
    <3>2. c[2] # Len(owner) + 1
      BY <1>2, <3>1
    <3> QED BY <1>1, <3>2 DEF Calling
  <2>6. danglingUsed' \/ ~Coming(c)'
    BY <1>1, <1>5, <2>3, <2>5 DEF Coming, Calling
  <2> QED BY <2>2, <2>4, <2>6
<1> QED BY <1>6, <1>7 DEF StopsHold

\* The API thread answers what was asked; the hub asks for no answer.
LEMMA OtherStops ==
    ASSUME TypeOK, HubAnswersNobody, StopsKnown, StopsHold, ApiThread \/ EngineDown \/ Hub
    PROVE  StopsKnown' /\ StopsHold'
<1>1. UNCHANGED <<timeBased, distanceBased, pendingMsgs, ended, crossed, danglingUsed, owner>>
  BY DEF ApiThread, Open, EngineRequest, Served, EngineDown, Hub, NHzRequirement, HubReads, HubPosts,
         clientVars, adapterVars, historyVars, sessionVars, setupVars
<1>2. adapterQ \in Seq(AdapterMsgs) /\ apiQ \in Seq(ApiMsgs) /\ hub.requests \in Seq(ApiMsgs)
  BY DEF TypeOK
<1>3. ASSUME NEW i \in DOMAIN apiQ'
      PROVE  \/ \E j \in DOMAIN apiQ : apiQ'[i] = apiQ[j]
             \/ apiQ'[i].op = "ssr" \/ apiQ'[i].cb = NoCallback
  <2>1. CASE ApiThread
    <3>1. apiQ # <<>> /\ apiQ' = Tail(apiQ)
      BY <2>1 DEF ApiThread, Open, EngineRequest, Serve, Served
    <3>2. i + 1 \in DOMAIN apiQ /\ Tail(apiQ)[i] = apiQ[i + 1]
      BY <1>2, <1>3, <3>1
    <3> QED BY <3>1, <3>2
  <2>2. CASE EngineDown
    <3>1. PICK m : m = [op |-> "ssr"] /\ apiQ' = Append(apiQ, m)
      BY <2>2 DEF EngineDown
    <3>2. (i \in DOMAIN apiQ /\ Append(apiQ, m)[i] = apiQ[i]) \/ Append(apiQ, m)[i] = m
      BY <1>2, <1>3, <3>1
    <3> QED BY <3>1, <3>2
  <2>3. CASE HubPosts
    <3>1. apiQ' = apiQ \o hub.requests
      BY <2>3 DEF HubPosts
    <3>2. \/ i \in DOMAIN apiQ /\ (apiQ \o hub.requests)[i] = apiQ[i]
          \/ \E j \in DOMAIN hub.requests : (apiQ \o hub.requests)[i] = hub.requests[j]
      BY <1>2, <1>3, <3>1, LenProperties, ConcatProperties
    <3> QED BY <3>1, <3>2 DEF HubAnswersNobody
  <2>4. CASE NHzRequirement \/ HubReads
    BY <1>3, <2>4 DEF NHzRequirement, HubReads
  <2> QED BY <2>1, <2>2, <2>3, <2>4 DEF Hub
<1>4. ASSUME NEW i \in DOMAIN adapterQ'
      PROVE  \/ \E j \in DOMAIN adapterQ : adapterQ'[i] = adapterQ[j]
             \/ adapterQ'[i].type = "engineUp"
             \/ /\ adapterQ'[i].type = "response"
                /\ \E j \in DOMAIN apiQ : /\ apiQ[j].op \notin {"open", "ssr"}
                                          /\ apiQ[j].cb # NoCallback
                                          /\ apiQ[j].cb = adapterQ'[i].cb
  <2>1. CASE adapterQ' = adapterQ
    BY <1>4, <2>1
  <2>2. ASSUME NEW m, adapterQ' = Append(adapterQ, m)
        PROVE  (\E j \in DOMAIN adapterQ : adapterQ'[i] = adapterQ[j]) \/ adapterQ'[i] = m
    BY <1>2, <1>4, <2>2
  <2>3. CASE Open
    <3>1. PICK m : m = [type |-> "engineUp"]
      OBVIOUS
    <3>2. adapterQ' = adapterQ \/ adapterQ' = Append(adapterQ, m)
      BY <2>3, <3>1 DEF Open
    <3> QED BY <2>1, <2>2, <3>1, <3>2
  <2>4. CASE EngineRequest
    <3>1. apiQ # <<>> /\ Request.op \notin {"open", "ssr"} /\ \E err : Answer(err)
      BY <2>4 DEF EngineRequest, Serve
    <3>2. 1 \in DOMAIN apiQ /\ Request = apiQ[1]
      BY <1>2, <3>1 DEF Request
    <3>3. PICK err : Answer(err)
      BY <3>1
    <3>4. CASE Request.cb = NoCallback
      BY <2>1, <3>3, <3>4 DEF Answer
    <3>5. CASE Request.cb # NoCallback
      <4>1. PICK m : m = [type |-> "response", cb |-> Request.cb, err |-> err]
        OBVIOUS
      <4>2. adapterQ' = Append(adapterQ, m)
        BY <3>3, <3>5, <4>1 DEF Answer
      <4>3. m.type = "response" /\ m.cb = Request.cb
        BY <4>1
      <4> QED BY <2>2, <3>1, <3>2, <3>5, <4>2, <4>3
    <3> QED BY <3>4, <3>5
  <2>5. CASE EngineDown \/ Hub
    BY <2>1, <2>5 DEF EngineDown, Hub, NHzRequirement, HubReads, HubPosts
  <2> QED BY <2>3, <2>4, <2>5 DEF ApiThread
<1>5. StopsKnown'
  <2>1. ASSUME NEW i \in DOMAIN apiQ' PROVE AwaitsKnown(apiQ'[i])
    BY <1>3, <2>1 DEF StopsKnown, AwaitsKnown
  <2>2. ASSUME NEW i \in DOMAIN adapterQ' PROVE EndsKnown(adapterQ'[i])
    <3>1. CASE \E j \in DOMAIN adapterQ : adapterQ'[i] = adapterQ[j]
      BY <3>1 DEF StopsKnown
    <3>2. CASE adapterQ'[i].type = "engineUp"
      BY <3>2 DEF EndsKnown, Ends
    <3>3. ASSUME NEW j \in DOMAIN apiQ, adapterQ'[i].type = "response",
                 apiQ[j].op \notin {"open", "ssr"}, apiQ[j].cb # NoCallback,
                 apiQ[j].cb = adapterQ'[i].cb
          PROVE  EndsKnown(adapterQ'[i])
      BY <3>3 DEF StopsKnown, AwaitsKnown, EndsKnown, Ends
    <3> QED BY <1>4, <2>2, <3>1, <3>2, <3>3
  <2> QED BY <1>1, <2>1, <2>2 DEF StopsKnown, AwaitsKnown, EndsKnown
<1>6. ASSUME NEW k \in ended' \ crossed' PROVE ~InMaps(k)' /\ (danglingUsed' \/ ~Coming(k)')
  <2>1. PICK c : c = k
    OBVIOUS
  <2>2. ~InMaps(c) /\ (danglingUsed \/ ~Coming(c))
    BY <1>1, <1>6, <2>1 DEF StopsHold
  <2>3. ~InMaps(c)'
    BY <1>1, <2>2 DEF InMaps
  <2>4. ASSUME ~Coming(c) PROVE ~Coming(c)'
    <3>1. ASSUME NEW i \in DOMAIN apiQ' PROVE ~Asked(apiQ'[i], c)
      BY <1>3, <2>4, <3>1 DEF Coming, Asked
    <3>2. ASSUME NEW i \in DOMAIN adapterQ' PROVE ~Brings(adapterQ'[i], c)
      BY <1>4, <2>4, <3>2 DEF Coming, Asked, Brings, Starts
    <3> QED BY <1>1, <2>4, <3>1, <3>2 DEF Coming
  <2> QED BY <1>1, <2>1, <2>2, <2>3, <2>4
<1> QED BY <1>5, <1>6 DEF StopsHold

LEMMA InitFinal == Init => FinalInv
<1> SUFFICES ASSUME Init PROVE FinalInv
  OBVIOUS
<1>1. /\ DOMAIN adapterQ = {} /\ ended = {} /\ DOMAIN hub.requests = {}
      /\ apiQ = << [op |-> "open"] >>
  BY DEF Init
<1>2. ASSUME NEW i \in DOMAIN apiQ PROVE apiQ[i].op = "open"
  BY <1>1, <1>2
<1> QED BY <1>1, <1>2 DEF FinalInv, HubAnswersNobody, StopsKnown, StopsHold, AwaitsKnown

\* A session that was stopped, or that stopTracking was told is unknown, never comes back
\* into the adapter's maps, whatever is refused, crashes or restarts and whatever kind of
\* session it was (stopTracking, startTracking, updateTracking, saveTrackingSession,
\* restartSessions): unless something that was under way at the stop brings it back,
\* nothing that is posted after it does.
THEOREM StopsAreFinal == Spec => []StopIsFinal
<1>1. TypeOK /\ FinalInv /\ [Next]_vars => FinalInv'
  <2> SUFFICES ASSUME TypeOK, FinalInv, [Next]_vars PROVE FinalInv'
    OBVIOUS
  <2>1. HubAnswersNobody /\ StopsKnown /\ StopsHold
    BY DEF FinalInv
  <2>2. HubAnswersNobody'
    BY <2>1, HubAnswers
  <2>3. StopsKnown' /\ StopsHold'
    <3>1. CASE Client
      BY <2>1, <3>1, ClientStops
    <3>2. CASE AdapterThread
      <4>1. PICK r \in Seq(ApiMsgs), p \in Seq(AdapterMsgs) : Moves(r, p)
        BY <3>2, HandlerMoves DEF AdapterThread
      <4> QED BY <2>1, <3>2, <4>1, AdapterStopsKnown, AdapterStopsHold
    <3>3. CASE ApiThread \/ EngineDown \/ Hub
      BY <2>1, <3>3, OtherStops
    <3>4. CASE UNCHANGED vars
      BY <2>1, <3>4 DEF vars, StopsKnown, EndsKnown, AwaitsKnown, StopsHold, InMaps, Coming
    <3> QED BY <3>1, <3>2, <3>3, <3>4 DEF Next
  <2> QED BY <2>2, <2>3 DEF FinalInv
<1>2. FinalInv => StopIsFinal
  BY DEF FinalInv, StopsHold, StopIsFinal, InMaps
<1> QED BY <1>1, <1>2, InitFinal, TypeCorrect, PTL DEF Spec

-----------------------------------------------------------------------------
(* Time-based sessions on an engine that neither refuses nor crashes         *)

\* All sessions are time-based, and the engine neither refuses a request nor crashes.
SteadyTime ==
    /\ ~EngineMayFail /\ MaxCrashes = 0
    /\ \A o \in StartOptions \cup UpdateOptions : o.distance = 0

FixCallbacks == {"fixStarted", "fixUpdated", "fixStopped"}

CalmMessage(m) ==
    /\ m.type \in {"startTracking", "updateTracking"} => m.options.distance = 0
    /\ m.type = "response" => m.cb.then \in FixCallbacks /\ m.err = "SUCCESS"
CalmRequest(r) ==
    /\ r.op \in {"open", "startFix", "stopFix"}
    /\ r.op # "open" => r.cb = NoCallback \/ r.cb.then \in FixCallbacks

\* Nothing under way is about distances, and the engine opens before it is asked for a fix.
Calm ==
    /\ DOMAIN distanceBased = {} /\ pendingMsgs = <<>>
    /\ \A i \in DOMAIN adapterQ : CalmMessage(adapterQ[i])
    /\ \A i \in DOMAIN apiQ : CalmRequest(apiQ[i])
    /\ \A i \in DOMAIN hub.requests : CalmRequest(hub.requests[i])
    /\ engine.up \/ (apiQ # <<>> /\ apiQ[1].op = "open")

\* A client with a session is known.
Owned == \A k \in DOMAIN timeBased : k[1] \in DOMAIN clientData
WillRest == IF apiQ = <<>> THEN ~engine.running ELSE apiQ[Len(apiQ)].op \in {"open", "stopFix"}

\* Without sessions the last request under way, or the last that was carried out, leaves
\* the engine stopped, and the hub has nothing to request; unless what the hub had read
\* was changed meanwhile.
Rested ==
    raced \/ (DOMAIN timeBased = {} => WillRest /\ (hub.at = "posting" => hub.requests = <<>>))

IsStart(m) == m.type = "startTracking"

\* A step of the adapter that posts r.
Tamely(r) ==
    /\ apiQ' = apiQ \o r /\ \A i \in DOMAIN r : CalmRequest(r[i])
    /\ DOMAIN distanceBased' = {} /\ pendingMsgs' = <<>>
    /\ adapterQ # <<>>
    /\ \/ adapterQ' = Tail(adapterQ)
       \/ adapterQ' = adapterQ
    /\ UNCHANGED <<engine, hub>>
    /\ \A k \in DOMAIN timeBased' :
           k \in DOMAIN timeBased \/ (IsStart(Message) /\ k = Message.key /\ k[1] \in DOMAIN clientData)
    /\ \A k \in DOMAIN timeBased' : k[1] \in DOMAIN clientData => k[1] \in DOMAIN clientData'
    /\ DOMAIN timeBased' = {} =>
           \/ r = <<>> /\ DOMAIN timeBased = {}
           \/ r # <<>> /\ r[Len(r)].op = "stopFix"

\* The requests of an effect are for the fix session.
Tame(q) == \A i \in DOMAIN q : CalmRequest(q[i])

LEMMA TameNone == Tame(<<>>)
BY DEF Tame

LEMMA TameFix ==
    ASSUME NEW o, NEW cb, cb = NoCallback \/ cb.then \in FixCallbacks, NEW spe, NEW nHz,
           NEW e, e = RequestFix(o, cb, spe, nHz)
    PROVE  Tame(e.requests)
<1>1. CASE e.requests = <<>>
  BY <1>1, TameNone
<1>2. ASSUME NEW p, e.requests = <<StartFix(p, cb)>> PROVE Tame(e.requests)
  <2>1. CalmRequest(StartFix(p, cb))
    BY DEF CalmRequest, StartFix
  <2> QED BY <1>2, <2>1 DEF Tame
<1> QED BY <1>1, <1>2, RequestFixShape

LEMMA TameNoRequest ==
    ASSUME NEW e, e = NoRequest
    PROVE  Tame(e.requests)
BY TameNone DEF NoRequest, Effect

LEMMA TameJoin ==
    ASSUME NEW o, NEW f, NEW cb, cb.then \in FixCallbacks, NEW e \in JoinEffects(o, f, cb)
    PROVE  Tame(e.requests)
<1>1. PICK base, power :
          \/ e = RequestFix(Multiplexed(o, base, power), cb, speAtHighest, nHzNeeded)
          \/ e = NoRequest
  BY DEF JoinEffects
<1> QED BY <1>1, TameFix, TameNoRequest

LEMMA TameStart ==
    ASSUME NEW k, NEW o, NEW e \in StartEffects(k, o)
    PROVE  Tame(e.requests)
<1>1. PICK cb : cb = Then("fixStarted", k)
  OBVIOUS
<1>2. cb.then \in FixCallbacks
  BY <1>1 DEF Then, FixCallbacks
<1>3. \/ e = RequestFix(o, cb, speAtHighest, nHzNeeded)
      \/ e \in JoinEffects(o, timeBased, cb)
  BY <1>1 DEF StartEffects
<1> QED BY <1>2, <1>3, TameFix, TameJoin

LEMMA TameUpdate ==
    ASSUME NEW k, NEW o, NEW e \in UpdateEffects(k, o)
    PROVE  Tame(e.requests)
<1>1. PICK cb : cb = ThenWith("fixUpdated", k, timeBased[k])
  OBVIOUS
<1>2. cb.then \in FixCallbacks
  BY <1>1 DEF ThenWith, FixCallbacks
<1>3. \/ e = NoRequest
      \/ e = RequestFix(o, cb, speAtHighest, nHzNeeded)
      \/ e \in JoinEffects(o, Without(timeBased, k), cb)
  BY <1>1 DEF UpdateEffects
<1> QED BY <1>2, <1>3, TameNoRequest, TameFix, TameJoin

\* The last session to leave stops the engine.
LEMMA TameStop ==
    ASSUME NEW k, NEW e \in StopEffects(k)
    PROVE  /\ Tame(e.requests)
           /\ DOMAIN timeBased = {k} => e.requests # <<>> /\ e.requests[Len(e.requests)].op = "stopFix"
<1>1. ASSUME e = StopRequest(k)
      PROVE  /\ Tame(e.requests)
             /\ e.requests # <<>> /\ e.requests[Len(e.requests)].op = "stopFix"
  <2>1. PICK m : m = StopFix(Then("fixStopped", k))
    OBVIOUS
  <2>2. e.requests = <<m>>
    BY <1>1, <2>1 DEF StopRequest, Effect
  <2>3. CalmRequest(m) /\ m.op = "stopFix"
    BY <2>1 DEF CalmRequest, StopFix, Then, FixCallbacks
  <2> QED BY <2>2, <2>3 DEF Tame
<1>2. CASE DOMAIN timeBased = {k}
  BY <1>1, <1>2, StopCases
<1>3. CASE DOMAIN timeBased # {k}
  <2>1. PICK base \in SmallestInterval(Without(timeBased, k)),
             power \in LowestPower(Without(timeBased, k)) :
            \/ e = NoRequest
            \/ e = RequestFix(WithPower(base, power), Then("fixStarted", k),
                              speAtHighest, nHzNeeded)
    BY <1>3, StopCases
  <2>2. Then("fixStarted", k).then \in FixCallbacks
    BY DEF Then, FixCallbacks
  <2> QED BY <1>3, <2>1, <2>2, TameFix, TameNoRequest
<1> QED BY <1>2, <1>3

LEMMA TameRestart ==
    ASSUME TypeOK, DOMAIN distanceBased = {}, NEW nHz \in BOOLEAN, NEW e \in RestartEffects(nHz)
    PROVE  /\ Tame(e.requests)
           /\ DOMAIN timeBased = {} => e.requests = <<>>
<1>1. PICK q \in Seq(ApiMsgs), s \in InOrder(DOMAIN distanceBased) :
          /\ e.requests = q \o DistanceRequests(s)
          /\ q = <<>> \/ \E p : q = <<StartFix(p, NoCallback)>>
          /\ DOMAIN timeBased = {} => q = <<>>
  BY RestartShape
<1>2. DOMAIN s = {}
  <2>1. DOMAIN distanceBased \in SUBSET Keys
    BY DEF TypeOK, IsSessionMap
  <2> QED BY <2>1, InOrderTypes
<1>3. PICK d \in Seq(ApiMsgs) : d = DistanceRequests(s)
  <2>1. DistanceRequests(s) \in Seq(ApiMsgs)
    BY DistanceTypes DEF TypeOK
  <2> QED BY <2>1
<1>4. d = <<>>
  <2>1. DOMAIN d = {}
    BY <1>2, <1>3 DEF DistanceRequests
  <2> QED BY <2>1
<1>5. e.requests = q
  BY <1>1, <1>3, <1>4
<1>6. Tame(q)
  <2>1. \A p : CalmRequest(StartFix(p, NoCallback))
    BY DEF CalmRequest, StartFix
  <2> QED BY <1>1, <2>1 DEF Tame
<1> QED BY <1>1, <1>5, <1>6

\* Every step of the adapter is tame.
CalmNow == TypeOK /\ Calm

LEMMA CalmHead ==
    ASSUME CalmNow, adapterQ # <<>>
    PROVE  Message \in AdapterMsgs /\ CalmMessage(Message)
<1>1. 1 \in DOMAIN adapterQ /\ Message = adapterQ[1]
  BY DEF CalmNow, TypeOK, Message
<1> QED BY <1>1, HeadMessage DEF CalmNow, Calm

\* What is common to the messages that are handled and done with.
LEMMA DoneTamely ==
    ASSUME CalmNow, adapterQ # <<>>, Done, NEW r, Tame(r), apiQ' = apiQ \o r,
           DOMAIN distanceBased' = {}, pendingMsgs' = pendingMsgs,
           \A k \in DOMAIN timeBased' :
               \/ k \in DOMAIN timeBased
               \/ IsStart(Message) /\ k = Message.key /\ k[1] \in DOMAIN clientData,
           \A k \in DOMAIN timeBased' : k[1] \in DOMAIN clientData => k[1] \in DOMAIN clientData',
           DOMAIN timeBased' = {} => \/ r = <<>> /\ DOMAIN timeBased = {}
                                     \/ r # <<>> /\ r[Len(r)].op = "stopFix"
    PROVE  Tamely(r)
BY DEF CalmNow, Calm, Done, Tame, Tamely, clientVars

LEMMA QuietTamely ==
    ASSUME CalmNow, adapterQ # <<>>, Done, apiQ' = apiQ,
           UNCHANGED <<sessionVars, pendingMsgs>>,
           \A k \in DOMAIN timeBased' : k[1] \in DOMAIN clientData => k[1] \in DOMAIN clientData'
    PROVE  \E r \in Seq(ApiMsgs) : Tamely(r)
<1>1. PICK r \in Seq(ApiMsgs) : r = <<>>
  <2>1. <<>> \in Seq(ApiMsgs)
    OBVIOUS
  <2> QED BY <2>1
<1>2. apiQ' = apiQ \o r /\ Tame(r)
  BY <1>1, TameNone DEF CalmNow, TypeOK
<1>3. DOMAIN distanceBased' = {} /\ timeBased' = timeBased /\ pendingMsgs' = pendingMsgs
  BY DEF CalmNow, Calm, sessionVars
<1>4. Tamely(r)
  BY <1>1, <1>2, <1>3, DoneTamely
<1> QED BY <1>4

LEMMA ClientMessageTamely ==
    ASSUME CalmNow, AddClient \/ RemoveClient \/ RemoveClientStopsOne
    PROVE  \E r \in Seq(ApiMsgs) : Tamely(r)
<1>1. CASE AddClient
  <2>1. /\ adapterQ # <<>> /\ Done /\ apiQ' = apiQ /\ UNCHANGED <<sessionVars, pendingMsgs>>
        /\ DOMAIN clientData \subseteq DOMAIN clientData'
    BY <1>1 DEF AddClient, Receive, With
  <2> QED BY <2>1, QuietTamely
<1>2. CASE RemoveClient
  <2> DEFINE mine == {k \in DOMAIN distanceBased : k[1] = Message.client}
             stop(k) == StopDistance(k, Then("clientDistanceStopped", k))
  <2>1. PICK s \in InOrder(mine) : apiQ' = apiQ \o [i \in DOMAIN s |-> stop(s[i])]
    BY <1>2 DEF RemoveClient
  <2>2. mine = {}
    BY DEF CalmNow, Calm
  <2>3. DOMAIN s = {}
    <3>1. mine \in SUBSET Keys
      BY <2>2
    <3> QED BY <2>2, <3>1, InOrderTypes
  <2>4. PICK d : d = [i \in DOMAIN s |-> stop(s[i])]
    OBVIOUS
  <2>5. d = <<>>
    <3>1. DOMAIN d = {} /\ d = [i \in 1..0 |-> d[i]]
      BY <2>3, <2>4
    <3> QED BY <3>1
  <2>6. apiQ' = apiQ
    BY <2>1, <2>4, <2>5 DEF CalmNow, TypeOK
  <2>7. /\ adapterQ # <<>> /\ Done /\ UNCHANGED <<sessionVars, pendingMsgs>>
        /\ clientData' = Without(clientData, Message.client)
        /\ \A k \in DOMAIN timeBased : k[1] # Message.client
    BY <1>2 DEF RemoveClient, Receive
  <2>8. \A k \in DOMAIN timeBased' : k[1] \in DOMAIN clientData => k[1] \in DOMAIN clientData'
    BY <2>7 DEF Without, sessionVars
  <2> QED BY <2>6, <2>7, <2>8, QuietTamely
<1>3. CASE RemoveClientStopsOne
  <2>1. PICK k \in DOMAIN timeBased : \E e \in StopEffects(k) : Post(e) /\ EraseTrackingSession(k)
    BY <1>3 DEF RemoveClientStopsOne
  <2>2. PICK e \in StopEffects(k) : Post(e) /\ EraseTrackingSession(k)
    BY <2>1
  <2>3. /\ adapterQ # <<>> /\ adapterQ' = adapterQ
        /\ UNCHANGED <<engine, hub, pendingMsgs, clientData>>
    BY <1>3 DEF RemoveClientStopsOne, Receive, setupVars, clientVars
  <2>4. timeBased' = Without(timeBased, k) /\ distanceBased' = distanceBased
    BY <2>2 DEF EraseTrackingSession
  <2>5. /\ Tame(e.requests) /\ apiQ' = apiQ \o e.requests
        /\ DOMAIN timeBased = {k} => e.requests # <<>> /\ e.requests[Len(e.requests)].op = "stopFix"
    BY <2>2, TameStop DEF Post
  <2>6. e.requests \in Seq(ApiMsgs)
    BY <2>1, StopTypes DEF CalmNow, Effects
  <2>7. DOMAIN timeBased' = DOMAIN timeBased \ {k}
    BY <2>4 DEF Without
  <2>8. DOMAIN timeBased' = {} => DOMAIN timeBased = {k}
    BY <2>7
  <2>9. Tamely(e.requests)
    BY <2>3, <2>4, <2>5, <2>7, <2>8 DEF CalmNow, Calm, Tame, Tamely
  <2> QED BY <2>6, <2>9
<1> QED BY <1>1, <1>2, <1>3

LEMMA RestartTamely ==
    ASSUME CalmNow, EngineUp \/ Reconfigure
    PROVE  \E r \in Seq(ApiMsgs) : Tamely(r)
<1>1. /\ adapterQ # <<>> /\ UNCHANGED <<sessionVars, clientData, hub, engine>>
  BY DEF EngineUp, Reconfigure, Receive, Done, clientVars
<1>2. adapterQ' = Tail(adapterQ) /\ pendingMsgs' = <<>>
  <2>1. pendingMsgs = <<>>
    BY DEF CalmNow, Calm
  <2>2. CASE EngineUp
    <3>1. PICK f : f = [i \in DOMAIN pendingMsgs |-> pendingMsgs[i].msg]
      OBVIOUS
    <3>2. PICK g : g = [i \in DOMAIN pendingMsgs |-> [pendingMsgs[i] EXCEPT !.sent = TRUE]]
      OBVIOUS
    <3>3. adapterQ' = Tail(adapterQ) \o f /\ pendingMsgs' = g
      BY <2>2, <3>1, <3>2 DEF EngineUp
    <3>4. f = <<>> /\ g = <<>>
      <4>1. f = [i \in 1..0 |-> f[i]] /\ g = [i \in 1..0 |-> g[i]]
        BY <2>1, <3>1, <3>2
      <4> QED BY <4>1
    <3>5. Tail(adapterQ) \in Seq(AdapterMsgs)
      BY <1>1, HeadMessage DEF CalmNow
    <3> QED BY <3>3, <3>4, <3>5
  <2> QED BY <2>1, <2>2 DEF Reconfigure, Done
<1>3. PICK r \in Seq(ApiMsgs) : /\ apiQ' = apiQ \o r /\ Tame(r)
                                /\ DOMAIN timeBased = {} => r = <<>>
  <2>1. nHzNeeded \in BOOLEAN /\ DOMAIN distanceBased = {} /\ apiQ \in Seq(ApiMsgs) /\ TypeOK
    BY DEF CalmNow, Calm, TypeOK
  <2>2. CASE Reconfigure
    <3>1. PICK e \in RestartEffects(nHzNeeded) :
              apiQ' = apiQ \o (IF DOMAIN timeBased = {} THEN <<>> ELSE << StopFix(NoCallback) >>)
                           \o e.requests
      BY <2>2 DEF Reconfigure
    <3>2. PICK p : p = IF DOMAIN timeBased = {} THEN <<>> ELSE << StopFix(NoCallback) >>
      OBVIOUS
    <3>3. e.requests \in Seq(ApiMsgs) /\ Tame(e.requests) /\ (DOMAIN timeBased = {} => e.requests = <<>>)
      BY <2>1, TameRestart, RestartTypes DEF Effects
    <3>4. p \in Seq(ApiMsgs) /\ Tame(p) /\ (DOMAIN timeBased = {} => p = <<>>)
      <4>1. StopFix(NoCallback) \in ApiMsgs /\ CalmRequest(StopFix(NoCallback))
        BY DEF StopFix, ApiMsgs, MaybeCallback, CalmRequest
      <4>2. << StopFix(NoCallback) >> \in Seq(ApiMsgs) /\ Tame(<< StopFix(NoCallback) >>)
        BY <4>1 DEF Tame
      <4>3. <<>> \in Seq(ApiMsgs)
        OBVIOUS
      <4> QED BY <3>2, <4>2, <4>3, TameNone
    <3>5. apiQ' = apiQ \o (p \o e.requests) /\ p \o e.requests \in Seq(ApiMsgs)
      BY <2>1, <3>1, <3>2, <3>3, <3>4, RequestsAssociate, ConcatProperties
    <3>6. Tame(p \o e.requests)
      BY <3>3, <3>4 DEF Tame
    <3>7. DOMAIN timeBased = {} => p \o e.requests = <<>>
      BY <3>3, <3>4
    <3> QED BY <3>5, <3>6, <3>7
  <2>3. CASE EngineUp
    <3>1. PICK e \in RestartEffects(nHzNeeded) : Post(e)
      BY <2>3 DEF EngineUp
    <3> QED BY <2>1, <3>1, TameRestart, RestartTypes DEF Post, Effects
  <2> QED BY <2>2, <2>3
<1>4. Tamely(r)
  BY <1>1, <1>2, <1>3 DEF CalmNow, Calm, Tame, Tamely, sessionVars
<1> QED BY <1>4

LEMMA CommandTamely ==
    ASSUME CalmNow, StartTracking \/ UpdateTracking \/ StopTracking
    PROVE  \E r \in Seq(ApiMsgs) : Tamely(r)
<1>1. /\ adapterQ # <<>> /\ Done /\ UNCHANGED <<pendingMsgs, clientData>>
      /\ Message.type \in {"startTracking", "updateTracking", "stopTracking"}
  BY DEF StartTracking, UpdateTracking, StopTracking, Receive
<1>2. Message \in AdapterMsgs /\ CalmMessage(Message)
  BY <1>1, CalmHead
<1>3. PICK k \in Keys : k = Message.key
  BY <1>1, <1>2, MessageFields
<1>4. ASSUME Message.type # "stopTracking"
      PROVE  Message.options \in Options /\ Message.options.distance = 0
  BY <1>1, <1>2, <1>4, MessageFields DEF CalmMessage
<1>5. ASSUME apiQ' = apiQ, UNCHANGED sessionVars
      PROVE  \E r \in Seq(ApiMsgs) : Tamely(r)
  BY <1>1, <1>5, QuietTamely
<1>6. ASSUME NEW e \in Effects, Tame(e.requests), Post(e), DOMAIN distanceBased' = {},
             DOMAIN timeBased' # {},
             \A x \in DOMAIN timeBased' :
                 \/ x \in DOMAIN timeBased
                 \/ IsStart(Message) /\ x = Message.key /\ x[1] \in DOMAIN clientData
      PROVE  \E r \in Seq(ApiMsgs) : Tamely(r)
  <2>1. e.requests \in Seq(ApiMsgs) /\ apiQ' = apiQ \o e.requests
    BY <1>6 DEF Effects, Post
  <2>2. Tamely(e.requests)
    BY <1>1, <1>6, <2>1, DoneTamely
  <2> QED BY <2>1, <2>2
<1>7. CASE StartTracking
  <2>1. PICK o \in SessionOptions : o = WithFastestInterval(Message.options) /\ o.distance = 0
    BY <1>4, <1>7, OptionTypes DEF StartTracking, Receive
  <2>2. PICK p \in SessionOptions : p = WithPowerFallback(o) /\ p.distance = 0
    BY <2>1, OptionTypes DEF SessionOptions
  <2>3. ~IsDistanceBased(o) /\ ~IsDistanceBased(p)
    BY <2>1, <2>2 DEF IsDistanceBased
  <2>4. \/ UNCHANGED sessionVars /\ apiQ' = apiQ
        \/ /\ k[1] \in DOMAIN clientData
           /\ \E e \in StartEffects(k, p) : Post(e)
           /\ SaveTrackingSession(timeBased, k, p)
    BY <1>3, <1>7, <2>1, <2>2, <2>3 DEF StartTracking, HasCallbacksToStartTracking
  <2>5. ASSUME k[1] \in DOMAIN clientData, NEW e \in StartEffects(k, p), Post(e),
               SaveTrackingSession(timeBased, k, p)
        PROVE  \E r \in Seq(ApiMsgs) : Tamely(r)
    <3>1. e \in Effects /\ Tame(e.requests)
      BY <2>5, StartTypes, TameStart DEF CalmNow
    <3>2. timeBased' = With(timeBased, k, p) /\ distanceBased' = distanceBased
      BY <2>3, <2>5 DEF SaveTrackingSession
    <3>3. DOMAIN timeBased' = DOMAIN timeBased \cup {k} /\ DOMAIN distanceBased' = {}
      BY <3>2 DEF With, CalmNow, Calm
    <3>4. IsStart(Message)
      BY <1>7 DEF StartTracking, Receive, IsStart
    <3> QED BY <1>3, <1>6, <2>5, <3>1, <3>3, <3>4
  <2> QED BY <1>5, <2>4, <2>5
<1>8. CASE UpdateTracking
  <2>1. PICK o \in SessionOptions :
            o = WithFastestInterval(WithPowerFallback(Message.options)) /\ o.distance = 0
    BY <1>4, <1>8, OptionTypes DEF UpdateTracking, Receive
  <2>2. ~IsDistanceBased(o) /\ ~(o.distance > 0) /\ k \notin DOMAIN distanceBased
    BY <2>1 DEF IsDistanceBased, CalmNow, Calm
  <2>3. \/ UNCHANGED sessionVars /\ apiQ' = apiQ
        \/ /\ k \in DOMAIN timeBased
           /\ \E e \in UpdateEffects(k, o) : Post(e)
           /\ SaveTrackingSession(timeBased, k, o)
    BY <1>3, <1>8, <2>1, <2>2 DEF UpdateTracking
  <2>4. ASSUME k \in DOMAIN timeBased, NEW e \in UpdateEffects(k, o), Post(e),
               SaveTrackingSession(timeBased, k, o)
        PROVE  \E r \in Seq(ApiMsgs) : Tamely(r)
    <3>1. e \in Effects /\ Tame(e.requests)
      BY <2>4, UpdateTypes, TameUpdate DEF CalmNow
    <3>2. timeBased' = With(timeBased, k, o) /\ distanceBased' = distanceBased
      BY <2>2, <2>4 DEF SaveTrackingSession
    <3>3. DOMAIN timeBased' = DOMAIN timeBased /\ DOMAIN distanceBased' = {}
      BY <2>4, <3>2 DEF With, CalmNow, Calm
    <3> QED BY <1>6, <2>4, <3>1, <3>3
  <2> QED BY <1>5, <2>3, <2>4
<1>9. CASE StopTracking
  <2>1. k \notin DOMAIN distanceBased
    BY DEF CalmNow, Calm
  <2>2. \/ /\ k \in DOMAIN timeBased
           /\ \E e \in StopEffects(k) : Post(e)
           /\ EraseTrackingSession(k)
        \/ UNCHANGED sessionVars /\ apiQ' = apiQ
    BY <1>3, <1>9, <2>1 DEF StopTracking
  <2>3. ASSUME k \in DOMAIN timeBased, NEW e \in StopEffects(k), Post(e), EraseTrackingSession(k)
        PROVE  \E r \in Seq(ApiMsgs) : Tamely(r)
    <3>1. e.requests \in Seq(ApiMsgs)
      BY <2>3, StopTypes DEF CalmNow, Effects
    <3>2. /\ Tame(e.requests) /\ apiQ' = apiQ \o e.requests
          /\ DOMAIN timeBased = {k} => e.requests # <<>> /\ e.requests[Len(e.requests)].op = "stopFix"
      BY <2>3, TameStop DEF Post
    <3>3. DOMAIN timeBased' = DOMAIN timeBased \ {k} /\ DOMAIN distanceBased' = {}
      BY <2>3 DEF EraseTrackingSession, Without, CalmNow, Calm
    <3>4. DOMAIN timeBased' = {} => DOMAIN timeBased = {k}
      BY <2>3, <3>3
    <3>5. Tamely(e.requests)
      BY <1>1, <2>3, <3>2, <3>3, <3>4, DoneTamely
    <3> QED BY <3>1, <3>5
  <2> QED BY <1>5, <2>2, <2>3
<1> QED BY <1>7, <1>8, <1>9

LEMMA HandlerTamely ==
    ASSUME CalmNow, Handler
    PROVE  \E r \in Seq(ApiMsgs) : Tamely(r)
<1>1. CASE \/ FixStarted \/ FixUpdated \/ FixStopped \/ DistanceStarted \/ DistanceStopped
           \/ ClientDistanceStopped \/ SwitchToTime \/ RestartDistance \/ DistanceRestarted
  <2>1. adapterQ # <<>> /\ Message.type = "response" /\ Done
    BY <1>1 DEF FixStarted, FixUpdated, FixStopped, DistanceStarted, DistanceStopped,
                ClientDistanceStopped, SwitchToTime, RestartDistance, DistanceRestarted,
                Response, Receive
  <2>2. Message.cb.then \in {"fixStarted", "fixUpdated", "fixStopped"} /\ ~Failed
    BY <2>1, CalmHead DEF CalmMessage, FixCallbacks, Failed
  <2>3. FixStarted \/ FixUpdated \/ FixStopped
    BY <1>1, <2>2 DEF DistanceStarted, DistanceStopped, ClientDistanceStopped, SwitchToTime,
                      RestartDistance, DistanceRestarted, Response
  <2>4. apiQ' = apiQ /\ UNCHANGED <<sessionVars, pendingMsgs>> /\ clientData' = clientData
    BY <2>2, <2>3 DEF FixStarted, FixUpdated, FixStopped, setupVars
  <2> QED BY <2>1, <2>4, QuietTamely
<1>2. CASE Defer
  <2>1. adapterQ # <<>> /\ Message.type \in {"startTracking", "updateTracking"}
        /\ Message.options.distance > 0
    BY <1>2 DEF Defer, Receive, MustWait
  <2>2. Message.options.distance = 0
    BY <2>1, CalmHead DEF CalmMessage
  <2> QED BY <2>1, <2>2
<1> QED BY <1>1, <1>2, ClientMessageTamely, CommandTamely, RestartTamely DEF Handler

\* A client's call.
Called(m) ==
    /\ adapterQ' = Append(adapterQ, m) /\ CalmMessage(m)
    /\ UNCHANGED <<apiQ, engine, hub, raced, sessionVars, clientData, pendingMsgs>>

LEMMA CallsCalmly ==
    ASSUME TypeOK, SteadyTime, Client
    PROVE  \E m \in AdapterMsgs : Called(m)
<1>1. owner \in Seq(Clients) /\ Len(owner) \in Nat
  BY DEF TypeOK
<1>2. ASSUME NEW m \in AdapterMsgs, Call(m),
             m.type \in {"addClient", "removeClient", "reconfigure"}
      PROVE  Called(m)
  BY <1>2 DEF Call, adapterVars, historyVars, sessionVars, Called, CalmMessage
<1>3. ASSUME NEW k \in Keys, NEW m \in AdapterMsgs, Command(k, m), CalmMessage(m)
      PROVE  Called(m)
  BY <1>3 DEF Command, sessionVars, historyVars, Called
<1>4. ASSUME NEW c \in Clients, NEW t \in TrackingCbs, CreateInstance(c, t) \/ UpdateCallbacks(c, t)
      PROVE  \E m \in AdapterMsgs : Called(m)
  <2>1. PICK m \in AdapterMsgs : m = [type |-> "addClient", client |-> c, tracking |-> t]
    BY CommandTypes, GnssAssumption DEF GnssAssumption
  <2>2. Call(m) /\ m.type = "addClient"
    BY <1>4, <2>1 DEF CreateInstance, UpdateCallbacks
  <2> QED BY <1>2, <2>2
<1>5. ASSUME NEW c \in Clients, Destroy(c) PROVE \E m \in AdapterMsgs : Called(m)
  <2>1. PICK m \in AdapterMsgs : m = [type |-> "removeClient", client |-> c]
    BY CommandTypes
  <2>2. Call(m) /\ m.type = "removeClient"
    BY <1>5, <2>1 DEF Destroy
  <2> QED BY <1>2, <2>2
<1>6. ASSUME NEW c \in Clients, NEW o \in StartOptions, StartTrackingCommand(c, o)
      PROVE  \E m \in AdapterMsgs : Called(m)
  <2>1. PICK k \in Keys : k = <<c, Len(owner) + 1>>
    <3>1. Len(owner) \in Nat /\ Len(owner) < MaxId /\ MaxId \in Nat
      BY <1>1, <1>6, GnssAssumption DEF GnssAssumption, StartTrackingCommand
    <3>2. <<c, Len(owner) + 1>> \in Keys
      BY <3>1 DEF Keys, Ids
    <3> QED BY <3>2
  <2>2. PICK m \in AdapterMsgs : m = [type |-> "startTracking", key |-> k, options |-> o]
    BY CommandTypes, GnssAssumption DEF GnssAssumption
  <2>3. Command(k, m)
    BY <1>6, <2>1, <2>2 DEF StartTrackingCommand
  <2>4. CalmMessage(m)
    BY <2>2 DEF CalmMessage, SteadyTime
  <2> QED BY <1>3, <2>3, <2>4
<1>7. ASSUME NEW i \in DOMAIN owner,
             \/ \E o \in UpdateOptions : UpdateTrackingOptionsCommand(i, o)
             \/ StopTrackingCommand(i)
      PROVE  \E m \in AdapterMsgs : Called(m)
  <2>1. PICK k \in Keys : k = <<owner[i], i>>
    <3>1. <<owner[i], i>> \in Keys
      BY LenProperties, ElementOfSeq, GnssAssumption DEF GnssAssumption, TypeOK, Keys, Ids
    <3> QED BY <3>1
  <2>2. CASE StopTrackingCommand(i)
    <3>1. PICK m \in AdapterMsgs : m = [type |-> "stopTracking", key |-> k]
      BY CommandTypes
    <3>2. Command(k, m) /\ CalmMessage(m)
      BY <2>1, <2>2, <3>1 DEF StopTrackingCommand, CalmMessage
    <3> QED BY <1>3, <3>2
  <2>3. ASSUME NEW o \in UpdateOptions, UpdateTrackingOptionsCommand(i, o)
        PROVE  \E m \in AdapterMsgs : Called(m)
    <3>1. PICK m \in AdapterMsgs : m = [type |-> "updateTracking", key |-> k, options |-> o]
      BY CommandTypes, GnssAssumption DEF GnssAssumption
    <3>2. Command(k, m)
      BY <2>1, <2>3, <3>1 DEF UpdateTrackingOptionsCommand
    <3>3. CalmMessage(m)
      BY <3>1 DEF CalmMessage, SteadyTime
    <3> QED BY <1>3, <3>2, <3>3
  <2> QED BY <1>7, <2>2, <2>3
<1>8. ASSUME ReconfigureCommand PROVE \E m \in AdapterMsgs : Called(m)
  <2>1. PICK m \in AdapterMsgs : Call(m) /\ m.type = "reconfigure"
    BY <1>8, CommandTypes DEF ReconfigureCommand
  <2> QED BY <1>2, <2>1
<1> QED BY <1>4, <1>5, <1>6, <1>7, <1>8 DEF Client

\* The API thread opens the engine first, and then no request is refused.
Handled ==
    /\ apiQ # <<>> /\ apiQ' = Tail(apiQ)
    /\ \/ adapterQ' = adapterQ
       \/ \E m \in AdapterMsgs : adapterQ' = Append(adapterQ, m) /\ CalmMessage(m)
    /\ UNCHANGED <<hub, raced, sessionVars, clientData, pendingMsgs>>
    /\ engine'.up
    /\ Request.op \in {"open", "stopFix"} => ~engine'.running

LEMMA HandlesCalmly ==
    ASSUME TypeOK, Calm, SteadyTime, ApiThread
    PROVE  Handled
<1>1. /\ apiQ # <<>> /\ apiQ' = Tail(apiQ)
      /\ UNCHANGED <<hub, raced, sessionVars, clientData, pendingMsgs>>
  BY DEF ApiThread, Open, EngineRequest, Serve, Served, sessionVars, clientVars, adapterVars,
         historyVars
<1>2. 1 \in DOMAIN apiQ /\ Request = apiQ[1] /\ Request \in ApiMsgs
  BY <1>1 DEF TypeOK, Request
<1>3. CalmRequest(Request) /\ (engine.up \/ Request.op = "open")
  BY <1>2 DEF Calm
<1>4. engine \in [up : BOOLEAN, running : BOOLEAN, fix : Options, distance : SUBSET Ids]
  BY DEF TypeOK
<1>5. CASE Open
  <2>1. engine' = Stopped(TRUE) /\ adapterQ' = Append(adapterQ, [type |-> "engineUp"])
    BY <1>5 DEF Open, SteadyTime
  <2>2. PICK m \in AdapterMsgs : m = [type |-> "engineUp"]
    BY CommandTypes
  <2>3. CalmMessage(m)
    BY <2>2 DEF CalmMessage
  <2>4. engine'.up /\ ~engine'.running
    BY <2>1 DEF Stopped
  <2> QED BY <1>1, <2>1, <2>2, <2>3, <2>4 DEF Handled
<1>6. CASE EngineRequest
  <2>1. Request.op \in {"startFix", "stopFix"}
    BY <1>3, <1>6 DEF EngineRequest, Serve, CalmRequest
  <2>2. engine.up /\ engine' = Accepted(Request) /\ Answer("SUCCESS")
    BY <1>3, <1>6, <2>1 DEF EngineRequest, SteadyTime
  <2>3. engine'.up /\ (Request.op \in {"open", "stopFix"} => ~engine'.running)
    BY <1>4, <2>1, <2>2 DEF Accepted
  <2>4. CASE Request.cb = NoCallback
    <3>1. adapterQ' = adapterQ
      BY <2>2, <2>4 DEF Answer
    <3> QED BY <1>1, <2>3, <3>1 DEF Handled
  <2>5. CASE Request.cb # NoCallback
    <3>1. Request.cb \in Callbacks /\ Request.cb.then \in FixCallbacks
      BY <1>2, <1>3, <2>1, <2>5, RequestFields DEF CalmRequest, MaybeCallback
    <3>2. PICK m \in AdapterMsgs : m = [type |-> "response", cb |-> Request.cb, err |-> "SUCCESS"]
      BY <3>1, CommandTypes DEF Errors
    <3>3. adapterQ' = Append(adapterQ, m)
      BY <2>2, <2>5, <3>2 DEF Answer
    <3>4. CalmMessage(m)
      BY <3>1, <3>2 DEF CalmMessage
    <3> QED BY <1>1, <2>3, <3>3, <3>4 DEF Handled
  <2> QED BY <2>4, <2>5
<1> QED BY <1>5, <1>6 DEF ApiThread

\* The engine does not crash.
LEMMA NoCrash ==
    ASSUME TypeOK, SteadyTime
    PROVE  ~EngineDown
BY DEF TypeOK, SteadyTime, EngineDown

-----------------------------------------------------------------------------
(* ... what the steps keep                                                  *)

LEMMA AppendedMessage ==
    ASSUME TypeOK, NEW m \in AdapterMsgs, NEW i \in DOMAIN Append(adapterQ, m)
    PROVE  \/ i \in DOMAIN adapterQ /\ Append(adapterQ, m)[i] = adapterQ[i] /\ i <= Len(adapterQ)
           \/ i = Len(adapterQ) + 1 /\ Append(adapterQ, m)[i] = m
BY DEF TypeOK

LEMMA RemainingMessage ==
    ASSUME TypeOK, adapterQ # <<>>, NEW i \in DOMAIN Tail(adapterQ)
    PROVE  i \in Nat /\ i >= 1 /\ i + 1 \in DOMAIN adapterQ /\ Tail(adapterQ)[i] = adapterQ[i + 1]
BY DEF TypeOK

LEMMA CalmSteps ==
    ASSUME TypeOK, Calm, \/ \E r \in Seq(ApiMsgs) : Tamely(r)
                         \/ \E m \in AdapterMsgs : Called(m)
                         \/ Handled
    PROVE  Calm'
<1>1. adapterQ \in Seq(AdapterMsgs) /\ apiQ \in Seq(ApiMsgs)
  BY DEF TypeOK
<1>2. ASSUME NEW m \in AdapterMsgs, CalmMessage(m), adapterQ' = Append(adapterQ, m)
      PROVE  \A i \in DOMAIN adapterQ' : CalmMessage(adapterQ'[i])
  BY <1>2, AppendedMessage DEF Calm
<1>3. ASSUME NEW r \in Seq(ApiMsgs), Tamely(r) PROVE Calm'
  <2>1. \A i \in DOMAIN adapterQ' : CalmMessage(adapterQ'[i])
    <3>1. CASE adapterQ' = adapterQ
      BY <3>1 DEF Calm
    <3>2. CASE adapterQ' = Tail(adapterQ)
      BY <1>3, <3>2, RemainingMessage DEF Calm, Tamely
    <3> QED BY <1>3, <3>1, <3>2 DEF Tamely
  <2>2. apiQ' = apiQ \o r /\ \A i \in DOMAIN r : CalmRequest(r[i])
    BY <1>3 DEF Tamely
  <2>3. \A i \in DOMAIN (apiQ \o r) : CalmRequest((apiQ \o r)[i])
    <3>1. ASSUME NEW i \in DOMAIN (apiQ \o r)
          PROVE  \/ i \in DOMAIN apiQ /\ (apiQ \o r)[i] = apiQ[i]
                 \/ i - Len(apiQ) \in DOMAIN r /\ (apiQ \o r)[i] = r[i - Len(apiQ)]
      BY <1>1, <3>1
    <3> QED BY <2>2, <3>1 DEF Calm
  <2>4. apiQ # <<>> => apiQ \o r # <<>> /\ (apiQ \o r)[1] = apiQ[1]
    BY <1>1
  <2>5. engine' = engine /\ hub' = hub /\ DOMAIN distanceBased' = {} /\ pendingMsgs' = <<>>
    BY <1>3 DEF Tamely
  <2> QED BY <2>1, <2>2, <2>3, <2>4, <2>5 DEF Calm
<1>4. ASSUME NEW m \in AdapterMsgs, Called(m) PROVE Calm'
  <2>1. \A i \in DOMAIN adapterQ' : CalmMessage(adapterQ'[i])
    BY <1>2, <1>4 DEF Called
  <2>2. UNCHANGED <<apiQ, engine, hub, distanceBased, pendingMsgs>>
    BY <1>4 DEF Called, sessionVars
  <2> QED BY <2>1, <2>2 DEF Calm
<1>5. CASE Handled
  <2>1. \A i \in DOMAIN adapterQ' : CalmMessage(adapterQ'[i])
    BY <1>2, <1>5 DEF Handled, Calm
  <2>2. \A i \in DOMAIN Tail(apiQ) : CalmRequest(Tail(apiQ)[i])
    <3>1. ASSUME NEW i \in DOMAIN Tail(apiQ) PROVE i + 1 \in DOMAIN apiQ /\ Tail(apiQ)[i] = apiQ[i + 1]
      BY <1>1, <1>5, <3>1 DEF Handled
    <3> QED BY <3>1 DEF Calm
  <2> QED BY <1>5, <2>1, <2>2 DEF Handled, Calm, sessionVars
<1> QED BY <1>3, <1>4, <1>5

LEMMA OwnedSteps ==
    ASSUME Owned, \/ \E r \in Seq(ApiMsgs) : Tamely(r)
                  \/ \E m \in AdapterMsgs : Called(m)
                  \/ Handled
    PROVE  Owned'
<1>1. ASSUME NEW r \in Seq(ApiMsgs), Tamely(r) PROVE Owned'
  BY <1>1 DEF Owned, Tamely
<1>2. CASE (\E m \in AdapterMsgs : Called(m)) \/ Handled
  BY <1>2 DEF Owned, Called, Handled, sessionVars
<1> QED BY <1>1, <1>2

\* What the adapter thread notes.
Noted == raced' \/ (~raced /\ (hub.at # "posting" \/ timeBased' = timeBased))

LEMMA RestedAdapter ==
    ASSUME TypeOK, Rested, Noted, NEW r \in Seq(ApiMsgs), Tamely(r)
    PROVE  Rested'
<1> SUFFICES ASSUME ~raced', DOMAIN timeBased' = {}
             PROVE  WillRest' /\ (hub'.at = "posting" => hub'.requests = <<>>)
  BY DEF Rested
<1>1. /\ apiQ \in Seq(ApiMsgs) /\ apiQ' = apiQ \o r /\ engine' = engine /\ hub' = hub
      /\ ~raced /\ (hub.at # "posting" \/ timeBased' = timeBased)
  BY DEF TypeOK, Tamely, Noted
<1>2. CASE r = <<>> /\ DOMAIN timeBased = {}
  <2>1. apiQ' = apiQ
    BY <1>1, <1>2
  <2> QED BY <1>1, <1>2, <2>1 DEF Rested, WillRest
<1>3. CASE r # <<>> /\ r[Len(r)].op = "stopFix"
  <2>1. /\ apiQ \o r # <<>> /\ Len(r) \in Nat /\ Len(r) >= 1
        /\ Len(apiQ \o r) = Len(apiQ) + Len(r)
        /\ (apiQ \o r)[Len(apiQ) + Len(r)] = r[Len(r)]
    BY <1>1, <1>3
  <2>2. PICK q : q = apiQ \o r
    OBVIOUS
  <2>3. q # <<>> /\ q[Len(q)].op = "stopFix" /\ apiQ' = q
    BY <1>1, <1>3, <2>1, <2>2
  <2>4. hub'.at = "posting" => hub'.requests = <<>>
    BY <1>1 DEF Rested
  <2> QED BY <2>3, <2>4 DEF WillRest
<1> QED BY <1>2, <1>3 DEF Tamely

LEMMA RestedSteps ==
    ASSUME TypeOK, Rested, (\E m \in AdapterMsgs : Called(m)) \/ Handled
    PROVE  Rested'
<1>1. apiQ \in Seq(ApiMsgs)
  BY DEF TypeOK
<1>2. CASE \E m \in AdapterMsgs : Called(m)
  BY <1>2 DEF Rested, WillRest, Called, sessionVars
<1>3. ASSUME Handled, ~raced, DOMAIN timeBased = {} PROVE WillRest'
  <2>1. apiQ # <<>> /\ apiQ' = Tail(apiQ) /\ apiQ[Len(apiQ)].op \in {"open", "stopFix"}
    BY <1>3 DEF Handled, Rested, WillRest
  <2>2. CASE Tail(apiQ) = <<>>
    <3>1. Len(Tail(apiQ)) = Len(apiQ) - 1 /\ Len(apiQ) \in Nat
      BY <1>1, <2>1
    <3>2. Len(apiQ) = 1
      <4>1. Tail(apiQ) \in Seq(ApiMsgs)
        BY <1>1, <2>1
      <4>2. PICK q \in Seq(ApiMsgs) : q = Tail(apiQ)
        BY <4>1
      <4>3. Len(q) = 0
        BY <2>2, <4>2
      <4> QED BY <3>1, <4>2, <4>3
    <3>3. Request.op \in {"open", "stopFix"}
      BY <2>1, <3>2 DEF Request
    <3> QED BY <1>3, <2>1, <2>2, <3>3 DEF Handled, WillRest
  <2>3. CASE Tail(apiQ) # <<>>
    <3>1. Tail(apiQ)[Len(Tail(apiQ))] = apiQ[Len(apiQ)]
      BY <1>1, <2>1, <2>3
    <3> QED BY <2>1, <2>3, <3>1 DEF WillRest
  <2> QED BY <2>2, <2>3
<1>4. Handled => timeBased' = timeBased /\ raced' = raced /\ hub' = hub
  BY DEF Handled, sessionVars
<1> QED BY <1>2, <1>3, <1>4 DEF Rested

\* The hub requests what the adapter might have.
LEMMA HubCalmly ==
    ASSUME TypeOK, Calm, Hub
    PROVE  Calm' /\ (Owned => Owned') /\ (Rested => Rested')
<1>1. /\ UNCHANGED <<adapterQ, engine, timeBased, distanceBased, clientData, pendingMsgs, raced>>
      /\ apiQ \in Seq(ApiMsgs) /\ hub.requests \in Seq(ApiMsgs)
      /\ hub \in [at : {"idle", "restarting", "posting"}, requests : Seq(ApiMsgs),
                  changes : 0 .. MaxNHz]
  BY DEF Hub, NHzRequirement, HubReads, HubPosts, setupVars, sessionVars, adapterVars, historyVars,
         TypeOK
<1>2. Owned => Owned'
  BY <1>1 DEF Owned
<1>3. CASE NHzRequirement
  <2>1. hub'.at = "restarting" /\ hub'.requests = hub.requests /\ apiQ' = apiQ
    BY <1>1, <1>3 DEF NHzRequirement
  <2> QED BY <1>1, <1>2, <2>1 DEF Calm, Rested, WillRest
<1>4. CASE HubReads
  <2>1. PICK e \in RestartEffects(nHzNeeded) :
            hub' = [hub EXCEPT !.at = "posting", !.requests = e.requests]
    BY <1>4 DEF HubReads
  <2>2. Tame(e.requests) /\ (DOMAIN timeBased = {} => e.requests = <<>>)
    BY TameRestart DEF Calm, TypeOK
  <2>3. hub'.requests = e.requests /\ apiQ' = apiQ
    BY <1>1, <1>4, <2>1 DEF HubReads
  <2> QED BY <1>1, <1>2, <2>2, <2>3 DEF Calm, Tame, Rested, WillRest
<1>5. CASE HubPosts
  <2>1. apiQ' = apiQ \o hub.requests /\ hub.at = "posting"
    BY <1>5 DEF HubPosts
  <2>2. hub'.at = "idle" /\ hub'.requests = <<>>
    BY <1>1, <1>5 DEF HubPosts
  <2>3. Rested => Rested'
    <3>1. hub.requests = <<>> => apiQ' = apiQ
      BY <1>1, <2>1
    <3> QED BY <1>1, <2>1, <2>2, <3>1 DEF Rested, WillRest
  <2>4. \A i \in DOMAIN (apiQ \o hub.requests) : CalmRequest((apiQ \o hub.requests)[i])
    BY <1>1, LenProperties, ConcatProperties DEF Calm
  <2>5. apiQ # <<>> => apiQ \o hub.requests # <<>> /\ (apiQ \o hub.requests)[1] = apiQ[1]
    BY <1>1
  <2> QED BY <1>1, <1>2, <2>1, <2>2, <2>3, <2>4, <2>5 DEF Calm
<1> QED BY <1>3, <1>4, <1>5 DEF Hub

LEMMA SteadyStutter ==
    ASSUME UNCHANGED vars
    PROVE  /\ Calm => Calm'
           /\ Owned => Owned'
           /\ Rested => Rested'
BY DEF vars, Calm, Owned, Rested, WillRest

LEMMA SteadyInit ==
    ASSUME Init
    PROVE  Calm /\ Owned /\ Rested
<1>1. /\ DOMAIN distanceBased = {} /\ DOMAIN timeBased = {} /\ DOMAIN adapterQ = {}
      /\ DOMAIN hub.requests = {} /\ hub.requests = <<>>
  BY DEF Init
<1>2. PICK m : m = [op |-> "open"]
  OBVIOUS
<1>3. apiQ = <<m>> /\ pendingMsgs = <<>>
  BY <1>2 DEF Init
<1>4. DOMAIN apiQ = {1} /\ apiQ[1] = m /\ apiQ # <<>> /\ Len(apiQ) = 1
  BY <1>3
<1>5. m.op = "open"
  BY <1>2
<1> QED BY <1>1, <1>3, <1>4, <1>5 DEF Calm, CalmRequest, Owned, Rested, WillRest

\* What every step of the system keeps.
LEMMA SteadySteps ==
    ASSUME TypeOK, SteadyTime, Calm, [Next]_vars
    PROVE  /\ Calm'
           /\ Owned => Owned'
           /\ Rested => Rested'
<1>1. CASE UNCHANGED vars
  BY <1>1, SteadyStutter
<1>2. CASE AdapterThread
  <2>1. PICK r \in Seq(ApiMsgs) : Tamely(r)
    BY <1>2, HandlerTamely DEF AdapterThread, CalmNow
  <2>2. Noted
    BY <1>2 DEF AdapterThread, Noted
  <2> QED BY <2>1, <2>2, CalmSteps, OwnedSteps, RestedAdapter
<1>3. CASE Client \/ ApiThread
  <2>1. (\E m \in AdapterMsgs : Called(m)) \/ Handled
    BY <1>3, CallsCalmly, HandlesCalmly
  <2> QED BY <2>1, CalmSteps, OwnedSteps, RestedSteps
<1>4. CASE Hub
  BY <1>4, HubCalmly
<1> QED BY <1>1, <1>2, <1>3, <1>4, NoCrash DEF Next

LEMMA CalmAlways ==
    ASSUME SteadyTime
    PROVE  Spec => []Calm
<1>1. TypeOK /\ Calm /\ [Next]_vars => Calm'
  BY SteadySteps
<1> QED BY <1>1, SteadyInit, TypeCorrect, PTL DEF Spec

\* No session is left behind by its client, at rest or not, under the same conditions:
\* removeClient waits for the client's sessions to be stopped, and a client the adapter
\* does not know starts none (stopClientSessions, hasCallbacksToStartTracking).
THEOREM SessionsHaveOwners ==
    ASSUME SteadyTime
    PROVE  Spec => []SessionsAreOwned
<1>1. TypeOK /\ Calm /\ Owned /\ [Next]_vars => Owned'
  BY SteadySteps
<1>2. Calm /\ Owned => SessionsAreOwned
  BY DEF Calm, Owned, SessionsAreOwned
<1> QED BY <1>1, <1>2, SteadyInit, CalmAlways, TypeCorrect, PTL DEF Spec

\* At rest the fix session runs exactly while there is a session, and as fast as each asks,
\* under the same conditions, for any number of clients, sessions and calls, and with the
\* NHz requirement or the configuration changing in between: the last session to leave
\* posts the request that stops the engine, and none after it starts it again.
THEOREM EngineFitsSessions ==
    ASSUME SteadyTime
    PROVE  Spec => []EngineFits
<1>1. TypeOK /\ Calm /\ ServesInv /\ [Next]_vars => ServesInv'
  <2> SUFFICES ASSUME TypeOK, Calm, ServesInv, [Next]_vars PROVE ServesInv'
    OBVIOUS
  <2>1. ~EngineMayFail
    BY DEF SteadyTime
  <2>2. ASSUME UpdateTracking PROVE Message.options.distance = 0
    <3>1. adapterQ # <<>> /\ Message.type = "updateTracking"
      BY <2>2 DEF UpdateTracking, Receive
    <3> QED BY <3>1, CalmHead DEF CalmNow, CalmMessage
  <2>3. ~DistanceRestarted
    <3>1. ASSUME DistanceRestarted PROVE FALSE
      <4>1. adapterQ # <<>> /\ Message.type = "response" /\ Message.cb.then = "distanceRestarted"
        BY <3>1 DEF DistanceRestarted, Response, Receive
      <4> QED BY <4>1, CalmHead DEF CalmNow, CalmMessage, FixCallbacks
    <3> QED BY <3>1
  <2>4. EngineRequest => Request.op \notin {"startDistance", "stopDistance"}
    <3>1. ASSUME apiQ # <<>> PROVE CalmRequest(Request)
      <4>1. 1 \in DOMAIN apiQ /\ Request = apiQ[1]
        BY <3>1 DEF TypeOK, Request
      <4> QED BY <4>1 DEF Calm
    <3> QED BY <3>1 DEF EngineRequest, Serve, CalmRequest
  <2> QED BY <2>1, <2>2, <2>3, <2>4, ServesStep
<1>2. TypeOK /\ Calm /\ Rested /\ [Next]_vars => Rested'
  BY SteadySteps
<1>3. TypeOK /\ ServesInv /\ Rested => EngineFits
  BY ServesAtRest DEF Rested, WillRest, EngineFits, EngineRests, Quiet
<1> QED BY <1>1, <1>2, <1>3, InitServes, SteadyInit, CalmAlways, TypeCorrect, PTL DEF Spec
=============================================================================
