------------------------- MODULE GnssConfig_proofs -------------------------
(***************************************************************************)
(* Proofs about GnssConfig: at rest the engine has the location lock, the  *)
(* SUPL version and server and the satellites that were configured last,   *)
(* and every update was answered once, with each item's own error - for    *)
(* any configurations, calls, restarts of the engine and refusals.         *)
(***************************************************************************)
EXTENDS GnssConfig, TLAPS, SequenceTheorems

IsSeq(q) == q \in Seq({q[k] : k \in 1..Len(q)})

Lists == SUBSET Satellites
Masks == [Constellations -> SUBSET Bits]

IsConfig(c) ==
    /\ c = [i \in DOMAIN c |-> c[i]]
    /\ DOMAIN c \subseteq Items
    /\ "lock" \in DOMAIN c => c["lock"] \subseteq {"MO", "NI"}
    /\ "blacklist" \in DOMAIN c => c["blacklist"] \in Lists

\* An update and its items, as far as us know them.
IsUpdate(n, items, us) == n \in 1..Len(us) /\ us[n].items = items

AdapterFits(m, us) ==
    /\ m.kind = "enable" => m.control \in BOOLEAN
    /\ m.kind = "config" => IsConfig(m.config) /\ IsUpdate(m.update, DOMAIN m.config, us)
    /\ m.kind = "svTypes" => m.types # Unset
    /\ m.kind = "svConfig" => m.masks \in Masks
    /\ m.kind = "answer" => m.update \in 1..Len(us)
    /\ m.kind = "engineUp" => m = [kind |-> "engineUp"]
    /\ m.kind \notin {"setLock", "setItems", "setBlacklist"}

ApiFits(m, us) ==
    /\ m.kind \in {"setLock", "setItems", "setBlacklist"}
    /\ m.kind = "setLock" => m.lock \subseteq {"MO", "NI"}
    /\ m.kind = "setItems" =>
        /\ IsConfig(m.config)
        /\ m.needed \subseteq DOMAIN m.config /\ DOMAIN m.config \subseteq m.needed \cup {"lock"}
        /\ m.update # 0 => IsUpdate(m.update, DOMAIN m.config, us)
        /\ m.update \in Nat
    /\ m.kind = "setBlacklist" => m.masks \in Masks

AdapterQueue(q, us) == IsSeq(q) /\ \A k \in 1..Len(q) : AdapterFits(q[k], us)
ApiQueue(q, us) == IsSeq(q) /\ \A k \in 1..Len(q) : ApiFits(q[k], us)

HalFits ==
    /\ hal = [api |-> hal.api, enabled |-> hal.enabled, pending |-> hal.pending, last |-> hal.last]
    /\ hal.api \in BOOLEAN /\ hal.enabled \in BOOLEAN
    /\ hal.enabled => hal.api
    /\ IsConfig(hal.pending) /\ IsConfig(hal.last)

DeferredFits ==
    /\ AdapterQueue(adapter.deferred, updates)
    /\ \A k \in 1..Len(adapter.deferred) : adapter.deferred[k].kind \in NeedsEngine

AdapterShape ==
    /\ adapter = [control |-> adapter.control, nfw |-> adapter.nfw, conf |-> adapter.conf,
                  list |-> adapter.list, masks |-> adapter.masks, svType |-> adapter.svType,
                  known |-> adapter.known, deferred |-> adapter.deferred]
    /\ adapter.control \in BOOLEAN /\ adapter.nfw \in BOOLEAN /\ adapter.known \in BOOLEAN
    /\ adapter.conf = [i \in {"lock", "version", "server"} |-> adapter.conf[i]]
    /\ adapter.conf["lock"] \subseteq {"MO", "NI"}
    /\ adapter.list \in Lists /\ adapter.masks \in Masks

EngineFits ==
    /\ engine = [i \in Items |-> engine[i]]
    /\ engine["lock"] \subseteq {"MO", "NI"} /\ engine["blacklist"] \in Masks

UpdateFits(u) ==
    /\ u = [items |-> u.items, refused |-> u.refused, errors |-> u.errors, answers |-> u.answers]
    /\ u.items \subseteq Items /\ u.refused \subseteq u.items /\ u.answers \in Nat

UpdatesFit(us) == IsSeq(us) /\ \A n \in 1..Len(us) : UpdateFits(us[n])

Shapes ==
    /\ AdapterQueue(adapterQ, updates) /\ ApiQueue(apiQ, updates)
    /\ HalFits /\ DeferredFits /\ AdapterShape /\ EngineFits /\ UpdatesFit(updates)
    /\ asked \in Masks /\ flags \subseteq Items \cup {"late nfw", "overtaken"}


-----------------------------------------------------------------------------
\* What a message says of an item, of the list of satellites, or of the control client.
Carries(m, i) ==
    \/ m.kind = "enable" /\ i = "control"
    \/ m.kind = "setLock" /\ i = "lock"
    \/ m.kind = "setBlacklist" /\ i = "blacklist"
    \/ m.kind = "setItems" /\ i \in m.needed
    \/ m.kind = "setItems" /\ i = "list" /\ "blacklist" \in DOMAIN m.config

Carried(m, i) ==
    CASE m.kind = "enable" -> m.control
      [] m.kind = "setLock" -> m.lock
      [] m.kind = "setBlacklist" -> m.masks
      [] m.kind = "setItems" ->
             IF i \in {"blacklist", "list"} THEN ToMasks(m.config["blacklist"]) ELSE m.config[i]

Waits(q, i) == \E k \in 1..Len(q) : Carries(q[k], i)

\* The last message that says something of i says one of vals.
LastIn(q, i, vals) ==
    \A k \in 1..Len(q) :
        Carries(q[k], i) /\ (\A l \in 1..Len(q) : l > k => ~Carries(q[l], i)) => Carried(q[k], i) \in vals

\* The engine e will have one of vals in the end, for what is under way, or has it already;
\* or it refused the item.
Ends(q, e, fs, i, vals) == LastIn(q, i, vals) /\ (~Waits(q, i) => e[i] \in vals \/ i \in fs)

\* The update that a message is for; -1 is for the news that the engine is up.
Bears(m, n) ==
    IF n = -1 THEN m.kind = "engineUp"
    ELSE m.kind \in {"config", "setItems", "answer"} /\ m.update = n

Has(q, n) == \E k \in 1..Len(q) : Bears(q[k], n)
HasOnce(q, n) ==
    \A k, l \in 1..Len(q) : Bears(q[k], n) /\ Bears(q[l], n) => k = l

\* Messages that will be handled when the engine is known.
Waiting == IF adapter.known THEN <<>> ELSE adapter.deferred

-----------------------------------------------------------------------------
Settled == adapter.known /\ ~Has(adapterQ, -1)

WantedLock == IF adapter.nfw \/ ~adapter.control THEN adapter.conf["lock"] ELSE {}

\* The lock's mask for the phone is set exactly while location is off.
LockFits == "MO" \in adapter.conf["lock"] <=> ~adapter.nfw \/ ~adapter.control

ControlFits ==
    /\ LastIn(adapterQ, "control", {hal.enabled})
    /\ ~Waits(adapterQ, "control") => adapter.control = hal.enabled

Wanted(i) == IF i = "lock" THEN WantedLock ELSE adapter.conf[i]

ItemsSettle ==
    \A i \in {"lock", "version", "server"} :
        Settled /\ (i = "lock" => "late nfw" \notin flags) =>
            Ends(apiQ, engine, flags, i, {Wanted(i)})

InForce == IF adapter.svType = Unset THEN {} ELSE adapter.svType
Right(masks) == IsWithin(asked, masks) /\ IsWithin(masks, WithAllOf(asked, InForce))
RightMasks == {masks \in Masks : Right(masks)}

ListSettles ==
    "overtaken" \notin flags =>
        /\ LastIn(apiQ, "list", {asked})
        /\ ~Waits(apiQ, "list") => adapter.masks = asked /\ ToMasks(adapter.list) = asked

BlacklistSettles ==
    Settled /\ "overtaken" \notin flags => Ends(apiQ, engine, flags, "blacklist", RightMasks)

Inv == Shapes /\ LockFits /\ ControlFits /\ ItemsSettle /\ ListSettles /\ BlacklistSettles

-----------------------------------------------------------------------------
\* The engine comes up once while it is not known, and not again while messages wait for it.
UpFits ==
    /\ HasOnce(adapterQ, -1) \/ adapter.known
    /\ adapter.known /\ Has(adapterQ, -1) => adapter.deferred = <<>>

\* The errors of an update tell the fate of each item.
ErrorsRight(u, errors) ==
    ~({"version", "server"} \subseteq u.items) =>
        errors = [k \in 1..Cardinality(u.items) |->
                    \E i \in u.refused : PlaceOf(i, u.items, IdOrder) = k]

AnswersRight(q, n, u) ==
    \A k \in 1..Len(q) : q[k].kind = "answer" /\ q[k].update = n => ErrorsRight(u, q[k].errors)

\* An update waits in w, or is on its way to the engine in a or p, or its answer is in a, or
\* it was answered.
PlacedIn(w, a, p, u, n) ==
    /\ HasOnce(w, n) /\ HasOnce(a, n) /\ HasOnce(p, n)
    /\ Has(w, n) => ~Has(a, n) /\ ~Has(p, n) /\ u.answers = 0
    /\ Has(a, n) => ~Has(p, n) /\ u.answers = 0
    /\ Has(p, n) => u.answers = 0
    /\ u.answers \in {0, 1}
    /\ u.answers = 0 => Has(w, n) \/ Has(a, n) \/ Has(p, n)
    /\ u.answers = 1 => ErrorsRight(u, u.errors)
    /\ AnswersRight(a, n, u)

Placed(n) == PlacedIn(Waiting, adapterQ, apiQ, updates[n], n)

UpdatesPlaced == \A n \in 1..Len(updates) : Placed(n)
-----------------------------------------------------------------------------
(* Sequences                                                                *)

LEMMA SeqIs ==
    ASSUME NEW T, NEW q \in Seq(T)
    PROVE  IsSeq(q)
BY DEF IsSeq

LEMMA AppendIs ==
    ASSUME NEW q, IsSeq(q), NEW m
    PROVE  /\ IsSeq(Append(q, m)) /\ Len(Append(q, m)) = Len(q) + 1 /\ Len(q) \in Nat
           /\ \A k \in 1..Len(q) : Append(q, m)[k] = q[k]
           /\ Append(q, m)[Len(q) + 1] = m
<1> DEFINE T == {q[k] : k \in 1..Len(q)} \cup {m}
<1>1. q \in Seq(T) /\ m \in T
  BY DEF IsSeq
<1> HIDE DEF T
<1>2. Append(q, m) \in Seq(T)
  BY <1>1
<1>3. IsSeq(Append(q, m))
  BY <1>2, SeqIs
<1> QED BY <1>1, <1>3

LEMMA TailIs ==
    ASSUME NEW q, IsSeq(q), q # <<>>
    PROVE  /\ Len(q) \in Nat \ {0} /\ Head(q) = q[1] /\ 1 \in 1..Len(q)
           /\ IsSeq(Tail(q)) /\ Len(Tail(q)) = Len(q) - 1
           /\ \A k \in 1..Len(Tail(q)) : Tail(q)[k] = q[k + 1] /\ k + 1 \in 1..Len(q)
           /\ \A k \in 1..Len(q) : k # 1 => k - 1 \in 1..Len(Tail(q)) /\ Tail(q)[k - 1] = q[k]
<1> DEFINE T == {q[k] : k \in 1..Len(q)}
<1>1. q \in Seq(T)
  BY DEF IsSeq
<1> HIDE DEF T
<1>2. Tail(q) \in Seq(T) /\ Len(q) \in Nat \ {0} /\ Head(q) = q[1] /\ Len(Tail(q)) = Len(q) - 1
  BY <1>1
<1>3. \A k \in 1..(Len(q) - 1) : Tail(q)[k] = q[k + 1] /\ k + 1 \in 1..Len(q)
  BY <1>1, <1>2
<1>4. IsSeq(Tail(q))
  BY <1>2, SeqIs
<1>5. ASSUME NEW k \in 1..Len(q), k # 1
      PROVE  k - 1 \in 1..Len(Tail(q)) /\ Tail(q)[k - 1] = q[k]
  <2>1. k - 1 \in 1..(Len(q) - 1) /\ (k - 1) + 1 = k
    BY <1>2, <1>5
  <2> QED BY <2>1, <1>2, <1>3
<1> QED BY <1>2, <1>3, <1>4, <1>5

LEMMA ConcatIs ==
    ASSUME NEW q, IsSeq(q), NEW r, IsSeq(r)
    PROVE  /\ IsSeq(q \o r) /\ Len(q \o r) = Len(q) + Len(r) /\ Len(q) \in Nat /\ Len(r) \in Nat
           /\ \A k \in 1..Len(q) : (q \o r)[k] = q[k] /\ k \in 1..Len(q \o r)
           /\ \A k \in 1..Len(r) : (q \o r)[Len(q) + k] = r[k] /\ Len(q) + k \in 1..Len(q \o r)
           /\ \A k \in 1..Len(q \o r) : k \notin 1..Len(q) =>
                  k - Len(q) \in 1..Len(r) /\ (q \o r)[k] = r[k - Len(q)] /\ Len(q) + (k - Len(q)) = k
<1> DEFINE T == {q[k] : k \in 1..Len(q)} \cup {r[k] : k \in 1..Len(r)}
<1>1. q \in Seq(T) /\ r \in Seq(T)
  BY DEF IsSeq
<1> HIDE DEF T
<1>2. q \o r \in Seq(T) /\ Len(q \o r) = Len(q) + Len(r) /\ Len(q) \in Nat /\ Len(r) \in Nat
  BY <1>1, ConcatProperties
<1>3. \A k \in 1..(Len(q) + Len(r)) : (q \o r)[k] = IF k <= Len(q) THEN q[k] ELSE r[k - Len(q)]
  BY <1>1, ConcatProperties
<1>4. IsSeq(q \o r)
  BY <1>2, SeqIs
<1>5. ASSUME NEW k \in 1..Len(q) PROVE (q \o r)[k] = q[k] /\ k \in 1..Len(q \o r)
  <2>1. k \in 1..(Len(q) + Len(r)) /\ k <= Len(q)
    BY <1>2
  <2> QED BY <2>1, <1>2, <1>3
<1>6. ASSUME NEW k \in 1..Len(r) PROVE (q \o r)[Len(q) + k] = r[k] /\ Len(q) + k \in 1..Len(q \o r)
  <2>1. Len(q) + k \in 1..(Len(q) + Len(r)) /\ ~(Len(q) + k <= Len(q)) /\ (Len(q) + k) - Len(q) = k
    BY <1>2
  <2> QED BY <2>1, <1>2, <1>3
<1>7. ASSUME NEW k \in 1..Len(q \o r), k \notin 1..Len(q)
      PROVE  k - Len(q) \in 1..Len(r) /\ (q \o r)[k] = r[k - Len(q)] /\ Len(q) + (k - Len(q)) = k
  <2>1. /\ k \in 1..(Len(q) + Len(r)) /\ ~(k <= Len(q))
        /\ k - Len(q) \in 1..Len(r) /\ Len(q) + (k - Len(q)) = k
    BY <1>2, <1>7
  <2> QED BY <2>1, <1>3
<1> QED BY <1>2, <1>4, <1>5, <1>6, <1>7

\* Messages joined one by one.
LEMMA JoinIs ==
    ASSUME NEW q, IsSeq(q), NEW a, NEW b
    PROVE  /\ q \o <<>> = q /\ q \o <<a>> = Append(q, a)
           /\ q \o <<a, b>> = Append(Append(q, a), b)
<1> DEFINE T == {q[k] : k \in 1..Len(q)} \cup {a, b}
<1>1. q \in Seq(T) /\ a \in T /\ b \in T
  BY DEF IsSeq
<1> HIDE DEF T
<1>2. q \o <<>> = q
  BY <1>1, ConcatEmptySeq
<1>3. q \o <<a>> = Append(q, a)
  BY <1>1
<1>4. q \o <<a, b>> = Append(Append(q, a), b)
  BY <1>1
<1> QED BY <1>2, <1>3, <1>4

LEMMA EmptyIs == IsSeq(<<>>) /\ Len(<<>>) = 0
BY DEF IsSeq

-----------------------------------------------------------------------------
(* The last word on an item                                                 *)

LEMMA AppendSays ==
    ASSUME NEW q, IsSeq(q), NEW m, NEW i, NEW vals, Carries(m, i), Carried(m, i) \in vals
    PROVE  LastIn(Append(q, m), i, vals) /\ Waits(Append(q, m), i)
<1> DEFINE r == Append(q, m)
<1>1. Len(r) = Len(q) + 1 /\ Len(q) \in Nat /\ r[Len(q) + 1] = m
  BY AppendIs
<1> HIDE DEF r
<1>2. Len(q) + 1 \in 1..Len(r)
  BY <1>1
<1>3. ASSUME NEW k \in 1..Len(r), \A l \in 1..Len(r) : l > k => ~Carries(r[l], i)
      PROVE  Carried(r[k], i) \in vals
  <2>1. ~(Len(q) + 1 > k)
    BY <1>1, <1>2, <1>3
  <2>2. k = Len(q) + 1
    BY <1>1, <2>1
  <2> QED BY <1>1, <2>2
<1>4. LastIn(r, i, vals)
  BY <1>3 DEF LastIn
<1>5. Waits(r, i)
  BY <1>1, <1>2 DEF Waits
<1> QED BY <1>4, <1>5 DEF r

LEMMA AppendOther ==
    ASSUME NEW q, IsSeq(q), NEW m, NEW i, NEW vals, ~Carries(m, i)
    PROVE  /\ LastIn(q, i, vals) => LastIn(Append(q, m), i, vals)
           /\ Waits(Append(q, m), i) <=> Waits(q, i)
<1> DEFINE r == Append(q, m)
<1>1. /\ Len(r) = Len(q) + 1 /\ Len(q) \in Nat /\ r[Len(q) + 1] = m
      /\ \A k \in 1..Len(q) : r[k] = q[k]
  BY AppendIs
<1> HIDE DEF r
<1>2. \A k \in 1..Len(r) : k \in 1..Len(q) \/ k = Len(q) + 1
  BY <1>1
<1>3. \A k \in 1..Len(q) : k \in 1..Len(r)
  BY <1>1
<1>4. \A k \in 1..Len(r) : Carries(r[k], i) => k \in 1..Len(q) /\ r[k] = q[k]
  BY <1>1, <1>2
<1>5. LastIn(q, i, vals) => LastIn(r, i, vals)
  BY <1>1, <1>3, <1>4 DEF LastIn
<1>6. Waits(r, i) <=> Waits(q, i)
  BY <1>1, <1>3, <1>4 DEF Waits
<1> QED BY <1>5, <1>6 DEF r

LEMMA TailSays ==
    ASSUME NEW q, IsSeq(q), q # <<>>, NEW i, NEW vals, LastIn(q, i, vals)
    PROVE  /\ LastIn(Tail(q), i, vals)
           /\ ~Waits(Tail(q), i) /\ Carries(Head(q), i) => Carried(Head(q), i) \in vals
<1> DEFINE r == Tail(q)
<1>1. /\ Len(q) \in Nat \ {0} /\ Head(q) = q[1] /\ 1 \in 1..Len(q)
      /\ Len(r) = Len(q) - 1
      /\ \A k \in 1..Len(r) : r[k] = q[k + 1] /\ k + 1 \in 1..Len(q)
      /\ \A k \in 1..Len(q) : k # 1 => k - 1 \in 1..Len(r) /\ r[k - 1] = q[k]
  BY TailIs
<1> HIDE DEF r
<1>2. ASSUME NEW k \in 1..Len(r), Carries(r[k], i), \A l \in 1..Len(r) : l > k => ~Carries(r[l], i)
      PROVE  Carried(r[k], i) \in vals
  <2>1. k + 1 \in 1..Len(q) /\ r[k] = q[k + 1]
    BY <1>1
  <2>2. ASSUME NEW l \in 1..Len(q), l > k + 1
        PROVE  ~Carries(q[l], i)
    <3>1. l # 1 /\ l - 1 > k
      BY <2>2, <1>1
    <3>2. l - 1 \in 1..Len(r) /\ r[l - 1] = q[l]
      BY <1>1, <3>1
    <3> QED BY <1>2, <3>1, <3>2
  <2> QED BY <1>2, <2>1, <2>2 DEF LastIn
<1>3. LastIn(r, i, vals)
  BY <1>2 DEF LastIn
<1>4. ASSUME ~Waits(r, i), Carries(Head(q), i)
      PROVE  Carried(Head(q), i) \in vals
  <2>1. ASSUME NEW l \in 1..Len(q), l > 1
        PROVE  ~Carries(q[l], i)
    <3>1. l - 1 \in 1..Len(r) /\ r[l - 1] = q[l]
      BY <1>1, <2>1
    <3> QED BY <1>4, <3>1 DEF Waits
  <2> QED BY <1>1, <1>4, <2>1 DEF LastIn
<1> QED BY <1>3, <1>4 DEF r

LEMMA TailWaits ==
    ASSUME NEW q, IsSeq(q), q # <<>>, NEW i
    PROVE  Waits(q, i) <=> Carries(Head(q), i) \/ Waits(Tail(q), i)
<1> DEFINE r == Tail(q)
<1>1. /\ Head(q) = q[1] /\ 1 \in 1..Len(q)
      /\ \A k \in 1..Len(r) : r[k] = q[k + 1] /\ k + 1 \in 1..Len(q)
      /\ \A k \in 1..Len(q) : k # 1 => k - 1 \in 1..Len(r) /\ r[k - 1] = q[k]
  BY TailIs
<1> HIDE DEF r
<1>2. Waits(q, i) => Carries(Head(q), i) \/ Waits(r, i)
  BY <1>1 DEF Waits
<1>3. Carries(Head(q), i) => Waits(q, i)
  BY <1>1 DEF Waits
<1>4. Waits(r, i) => Waits(q, i)
  BY <1>1 DEF Waits
<1> QED BY <1>2, <1>3, <1>4 DEF r

LEMMA ConcatOther ==
    ASSUME NEW q, IsSeq(q), NEW d, IsSeq(d), NEW i, NEW vals,
           \A k \in 1..Len(d) : ~Carries(d[k], i)
    PROVE  /\ LastIn(q, i, vals) => LastIn(q \o d, i, vals)
           /\ Waits(q \o d, i) <=> Waits(q, i)
<1> DEFINE r == q \o d
<1>1. /\ \A k \in 1..Len(q) : r[k] = q[k] /\ k \in 1..Len(r)
      /\ \A k \in 1..Len(r) : k \notin 1..Len(q) =>
                  k - Len(q) \in 1..Len(d) /\ r[k] = d[k - Len(q)]
  BY ConcatIs
<1> HIDE DEF r
<1>2. \A k \in 1..Len(r) : Carries(r[k], i) => k \in 1..Len(q) /\ r[k] = q[k]
  BY <1>1
<1>3. LastIn(q, i, vals) => LastIn(r, i, vals)
  BY <1>1, <1>2 DEF LastIn
<1>4. Waits(r, i) <=> Waits(q, i)
  BY <1>1, <1>2 DEF Waits
<1> QED BY <1>3, <1>4 DEF r

-----------------------------------------------------------------------------
(* The message for an update                                                *)

LEMMA AppendHas ==
    ASSUME NEW q, IsSeq(q), NEW m, NEW n
    PROVE  /\ Has(Append(q, m), n) <=> Has(q, n) \/ Bears(m, n)
           /\ HasOnce(q, n) /\ ~(Has(q, n) /\ Bears(m, n)) => HasOnce(Append(q, m), n)
<1> DEFINE r == Append(q, m)
<1>1. /\ Len(r) = Len(q) + 1 /\ Len(q) \in Nat /\ r[Len(q) + 1] = m
      /\ \A k \in 1..Len(q) : r[k] = q[k]
  BY AppendIs
<1> HIDE DEF r
<1>0. \A k \in 1..Len(r) : k \in 1..Len(q) \/ k = Len(q) + 1
  BY <1>1
<1>2. \A k \in 1..Len(r) : (k \in 1..Len(q) /\ r[k] = q[k]) \/ (k = Len(q) + 1 /\ r[k] = m)
  BY <1>0, <1>1
<1>3. \A k \in 1..Len(q) : k \in 1..Len(r)
  BY <1>1
<1>4. Len(q) + 1 \in 1..Len(r)
  BY <1>1
<1>5. Has(r, n) <=> Has(q, n) \/ Bears(m, n)
  BY <1>1, <1>2, <1>3, <1>4 DEF Has
<1>6. ASSUME HasOnce(q, n), ~(Has(q, n) /\ Bears(m, n)),
             NEW k \in 1..Len(r), NEW l \in 1..Len(r), Bears(r[k], n), Bears(r[l], n)
      PROVE  k = l
  BY <1>2, <1>6 DEF Has, HasOnce
<1>7. HasOnce(q, n) /\ ~(Has(q, n) /\ Bears(m, n)) => HasOnce(r, n)
  BY <1>6 DEF HasOnce
<1> QED BY <1>5, <1>7 DEF r

LEMMA TailHas ==
    ASSUME NEW q, IsSeq(q), q # <<>>, NEW n
    PROVE  /\ Has(q, n) <=> Bears(Head(q), n) \/ Has(Tail(q), n)
           /\ HasOnce(q, n) => HasOnce(Tail(q), n) /\ ~(Bears(Head(q), n) /\ Has(Tail(q), n))
<1> DEFINE r == Tail(q)
<1>1. /\ Len(q) \in Nat \ {0} /\ Head(q) = q[1] /\ 1 \in 1..Len(q) /\ Len(r) = Len(q) - 1
      /\ \A k \in 1..Len(r) : r[k] = q[k + 1] /\ k + 1 \in 1..Len(q)
      /\ \A k \in 1..Len(q) : k # 1 => k - 1 \in 1..Len(r) /\ r[k - 1] = q[k]
  BY TailIs
<1> HIDE DEF r
<1>2. Has(q, n) => Bears(Head(q), n) \/ Has(r, n)
  BY <1>1 DEF Has
<1>3. Bears(Head(q), n) \/ Has(r, n) => Has(q, n)
  BY <1>1 DEF Has
<1>4. ASSUME HasOnce(q, n), NEW k \in 1..Len(r), NEW l \in 1..Len(r), Bears(r[k], n), Bears(r[l], n)
      PROVE  k = l
  <2>1. k + 1 \in 1..Len(q) /\ l + 1 \in 1..Len(q) /\ Bears(q[k + 1], n) /\ Bears(q[l + 1], n)
    BY <1>1, <1>4
  <2>2. k + 1 = l + 1
    BY <1>4, <2>1 DEF HasOnce
  <2> QED BY <1>1, <2>2
<1>5. HasOnce(q, n) => HasOnce(r, n)
  BY <1>4 DEF HasOnce
<1>6. ASSUME HasOnce(q, n), Bears(Head(q), n), Has(r, n)
      PROVE  FALSE
  <2>1. PICK k \in 1..Len(r) : Bears(r[k], n)
    BY <1>6 DEF Has
  <2>2. k + 1 \in 1..Len(q) /\ Bears(q[k + 1], n) /\ Bears(q[1], n)
    BY <1>1, <1>6, <2>1
  <2>3. k + 1 = 1
    BY <1>1, <1>6, <2>2 DEF HasOnce
  <2> QED BY <1>1, <2>1, <2>3
<1> QED BY <1>2, <1>3, <1>5, <1>6 DEF r

LEMMA ConcatHas ==
    ASSUME NEW q, IsSeq(q), NEW d, IsSeq(d), NEW n
    PROVE  /\ Has(q \o d, n) <=> Has(q, n) \/ Has(d, n)
           /\ HasOnce(q, n) /\ HasOnce(d, n) /\ ~(Has(q, n) /\ Has(d, n)) => HasOnce(q \o d, n)
<1> DEFINE r == q \o d
<1>1. /\ Len(q) \in Nat /\ Len(d) \in Nat
      /\ \A k \in 1..Len(q) : r[k] = q[k] /\ k \in 1..Len(r)
      /\ \A k \in 1..Len(d) : r[Len(q) + k] = d[k] /\ Len(q) + k \in 1..Len(r)
      /\ \A k \in 1..Len(r) : k \notin 1..Len(q) =>
                  k - Len(q) \in 1..Len(d) /\ r[k] = d[k - Len(q)] /\ Len(q) + (k - Len(q)) = k
  BY ConcatIs
<1> HIDE DEF r
<1>2. Has(r, n) => Has(q, n) \/ Has(d, n)
  BY <1>1 DEF Has
<1>3. Has(q, n) => Has(r, n)
  BY <1>1 DEF Has
<1>4. Has(d, n) => Has(r, n)
  BY <1>1 DEF Has
<1>5. ASSUME HasOnce(q, n), HasOnce(d, n), ~(Has(q, n) /\ Has(d, n)),
             NEW k \in 1..Len(r), NEW l \in 1..Len(r), Bears(r[k], n), Bears(r[l], n)
      PROVE  k = l
  <2>1. CASE k \in 1..Len(q) /\ l \in 1..Len(q)
    BY <1>1, <1>5, <2>1 DEF HasOnce
  <2>2. CASE k \notin 1..Len(q) /\ l \notin 1..Len(q)
    <3>1. /\ k - Len(q) \in 1..Len(d) /\ Bears(d[k - Len(q)], n) /\ Len(q) + (k - Len(q)) = k
          /\ l - Len(q) \in 1..Len(d) /\ Bears(d[l - Len(q)], n) /\ Len(q) + (l - Len(q)) = l
      BY <1>1, <1>5, <2>2
    <3>2. k - Len(q) = l - Len(q)
      BY <1>5, <3>1 DEF HasOnce
    <3> QED BY <3>1, <3>2
  <2>3. CASE k \in 1..Len(q) /\ l \notin 1..Len(q)
    BY <1>1, <1>5, <2>3 DEF Has
  <2>4. CASE k \notin 1..Len(q) /\ l \in 1..Len(q)
    BY <1>1, <1>5, <2>4 DEF Has
  <2> QED BY <2>1, <2>2, <2>3, <2>4
<1>6. HasOnce(q, n) /\ HasOnce(d, n) /\ ~(Has(q, n) /\ Has(d, n)) => HasOnce(r, n)
  BY <1>5 DEF HasOnce
<1> QED BY <1>2, <1>3, <1>4, <1>6 DEF r
-----------------------------------------------------------------------------
(* Masks and lists of satellites                                            *)

LEMMA InitialIds ==
    ASSUME NEW c \in Constellations
    PROVE  InitialSvId[c] \in Nat \ {0} /\ InitialSvId["sbas"] = 120
BY DEF InitialSvId, Constellations

LEMMA BitFits ==
    ASSUME NEW s \in Satellites, HasBit(s[1], s[2])
    PROVE  BitOf(s[1], s[2]) \in Bits
<1>1. PICK c \in Constellations, id \in Nat : c = s[1] /\ id = s[2] /\ (c = "sbas" => id < 208)
  BY DEF Satellites, Initial2SvId, InitialSvLength
<1>2. InitialSvId[c] \in Nat \ {0} /\ InitialSvId["sbas"] = 120
  BY InitialIds
<1>3. CASE InSecondRange(c, id)
  <2>1. c = "sbas" /\ id >= 183 /\ id < 208
    BY <1>1, <1>3 DEF InSecondRange, Initial2SvId
  <2>2. BitOf(c, id) = id + 39 - 183
    BY <1>3 DEF BitOf, Initial2SvId, InitialSvLength
  <2> QED BY <1>1, <2>1, <2>2 DEF Bits
<1>4. CASE ~InSecondRange(c, id)
  BY <1>1, <1>2, <1>4 DEF HasBit, BitOf, Bits
<1> QED BY <1>1, <1>3, <1>4

LEMMA MasksOfList ==
    ASSUME NEW list \in Lists
    PROVE  ToMasks(list) \in Masks
<1>1. ASSUME NEW c \in Constellations, NEW s \in list, s[1] = c, HasBit(c, s[2])
      PROVE  BitOf(c, s[2]) \in Bits
  <2>1. s \in Satellites
    BY DEF Lists
  <2> QED BY <2>1, <1>1, BitFits
<1>2. ASSUME NEW c \in Constellations
      PROVE  {BitOf(c, s[2]) : s \in {s \in list : s[1] = c /\ HasBit(c, s[2])}} \in SUBSET Bits
  BY <1>1
<1> QED BY <1>2 DEF ToMasks, Masks

LEMMA FrameworkListFits ==
    ASSUME NEW list, list \subseteq Satellites
    PROVE  {FromFramework(s) : s \in list} \in Lists
<1>1. ASSUME NEW s \in Satellites
      PROVE  FromFramework(s) \in Satellites
  <2>1. s = <<s[1], s[2]>> /\ s[1] \in Constellations /\ s[2] \in Nat
    BY DEF Satellites
  <2>2. InitialSvId[s[1]] \in Nat \ {0}
    BY <2>1, InitialIds
  <2>3. s[2] > 0 => s[2] + InitialSvId[s[1]] - 1 \in Nat
    BY <2>1, <2>2
  <2> QED BY <2>1, <2>3 DEF FromFramework, Satellites
<1> QED BY <1>1 DEF Lists

\* What the list made of masks holds.
LEMMA ListOfMasks ==
    ASSUME NEW masks \in Masks
    PROVE  /\ \A c \in Constellations : masks[c] \subseteq Bits
           /\ \A c \in Constellations \ {"sbas"} : \A id :
                  <<c, id>> \in ToList(masks) <=>
                      IF masks[c] = Bits THEN id = 0
                      ELSE \E b \in masks[c] : id = b + InitialSvId[c]
           /\ \A id : <<"sbas", id>> \in ToList(masks) <=>
                  \E b \in masks["sbas"] : id = IF b < 39 THEN b + 120 ELSE (b - 39) + 183
           /\ \A s \in ToList(masks) : s \in Satellites /\ s = <<s[1], s[2]>> /\ s[2] \in Nat
<1> DEFINE sbas == masks["sbas"]
           first == {b \in sbas : b < InitialSvLength}
           second == {b - InitialSvLength : b \in {b \in sbas : b >= InitialSvLength}}
           list == ToList(masks)
           A == MaskToList("sbas", first, InitialSvId["sbas"])
           B == MaskToList("sbas", second, Initial2SvId)
<1>1. \A c \in Constellations : masks[c] \subseteq Bits
  BY DEF Masks
<1>2. sbas \subseteq Bits
  BY <1>1 DEF Constellations
<1>3. list = UNION ({MaskToList(c, masks[c], InitialSvId[c]) : c \in Constellations \ {"sbas"}} \cup {A, B})
  BY DEF ToList
<1> HIDE DEF list
<1>4. \A s : s \in list <=>
          \/ \E c \in Constellations \ {"sbas"} : s \in MaskToList(c, masks[c], InitialSvId[c])
          \/ s \in A \/ s \in B
  BY <1>3
<1>5. 63 \in Bits /\ 63 \notin first
  BY DEF Bits, InitialSvLength
<1>6. 63 \notin second
  BY <1>2 DEF Bits, InitialSvLength
<1>7. A = {<<"sbas", b + 120>> : b \in first}
  BY <1>5, <1>5, InitialIds DEF MaskToList, Constellations
<1>8. B = {<<"sbas", b + 183>> : b \in second}
  BY <1>5, <1>6 DEF MaskToList, Initial2SvId
<1>9. ASSUME NEW c \in Constellations \ {"sbas"}, NEW s, s \in MaskToList(c, masks[c], InitialSvId[c])
      PROVE  /\ s[1] = c /\ s = <<c, s[2]>> /\ s[2] \in Nat
             /\ IF masks[c] = Bits THEN s[2] = 0 ELSE \E b \in masks[c] : s[2] = b + InitialSvId[c]
  BY <1>1, <1>9, InitialIds DEF MaskToList, Bits
<1>10. ASSUME NEW s, s \in A \cup B
       PROVE  s[1] = "sbas" /\ s[2] \in Nat /\ s = <<"sbas", s[2]>> /\ s[2] < 208
  BY <1>2, <1>7, <1>8, <1>10 DEF Bits, InitialSvLength
<1>11. ASSUME NEW c \in Constellations \ {"sbas"}, NEW id
       PROVE  <<c, id>> \in list <=>
                  IF masks[c] = Bits THEN id = 0
                  ELSE \E b \in masks[c] : id = b + InitialSvId[c]
  <2>1. <<c, id>> \in list <=> <<c, id>> \in MaskToList(c, masks[c], InitialSvId[c])
    <3>1. <<c, id>>[1] = c
      OBVIOUS
    <3>2. <<c, id>> \notin A \cup B
      BY <1>10, <3>1
    <3>3. \A d \in Constellations \ {"sbas"} :
              <<c, id>> \in MaskToList(d, masks[d], InitialSvId[d]) => d = c
      BY <1>9, <3>1
    <3> QED BY <1>4, <3>2, <3>3
  <2> QED BY <2>1 DEF MaskToList
<1>12. ASSUME NEW id
       PROVE  <<"sbas", id>> \in list <=>
                  \E b \in masks["sbas"] : id = IF b < 39 THEN b + 120 ELSE (b - 39) + 183
  <2>1. <<"sbas", id>> \in list <=> <<"sbas", id>> \in A \/ <<"sbas", id>> \in B
    BY <1>4, <1>9
  <2>2. <<"sbas", id>> \in A <=> \E b \in sbas : b < 39 /\ id = b + 120
    BY <1>7 DEF InitialSvLength
  <2>3. <<"sbas", id>> \in B <=> \E b \in sbas : b >= 39 /\ id = (b - 39) + 183
    BY <1>8 DEF InitialSvLength
  <2>4. \A b \in sbas : b \in Nat
    BY <1>2 DEF Bits
  <2> QED BY <2>1, <2>2, <2>3, <2>4
<1>13. ASSUME NEW s \in list PROVE s \in Satellites /\ s = <<s[1], s[2]>> /\ s[2] \in Nat
  <2>1. CASE s \in A \cup B
    <3>1. s[1] = "sbas" /\ s[2] \in Nat /\ s = <<"sbas", s[2]>> /\ s[2] < 208
      BY <1>10, <2>1
    <3>2. s = <<s[1], s[2]>> /\ s \in Constellations \X Nat /\ s[2] < 183 + 64 - 39
      BY <3>1 DEF Constellations
    <3> QED BY <3>1, <3>2 DEF Satellites, Initial2SvId, InitialSvLength
  <2>2. CASE \E c \in Constellations \ {"sbas"} : s \in MaskToList(c, masks[c], InitialSvId[c])
    BY <1>9, <2>2 DEF Satellites
  <2> QED BY <2>1, <2>2, <1>4
<1> QED BY <1>1, <1>11, <1>12, <1>13 DEF list

\* The masks kept as a list come back as they were (convertFromGnssSvIdConfig,
\* convertToGnssSvIdConfig): a restart of the engine loses no satellite and adds none.
LEMMA MasksComeBack ==
    ASSUME NEW masks \in Masks
    PROVE  ToList(masks) \in Lists /\ ToMasks(ToList(masks)) = masks
<1> DEFINE list == ToList(masks)
<1>1. /\ \A c \in Constellations : masks[c] \subseteq Bits
      /\ \A c \in Constellations \ {"sbas"} : \A id :
                  <<c, id>> \in list <=>
                      IF masks[c] = Bits THEN id = 0
                      ELSE \E b \in masks[c] : id = b + InitialSvId[c]
      /\ \A id : <<"sbas", id>> \in list <=>
                  \E b \in masks["sbas"] : id = IF b < 39 THEN b + 120 ELSE (b - 39) + 183
      /\ \A s \in list : s \in Satellites /\ s = <<s[1], s[2]>> /\ s[2] \in Nat
  BY ListOfMasks
<1> HIDE DEF list
<1>2. list \in Lists
  BY <1>1 DEF Lists
<1> DEFINE Mask(c) == {BitOf(c, s[2]) : s \in {s \in list : s[1] = c /\ HasBit(c, s[2])}}
<1>3. ASSUME NEW c \in Constellations, NEW b
      PROVE  b \in Mask(c) <=> \E id \in Nat : <<c, id>> \in list /\ HasBit(c, id) /\ b = BitOf(c, id)
  <2>1. ASSUME b \in Mask(c)
        PROVE  \E id \in Nat : <<c, id>> \in list /\ HasBit(c, id) /\ b = BitOf(c, id)
    <3>1. PICK s \in list : s[1] = c /\ HasBit(c, s[2]) /\ b = BitOf(c, s[2])
      BY <2>1
    <3>2. s[2] \in Nat /\ s = <<c, s[2]>>
      BY ONLY <1>1, <3>1
    <3> QED BY <3>1, <3>2
  <2>2. ASSUME NEW id \in Nat, <<c, id>> \in list, HasBit(c, id), b = BitOf(c, id)
        PROVE  b \in Mask(c)
    <3>1. <<c, id>>[1] = c /\ <<c, id>>[2] = id
      OBVIOUS
    <3> QED BY <2>2, <3>1
  <2> QED BY <2>1, <2>2
<1> HIDE DEF Mask
<1>4. ASSUME NEW c \in Constellations \ {"sbas"}
      PROVE  (IF <<c, 0>> \in list THEN Bits ELSE Mask(c)) = masks[c]
  <2>1. InitialSvId[c] \in Nat \ {0}
    BY InitialIds
  <2>2. \A b \in masks[c] : b \in 0..63
    BY <1>1 DEF Bits
  <2>3. <<c, 0>> \in list <=> masks[c] = Bits
    BY <1>1, <2>1, <2>2
  <2>4. CASE masks[c] # Bits
    <3>1. \A id : <<c, id>> \in list <=> \E b \in masks[c] : id = b + InitialSvId[c]
      BY <1>1, <2>4
    <3>2. \A id \in Nat : /\ HasBit(c, id) <=> id >= InitialSvId[c] /\ id < InitialSvId[c] + 64
                          /\ BitOf(c, id) = id - InitialSvId[c]
      BY DEF HasBit, BitOf, InSecondRange
    <3>3. ASSUME NEW b \in masks[c] PROVE b \in Mask(c)
      <4>1. /\ b + InitialSvId[c] \in Nat /\ b + InitialSvId[c] >= InitialSvId[c]
            /\ b + InitialSvId[c] < InitialSvId[c] + 64 /\ (b + InitialSvId[c]) - InitialSvId[c] = b
        BY <2>1, <2>2
      <4> QED BY <1>3, <3>1, <3>2, <4>1
    <3>4. ASSUME NEW b \in Mask(c) PROVE b \in masks[c]
      <4>1. PICK id \in Nat : <<c, id>> \in list /\ HasBit(c, id) /\ b = BitOf(c, id)
        BY <1>3, <3>4
      <4>2. PICK d \in masks[c] : id = d + InitialSvId[c]
        BY <3>1, <4>1
      <4>3. b = d
        BY <2>1, <2>2, <3>2, <4>1, <4>2
      <4> QED BY <4>3
    <3>5. Mask(c) = masks[c]
      BY <3>3, <3>4
    <3> QED BY <3>5, <2>3, <2>4
  <2>5. CASE masks[c] = Bits
    BY <2>3, <2>5
  <2> QED BY <2>4, <2>5
<1>5. (IF <<"sbas", 0>> \in list THEN Bits ELSE Mask("sbas")) = masks["sbas"]
  <2>1. "sbas" \in Constellations
    BY DEF Constellations
  <2>2. \A b \in masks["sbas"] : b \in 0..63
    BY <1>1, <2>1 DEF Bits
  <2>3. <<"sbas", 0>> \notin list
    BY <1>1, <2>2
  <2>4. ASSUME NEW b \in 0..63, NEW id, id = (IF b < 39 THEN b + 120 ELSE (b - 39) + 183)
        PROVE  id \in Nat /\ HasBit("sbas", id) /\ BitOf("sbas", id) = b
    BY <2>4, <2>1, InitialIds DEF HasBit, BitOf, InSecondRange, Initial2SvId, InitialSvLength
  <2>5. ASSUME NEW b \in masks["sbas"] PROVE b \in Mask("sbas")
    <3> DEFINE id == IF b < 39 THEN b + 120 ELSE (b - 39) + 183
    <3>1. <<"sbas", id>> \in list
      BY <1>1
    <3>2. id \in Nat /\ HasBit("sbas", id) /\ BitOf("sbas", id) = b
      BY <2>2, <2>4
    <3> HIDE DEF id
    <3> QED BY <1>3, <2>1, <3>1, <3>2
  <2>6. ASSUME NEW b \in Mask("sbas") PROVE b \in masks["sbas"]
    <3>1. PICK id \in Nat : <<"sbas", id>> \in list /\ HasBit("sbas", id) /\ b = BitOf("sbas", id)
      BY <1>3, <2>1, <2>6
    <3>2. PICK d \in masks["sbas"] : id = IF d < 39 THEN d + 120 ELSE (d - 39) + 183
      BY <1>1, <3>1
    <3>3. BitOf("sbas", id) = d
      BY <2>2, <2>4, <3>2
    <3> QED BY <3>1, <3>3
  <2>7. Mask("sbas") = masks["sbas"]
    BY <2>5, <2>6
  <2> QED BY <2>3, <2>7
<1>6. \A c \in Constellations : (IF <<c, 0>> \in list THEN Bits ELSE Mask(c)) = masks[c]
  BY <1>4, <1>5
<1>7. masks = [c \in Constellations |-> masks[c]]
  BY DEF Masks
<1>8. ToMasks(list) = [c \in Constellations |-> IF <<c, 0>> \in list THEN Bits ELSE Mask(c)]
  BY DEF ToMasks, Mask
<1>9. ToMasks(list) = masks
  BY <1>6, <1>7, <1>8
<1> QED BY <1>2, <1>9 DEF list
-----------------------------------------------------------------------------
(* Queues of messages                                                       *)

\* Updates that know what others know of their items.
Grown(us, vs) ==
    \A n \in 1..Len(us) : n \in 1..Len(vs) /\ vs[n].items = us[n].items

LEMMA FitsGrow ==
    ASSUME NEW us, NEW vs, Grown(us, vs), NEW m
    PROVE  /\ AdapterFits(m, us) => AdapterFits(m, vs)
           /\ ApiFits(m, us) => ApiFits(m, vs)
<1>1. \A n, items : IsUpdate(n, items, us) => IsUpdate(n, items, vs)
  BY DEF IsUpdate, Grown
<1>2. \A n : n \in 1..Len(us) => n \in 1..Len(vs)
  BY DEF Grown
<1>3. AdapterFits(m, us) => AdapterFits(m, vs)
  BY <1>1, <1>2 DEF AdapterFits
<1>4. ApiFits(m, us) => ApiFits(m, vs)
  BY <1>1 DEF ApiFits
<1> QED BY <1>3, <1>4

LEMMA QueuesGrow ==
    ASSUME NEW us, NEW vs, Grown(us, vs), NEW q
    PROVE  /\ AdapterQueue(q, us) => AdapterQueue(q, vs)
           /\ ApiQueue(q, us) => ApiQueue(q, vs)
<1>1. \A m : AdapterFits(m, us) => AdapterFits(m, vs)
  BY FitsGrow
<1>2. \A m : ApiFits(m, us) => ApiFits(m, vs)
  BY FitsGrow
<1>3. AdapterQueue(q, us) => AdapterQueue(q, vs)
  BY <1>1 DEF AdapterQueue
<1>4. ApiQueue(q, us) => ApiQueue(q, vs)
  BY <1>2 DEF ApiQueue
<1> QED BY <1>3, <1>4

LEMMA AdapterAppend ==
    ASSUME NEW us, NEW q, AdapterQueue(q, us), NEW m, AdapterFits(m, us)
    PROVE  AdapterQueue(Append(q, m), us)
<1> DEFINE r == Append(q, m)
<1>1. /\ IsSeq(r) /\ Len(r) = Len(q) + 1 /\ Len(q) \in Nat /\ r[Len(q) + 1] = m
      /\ \A k \in 1..Len(q) : r[k] = q[k]
  BY AppendIs DEF AdapterQueue
<1> HIDE DEF r
<1>2. \A k \in 1..Len(r) : k \in 1..Len(q) \/ k = Len(q) + 1
  BY <1>1
<1>3. AdapterQueue(r, us)
  BY <1>1, <1>2 DEF AdapterQueue
<1> QED BY <1>3 DEF r

LEMMA ApiAppend ==
    ASSUME NEW us, NEW q, ApiQueue(q, us), NEW m, ApiFits(m, us)
    PROVE  ApiQueue(Append(q, m), us)
<1> DEFINE r == Append(q, m)
<1>1. /\ IsSeq(r) /\ Len(r) = Len(q) + 1 /\ Len(q) \in Nat /\ r[Len(q) + 1] = m
      /\ \A k \in 1..Len(q) : r[k] = q[k]
  BY AppendIs DEF ApiQueue
<1> HIDE DEF r
<1>2. \A k \in 1..Len(r) : k \in 1..Len(q) \/ k = Len(q) + 1
  BY <1>1
<1>3. ApiQueue(r, us)
  BY <1>1, <1>2 DEF ApiQueue
<1> QED BY <1>3 DEF r

LEMMA AdapterTail ==
    ASSUME NEW us, NEW q, AdapterQueue(q, us), q # <<>>
    PROVE  AdapterFits(Head(q), us) /\ AdapterQueue(Tail(q), us)
<1> DEFINE r == Tail(q)
<1>1. /\ Head(q) = q[1] /\ 1 \in 1..Len(q) /\ IsSeq(r)
      /\ \A k \in 1..Len(r) : r[k] = q[k + 1] /\ k + 1 \in 1..Len(q)
  BY TailIs DEF AdapterQueue
<1> HIDE DEF r
<1>2. AdapterQueue(r, us) /\ AdapterFits(Head(q), us)
  BY <1>1 DEF AdapterQueue
<1> QED BY <1>2 DEF r

LEMMA ApiTail ==
    ASSUME NEW us, NEW q, ApiQueue(q, us), q # <<>>
    PROVE  ApiFits(Head(q), us) /\ ApiQueue(Tail(q), us)
<1> DEFINE r == Tail(q)
<1>1. /\ Head(q) = q[1] /\ 1 \in 1..Len(q) /\ IsSeq(r)
      /\ \A k \in 1..Len(r) : r[k] = q[k + 1] /\ k + 1 \in 1..Len(q)
  BY TailIs DEF ApiQueue
<1> HIDE DEF r
<1>2. ApiQueue(r, us) /\ ApiFits(Head(q), us)
  BY <1>1 DEF ApiQueue
<1> QED BY <1>2 DEF r

LEMMA AdapterConcat ==
    ASSUME NEW us, NEW q, AdapterQueue(q, us), NEW d, AdapterQueue(d, us)
    PROVE  AdapterQueue(q \o d, us)
<1> DEFINE r == q \o d
<1>1. /\ IsSeq(r)
      /\ \A k \in 1..Len(q) : r[k] = q[k] /\ k \in 1..Len(r)
      /\ \A k \in 1..Len(r) : k \notin 1..Len(q) =>
                  k - Len(q) \in 1..Len(d) /\ r[k] = d[k - Len(q)]
  BY ConcatIs DEF AdapterQueue
<1> HIDE DEF r
<1>2. AdapterQueue(r, us)
  BY <1>1 DEF AdapterQueue
<1> QED BY <1>2 DEF r

-----------------------------------------------------------------------------
(* What messages carry                                                      *)

LEMMA LockCarries ==
    ASSUME NEW lock, NEW i
    PROVE  /\ Carries(SetLock(lock), i) <=> i = "lock"
           /\ Carried(SetLock(lock), i) = lock
           /\ \A n : ~Bears(SetLock(lock), n)
BY DEF Carries, Carried, SetLock, Bears

LEMMA BlacklistCarries ==
    ASSUME NEW masks, NEW i
    PROVE  /\ Carries(SetBlacklist(masks), i) <=> i = "blacklist"
           /\ Carried(SetBlacklist(masks), i) = masks
           /\ \A n : ~Bears(SetBlacklist(masks), n)
BY DEF Carries, Carried, SetBlacklist, Bears

LEMMA ItemsCarry ==
    ASSUME NEW c, NEW needed, NEW n, NEW i
    PROVE  /\ Carries(SetItems(c, needed, n), i) <=>
                  i \in needed \/ (i = "list" /\ "blacklist" \in DOMAIN c)
           /\ i \in {"blacklist", "list"} =>
                  Carried(SetItems(c, needed, n), i) = ToMasks(c["blacklist"])
           /\ i \notin {"blacklist", "list"} => Carried(SetItems(c, needed, n), i) = c[i]
           /\ \A k : k # -1 => (Bears(SetItems(c, needed, n), k) <=> n = k)
<1>1. Carries(SetItems(c, needed, n), i) <=>
                  i \in needed \/ (i = "list" /\ "blacklist" \in DOMAIN c)
  BY DEF Carries, SetItems
<1>2. /\ i \in {"blacklist", "list"} =>
                  Carried(SetItems(c, needed, n), i) = ToMasks(c["blacklist"])
      /\ i \notin {"blacklist", "list"} => Carried(SetItems(c, needed, n), i) = c[i]
  BY DEF Carried, SetItems
<1>3. \A k : k # -1 => (Bears(SetItems(c, needed, n), k) <=> n = k)
  BY DEF Bears, SetItems
<1> QED BY <1>1, <1>2, <1>3

LEMMA EnableCarries ==
    ASSUME NEW control, NEW i
    PROVE  /\ Carries(Enable(control), i) <=> i = "control"
           /\ Carried(Enable(control), i) = control
           /\ \A n : ~Bears(Enable(control), n)
BY DEF Carries, Carried, Enable, Bears

\* A message to the adapter, other than enable, carries nothing.
LEMMA OthersCarryNothing ==
    ASSUME NEW us, NEW m, AdapterFits(m, us), m.kind # "enable", NEW i
    PROVE  ~Carries(m, i)
BY DEF Carries, AdapterFits

LEMMA ConfigBears ==
    ASSUME NEW config, NEW u, NEW n
    PROVE  /\ Bears(ConfigMessage(config, u), n) <=> n # -1 /\ u = n
           /\ \A i : ~Carries(ConfigMessage(config, u), i)
BY DEF Bears, ConfigMessage, Carries
-----------------------------------------------------------------------------
(* Updates                                                                  *)

LEMMA UpdatesAppend ==
    ASSUME NEW us, UpdatesFit(us), NEW u, UpdateFits(u)
    PROVE  /\ UpdatesFit(Append(us, u)) /\ Grown(us, Append(us, u))
           /\ \A n \in 1..Len(us) : Append(us, u)[n] = us[n]
           /\ Len(Append(us, u)) = Len(us) + 1 /\ Append(us, u)[Len(us) + 1] = u
           /\ Len(us) \in Nat
           /\ IsUpdate(Len(us) + 1, u.items, Append(us, u))
<1> DEFINE vs == Append(us, u)
<1>1. /\ IsSeq(vs) /\ Len(vs) = Len(us) + 1 /\ Len(us) \in Nat /\ vs[Len(us) + 1] = u
      /\ \A n \in 1..Len(us) : vs[n] = us[n]
  BY AppendIs DEF UpdatesFit
<1> HIDE DEF vs
<1>2. \A n \in 1..Len(vs) : n \in 1..Len(us) \/ n = Len(us) + 1
  BY <1>1
<1>3. UpdatesFit(vs)
  BY <1>1, <1>2 DEF UpdatesFit
<1>4. \A n \in 1..Len(us) : n \in 1..Len(vs)
  BY <1>1
<1>5. Grown(us, vs)
  BY <1>1, <1>4 DEF Grown
<1>6. IsUpdate(Len(us) + 1, u.items, vs)
  BY <1>1 DEF IsUpdate
<1> QED BY <1>1, <1>3, <1>5, <1>6 DEF vs

LEMMA NewUpdateFits ==
    ASSUME NEW config, IsConfig(config)
    PROVE  /\ UpdateFits(NewUpdate(config)) /\ NewUpdate(config).items = DOMAIN config
           /\ NewUpdate(config).answers = 0 /\ NewUpdate(config).refused = {}
BY DEF UpdateFits, NewUpdate, IsConfig

\* The updates with another in the place of one.
With(us, n, u) == [us EXCEPT ![n] = u]

LEMMA UpdatesExcept ==
    ASSUME NEW us, UpdatesFit(us), NEW n \in 1..Len(us), NEW u, UpdateFits(u), u.items = us[n].items
    PROVE  /\ UpdatesFit(With(us, n, u)) /\ Grown(us, With(us, n, u))
           /\ Len(With(us, n, u)) = Len(us) /\ With(us, n, u)[n] = u
           /\ \A k \in 1..Len(us) : k # n => With(us, n, u)[k] = us[k]
<1> DEFINE T == {us[k] : k \in 1..Len(us)} \cup {u}
           vs == With(us, n, u)
<1>1. us \in Seq(T) /\ u \in T
  BY DEF UpdatesFit, IsSeq
<1> HIDE DEF T
<1>2. /\ vs \in Seq(T) /\ Len(vs) = Len(us) /\ vs[n] = u
      /\ \A k \in 1..Len(us) : k # n => vs[k] = us[k]
  BY <1>1 DEF With
<1> HIDE DEF vs
<1>3. IsSeq(vs)
  BY <1>2, SeqIs
<1>4. \A k \in 1..Len(us) : vs[k] = IF k = n THEN u ELSE us[k]
  BY <1>2
<1>5. UpdatesFit(vs) /\ Grown(us, vs)
  BY <1>2, <1>3, <1>4 DEF UpdatesFit, Grown
<1> QED BY <1>2, <1>5 DEF vs

LEMMA SameGrown ==
    ASSUME NEW us
    PROVE  Grown(us, us)
BY DEF Grown

-----------------------------------------------------------------------------
(* Configurations                                                           *)

LEMMA TranslatedFits ==
    ASSUME NEW config \in Configs
    PROVE  IsConfig(Translated(config)) /\ DOMAIN Translated(config) = DOMAIN config
<1>1. /\ DOMAIN config \subseteq Items
      /\ "lock" \in DOMAIN config => config["lock"] \subseteq {"MO", "NI"}
      /\ "blacklist" \in DOMAIN config => config["blacklist"] \subseteq Satellites
  BY GnssConfigAssumption
<1> DEFINE c == Translated(config)
<1>2. /\ c = [i \in DOMAIN config |-> c[i]] /\ DOMAIN c = DOMAIN config
      /\ \A i \in DOMAIN config : i # "blacklist" => c[i] = config[i]
      /\ "blacklist" \in DOMAIN config =>
             c["blacklist"] = {FromFramework(s) : s \in config["blacklist"]}
  BY DEF Translated
<1> HIDE DEF c
<1>3. "blacklist" \in DOMAIN config => c["blacklist"] \in Lists
  BY <1>1, <1>2, FrameworkListFits
<1>4. IsConfig(c)
  BY <1>1, <1>2, <1>3 DEF IsConfig
<1> QED BY <1>2, <1>4 DEF c

LEMMA MergedFits ==
    ASSUME NEW c, IsConfig(c), NEW d, IsConfig(d)
    PROVE  IsConfig(Merged(c, d))
<1> DEFINE e == Merged(c, d)
<1>1. e = [i \in DOMAIN c \cup DOMAIN d |-> IF i \in DOMAIN c THEN c[i] ELSE d[i]]
  BY DEF Merged
<1>2. /\ DOMAIN e = DOMAIN c \cup DOMAIN d /\ e = [i \in DOMAIN e |-> e[i]]
      /\ \A i \in DOMAIN e : e[i] = IF i \in DOMAIN c THEN c[i] ELSE d[i]
  BY <1>1
<1> HIDE DEF e
<1>3. IsConfig(e)
  BY <1>2 DEF IsConfig
<1> QED BY <1>3 DEF e

\* The pending configuration that setCallback sends.
PendingSent ==
    [i \in DOMAIN hal.pending |-> IF i = "server" THEN NoServer ELSE hal.pending[i]]

LEMMA PendingFits ==
    ASSUME HalFits
    PROVE  IsConfig(PendingSent)
BY DEF HalFits, IsConfig, PendingSent

LEMMA NoConfigFits == IsConfig(NoConfig)
BY DEF IsConfig, NoConfig
-----------------------------------------------------------------------------
(* What callers do                                                          *)

\* A message that says nothing of the items and is for no update.
Plain(m) == m.kind \in {"nfw", "svTypes", "reset", "svConfig"}

\* A configuration is sent, or none.
SendsConfig(q) ==
    \/ q = adapterQ /\ updates' = updates
    \/ \E c : /\ IsConfig(c)
              /\ q = Append(adapterQ, ConfigMessage(c, Len(updates) + 1))
              /\ updates' = Append(updates, NewUpdate(c))

\* Then the control client is told of, or something else, or nothing.
SendsMore(q) ==
    \/ adapterQ' = q /\ hal'.enabled = hal.enabled
    \/ \E control \in BOOLEAN : adapterQ' = Append(q, Enable(control)) /\ hal'.enabled = control
    \/ \E m : Plain(m) /\ adapterQ' = Append(q, m) /\ hal'.enabled = hal.enabled

Called ==
    /\ UNCHANGED <<adapter, apiQ, engine, asked, flags>>
    /\ \E q : SendsConfig(q) /\ SendsMore(q)

LEMMA ConfigSent ==
    ASSUME Shapes, NEW config, IsConfig(config), Recorded(config)
    PROVE  /\ SendsConfig(adapterQ \o Sent(config))
           /\ AdapterQueue(adapterQ \o Sent(config), updates') /\ UpdatesFit(updates')
           /\ Grown(updates, updates')
<1>1. IsSeq(adapterQ) /\ UpdatesFit(updates) /\ AdapterQueue(adapterQ, updates)
  BY DEF Shapes, AdapterQueue
<1>2. CASE config = hal.last
  <2>1. adapterQ \o Sent(config) = adapterQ /\ updates' = updates
    BY <1>1, <1>2, JoinIs DEF Sent, Recorded
  <2> QED BY <1>1, <2>1, SameGrown DEF SendsConfig
<1>3. CASE config # hal.last
  <2> DEFINE m == ConfigMessage(config, Len(updates) + 1)
             u == NewUpdate(config)
  <2>1. adapterQ \o Sent(config) = Append(adapterQ, m) /\ updates' = Append(updates, u)
    BY <1>1, <1>3, JoinIs DEF Sent, Recorded
  <2>2. UpdateFits(u) /\ u.items = DOMAIN config
    BY NewUpdateFits
  <2>3. /\ UpdatesFit(updates') /\ Grown(updates, updates')
        /\ IsUpdate(Len(updates) + 1, u.items, updates')
    BY <1>1, <2>1, <2>2, UpdatesAppend
  <2>4. AdapterFits(m, updates')
    BY <2>2, <2>3 DEF AdapterFits, ConfigMessage
  <2>5. AdapterQueue(adapterQ, updates')
    BY <1>1, <2>3, QueuesGrow
  <2>6. AdapterQueue(Append(adapterQ, m), updates')
    BY <2>4, <2>5, AdapterAppend
  <2> QED BY <2>1, <2>3, <2>6 DEF SendsConfig
<1> QED BY <1>2, <1>3

\* What does not depend on callers stays in shape.
LEMMA RestFits ==
    ASSUME Shapes, UNCHANGED <<adapter, apiQ, engine, asked, flags>>, HalFits',
           AdapterQueue(adapterQ', updates'), UpdatesFit(updates'), Grown(updates, updates')
    PROVE  Shapes'
<1>1. ApiQueue(apiQ', updates')
  BY QueuesGrow DEF Shapes
<1>2. DeferredFits'
  BY QueuesGrow DEF Shapes, DeferredFits
<1>3. AdapterShape' /\ EngineFits' /\ asked' \in Masks /\ flags' \subseteq Items \cup {"late nfw", "overtaken"}
  BY DEF Shapes, AdapterShape, EngineFits
<1> QED BY <1>1, <1>2, <1>3 DEF Shapes

LEMMA SetCallbackCalls ==
    ASSUME Shapes, SetCallback
    PROVE  Shapes' /\ Called
<1> DEFINE config == PendingSent
           pends == ~hal.api /\ config # NoConfig
           q == IF pends THEN adapterQ \o Sent(config) ELSE adapterQ
<1>1. /\ hal' = [hal EXCEPT !.api = TRUE, !.enabled = TRUE, !.pending = NoConfig,
                            !.last = IF pends THEN config ELSE @]
      /\ adapterQ' = adapterQ \o (IF pends THEN Sent(config) ELSE <<>>) \o <<Enable(TRUE)>>
      /\ IF pends THEN Recorded(config) ELSE UNCHANGED updates
      /\ UNCHANGED <<adapter, apiQ, engine, asked, flags>>
  BY DEF SetCallback, PendingSent
<1>2. IsConfig(config) /\ IsConfig(NoConfig)
  BY PendingFits, NoConfigFits DEF Shapes
<1> HIDE DEF config
<1>3. HalFits' /\ hal'.enabled = TRUE
  BY <1>1, <1>2 DEF Shapes, HalFits
<1>4. IsSeq(adapterQ) /\ UpdatesFit(updates) /\ AdapterQueue(adapterQ, updates)
  BY DEF Shapes, AdapterQueue
<1>5. /\ SendsConfig(q) /\ AdapterQueue(q, updates') /\ UpdatesFit(updates')
      /\ Grown(updates, updates')
  <2>1. CASE pends
    BY <1>1, <1>2, <2>1, ConfigSent
  <2>2. CASE ~pends
    BY <1>1, <1>4, <2>2, SameGrown DEF SendsConfig
  <2> QED BY <2>1, <2>2
<1>6. adapterQ' = q \o <<Enable(TRUE)>>
  BY <1>1, <1>4, JoinIs
<1> HIDE DEF q
<1>7. adapterQ' = Append(q, Enable(TRUE))
  BY <1>5, <1>6, JoinIs DEF AdapterQueue
<1>8. AdapterFits(Enable(TRUE), updates')
  BY DEF AdapterFits, Enable
<1>9. AdapterQueue(adapterQ', updates')
  BY <1>5, <1>7, <1>8, AdapterAppend
<1>10. Shapes'
  BY <1>1, <1>3, <1>5, <1>9, RestFits
<1>11. SendsMore(q)
  BY <1>3, <1>7 DEF SendsMore
<1> QED BY <1>1, <1>5, <1>10, <1>11 DEF Called

LEMMA UpdateConfigurationCalls ==
    ASSUME Shapes, NEW c \in Configs, UpdateConfiguration(c)
    PROVE  Shapes' /\ Called
<1> DEFINE config == Translated(c)
           q == adapterQ \o Sent(config)
<1>1. /\ hal' = [hal EXCEPT !.last = config] /\ adapterQ' = q /\ Recorded(config)
      /\ UNCHANGED <<adapter, apiQ, engine, asked, flags>>
  BY DEF UpdateConfiguration
<1>2. IsConfig(config)
  BY TranslatedFits
<1> HIDE DEF config
<1>3. HalFits' /\ hal'.enabled = hal.enabled
  BY <1>1, <1>2 DEF Shapes, HalFits
<1>4. SendsConfig(q) /\ AdapterQueue(q, updates') /\ UpdatesFit(updates') /\ Grown(updates, updates')
  BY <1>1, <1>2, ConfigSent
<1>5. Shapes'
  BY <1>1, <1>3, <1>4, RestFits
<1>6. SendsMore(q)
  BY <1>1, <1>3 DEF SendsMore
<1> QED BY <1>1, <1>4, <1>5, <1>6 DEF Called

LEMMA KeepPendingCalls ==
    ASSUME Shapes, NEW c \in Configs, KeepPending(c)
    PROVE  Shapes' /\ Called
<1> DEFINE config == Merged(Translated(c), hal.pending)
<1>1. /\ hal' = [hal EXCEPT !.pending = config] /\ adapterQ' = adapterQ /\ updates' = updates
      /\ UNCHANGED <<adapter, apiQ, engine, asked, flags>>
  BY DEF KeepPending
<1>2. IsConfig(config)
  BY TranslatedFits, MergedFits DEF Shapes, HalFits
<1> HIDE DEF config
<1>3. HalFits' /\ hal'.enabled = hal.enabled
  BY <1>1, <1>2 DEF Shapes, HalFits
<1>4. Shapes'
  BY <1>1, <1>3, RestFits, SameGrown DEF Shapes
<1> QED BY <1>1, <1>3, <1>4 DEF Called, SendsConfig, SendsMore

LEMMA MessageCalls ==
    ASSUME Shapes, NEW m, AdapterFits(m, updates), adapterQ' = Append(adapterQ, m), HalFits',
           \/ Plain(m) /\ hal'.enabled = hal.enabled
           \/ \E control \in BOOLEAN : m = Enable(control) /\ hal'.enabled = control,
           UNCHANGED <<adapter, apiQ, engine, asked, updates, flags>>
    PROVE  Shapes' /\ Called
<1>1. AdapterQueue(adapterQ', updates')
  BY AdapterAppend DEF Shapes
<1>2. Shapes'
  BY <1>1, RestFits, SameGrown DEF Shapes
<1>3. SendsConfig(adapterQ)
  BY DEF SendsConfig
<1>4. SendsMore(adapterQ)
  BY DEF SendsMore
<1> QED BY <1>2, <1>3, <1>4 DEF Called

LEMMA CallersCall ==
    ASSUME Shapes, Callers
    PROVE  Shapes' /\ Called
<1>1. CASE SetCallback
  BY <1>1, SetCallbackCalls
<1>2. CASE Cleanup
  <2>1. HalFits' /\ hal'.enabled = FALSE
    BY <1>2 DEF Cleanup, Shapes, HalFits
  <2>2. AdapterFits(Enable(FALSE), updates)
    BY DEF AdapterFits, Enable
  <2> QED BY <1>2, <2>1, <2>2, MessageCalls DEF Cleanup
<1>3. CASE \E config \in Configs : UpdateConfiguration(config) \/ KeepPending(config)
  BY <1>3, UpdateConfigurationCalls, KeepPendingCalls
<1>4. HalFits /\ (UNCHANGED hal => HalFits' /\ hal'.enabled = hal.enabled)
  BY DEF Shapes, HalFits
<1>5. CASE \E enable \in BOOLEAN : NfwControl(enable)
  <2>1. PICK enable \in BOOLEAN : NfwControl(enable)
    BY <1>5
  <2> DEFINE m == [kind |-> "nfw", enable |-> enable]
  <2>2. AdapterFits(m, updates) /\ Plain(m)
    BY DEF AdapterFits, Plain
  <2>3. adapterQ' = Append(adapterQ, m) /\ UNCHANGED <<hal, adapter, apiQ, engine, asked, updates, flags>>
    BY <2>1 DEF NfwControl
  <2> HIDE DEF m
  <2> QED BY <1>4, <2>2, <2>3, MessageCalls
<1>6. CASE \E types \in SvTypes : UpdateSvTypes(types)
  <2>1. PICK types \in SvTypes : UpdateSvTypes(types)
    BY <1>6
  <2> DEFINE m == [kind |-> "svTypes", types |-> types]
  <2>2. types # Unset
    BY GnssConfigAssumption DEF Unset, Constellations
  <2>3. AdapterFits(m, updates) /\ Plain(m)
    BY <2>2 DEF AdapterFits, Plain
  <2>4. adapterQ' = Append(adapterQ, m) /\ UNCHANGED <<hal, adapter, apiQ, engine, asked, updates, flags>>
    BY <2>1 DEF UpdateSvTypes
  <2> HIDE DEF m
  <2> QED BY <1>4, <2>3, <2>4, MessageCalls
<1>7. CASE ResetSvTypes
  <2> DEFINE m == [kind |-> "reset"]
  <2>1. AdapterFits(m, updates) /\ Plain(m)
    BY DEF AdapterFits, Plain
  <2>2. adapterQ' = Append(adapterQ, m) /\ UNCHANGED <<hal, adapter, apiQ, engine, asked, updates, flags>>
    BY <1>7 DEF ResetSvTypes
  <2> HIDE DEF m
  <2> QED BY <1>4, <2>1, <2>2, MessageCalls
<1>8. CASE \E config \in SvConfigs : UpdateSvConfig(config)
  <2>1. PICK config \in SvConfigs : UpdateSvConfig(config)
    BY <1>8
  <2> DEFINE m == [kind |-> "svConfig", masks |-> config.masks, types |-> config.types]
  <2>2. config.masks \in Masks
    BY GnssConfigAssumption DEF Masks
  <2>3. AdapterFits(m, updates) /\ Plain(m)
    BY <2>2 DEF AdapterFits, Plain
  <2>4. adapterQ' = Append(adapterQ, m) /\ UNCHANGED <<hal, adapter, apiQ, engine, asked, updates, flags>>
    BY <2>1 DEF UpdateSvConfig
  <2> HIDE DEF m
  <2> QED BY <1>4, <2>3, <2>4, MessageCalls
<1> QED BY <1>1, <1>2, <1>3, <1>5, <1>6, <1>7, <1>8 DEF Callers
-----------------------------------------------------------------------------
(* What the adapter thread does                                             *)

SameSatellites ==
    adapter'.list = adapter.list /\ adapter'.masks = adapter.masks /\ adapter'.svType = adapter.svType
SameSettings ==
    \A i \in {"version", "server"} : adapter'.conf[i] = adapter.conf[i]
SameLock ==
    /\ adapter'.control = adapter.control /\ adapter'.nfw = adapter.nfw
    /\ adapter'.conf["lock"] = adapter.conf["lock"]
SameEngine ==
    adapter'.known = adapter.known /\ adapter'.deferred = adapter.deferred

\* The adapter takes a message.
Takes ==
    /\ adapterQ # <<>> /\ adapterQ' = Tail(adapterQ)
    /\ hal' = hal /\ engine' = engine /\ updates' = updates

\* A lock of the adapter's is sent.
SendsLock(lock) ==
    /\ apiQ' = Append(apiQ, SetLock(lock))
    /\ SameSatellites /\ SameSettings /\ SameEngine
    /\ adapter'.nfw = adapter.nfw /\ asked' = asked

LEMMA TakesFit ==
    ASSUME Shapes, Takes
    PROVE  /\ AdapterFits(Head(adapterQ), updates)
           /\ HalFits' /\ EngineFits' /\ AdapterQueue(adapterQ', updates')
           /\ UpdatesFit(updates') /\ updates' = updates
BY AdapterTail DEF Shapes, Takes, HalFits, EngineFits

LEMMA DeferDoes ==
    ASSUME Shapes, Defer
    PROVE  /\ Shapes' /\ Takes /\ ~adapter.known /\ adapter'.known = adapter.known
           /\ Head(adapterQ).kind \in NeedsEngine
           /\ adapter'.deferred = Append(adapter.deferred, Head(adapterQ))
           /\ apiQ' = apiQ /\ asked' = asked /\ flags' = flags
           /\ SameSatellites /\ SameSettings /\ SameLock
<1> DEFINE m == Head(adapterQ)
<1>1. Takes /\ m.kind \in NeedsEngine /\ ~adapter.known /\ apiQ' = apiQ /\ asked' = asked /\ flags' = flags
  BY DEF Defer, Takes
<1>2. /\ AdapterFits(m, updates) /\ HalFits' /\ EngineFits' /\ AdapterQueue(adapterQ', updates')
      /\ UpdatesFit(updates') /\ updates' = updates
  BY <1>1, TakesFit
<1> HIDE DEF m
<1>3. adapter' = [adapter EXCEPT !.deferred = Append(@, m)]
  BY DEF Defer, m
<1>4. AdapterShape' /\ SameSatellites /\ SameSettings /\ SameLock /\ adapter'.known = adapter.known
      /\ adapter'.deferred = Append(adapter.deferred, m)
  BY <1>3 DEF Shapes, AdapterShape, SameSatellites, SameSettings, SameLock
<1> DEFINE d == adapter.deferred
           e == Append(d, m)
<1>5. AdapterQueue(d, updates) /\ \A k \in 1..Len(d) : d[k].kind \in NeedsEngine
  BY DEF Shapes, DeferredFits
<1>6. AdapterQueue(e, updates)
  BY <1>2, <1>5, AdapterAppend
<1>7. /\ Len(e) = Len(d) + 1 /\ Len(d) \in Nat /\ e[Len(d) + 1] = m
      /\ \A k \in 1..Len(d) : e[k] = d[k]
  BY <1>5, AppendIs DEF AdapterQueue
<1>8. \A k \in 1..Len(e) : k \in 1..Len(d) \/ k = Len(d) + 1
  BY <1>7
<1>9. \A k \in 1..Len(e) : e[k].kind \in NeedsEngine
  BY <1>1, <1>5, <1>7, <1>8
<1>10. adapter'.deferred = e
  BY <1>4
<1> HIDE DEF d, e
<1>11. DeferredFits'
  BY <1>2, <1>6, <1>9, <1>10 DEF DeferredFits
<1>12. Shapes'
  BY <1>1, <1>2, <1>4, <1>11 DEF Shapes
<1> QED BY <1>1, <1>4, <1>12 DEF m

\* The adapter keeps or changes nothing else, and sends messages that fit.
LEMMA SendsFit ==
    ASSUME Shapes, Takes, AdapterShape', SameEngine, ApiQueue(apiQ', updates),
           asked' \in Masks, flags' \subseteq Items \cup {"late nfw", "overtaken"}
    PROVE  Shapes'
<1>1. DeferredFits'
  BY DEF Shapes, DeferredFits, SameEngine, Takes
<1> QED BY <1>1, TakesFit DEF Shapes

LEMMA LockFitsQueue ==
    ASSUME Shapes, NEW lock, lock \subseteq {"MO", "NI"}
    PROVE  ApiQueue(Append(apiQ, SetLock(lock)), updates)
<1>1. ApiFits(SetLock(lock), updates)
  BY DEF ApiFits, SetLock
<1> QED BY <1>1, ApiAppend DEF Shapes

LEMMA EnableDoes ==
    ASSUME Shapes, HandleEnable
    PROVE  /\ Shapes' /\ Takes /\ flags' = flags
           /\ Head(adapterQ).kind = "enable" /\ Head(adapterQ).control = TRUE
           /\ \/ apiQ' = apiQ /\ adapter' = adapter /\ asked' = asked /\ adapter.control = TRUE
              \/ \E lock : /\ SendsLock(lock) /\ adapter'.control = TRUE
                           /\ lock = IF adapter.nfw THEN adapter.conf["lock"] \cap {"NI"} ELSE {}
                           /\ adapter'.conf["lock"] = IF adapter.nfw THEN lock ELSE adapter.conf["lock"]
<1> DEFINE lock == IF adapter.nfw THEN adapter.conf.lock \cap {"NI"} ELSE {}
<1>1. /\ Takes /\ asked' = asked /\ flags' = flags
      /\ Head(adapterQ).kind = "enable" /\ Head(adapterQ).control
  BY DEF HandleEnable, Handles, Takes
<1>2. Head(adapterQ).control = TRUE
  BY <1>1, TakesFit DEF AdapterFits
<1>3. CASE adapter.control
  <2>1. apiQ' = apiQ /\ adapter' = adapter /\ adapter.control = TRUE
    BY <1>3 DEF HandleEnable, Shapes, AdapterShape
  <2>2. AdapterShape' /\ SameEngine
    BY <2>1 DEF Shapes, AdapterShape, SameEngine
  <2>3. Shapes'
    BY <1>1, <2>1, <2>2, SendsFit DEF Shapes
  <2> QED BY <1>1, <1>2, <2>1, <2>3
<1>4. CASE ~adapter.control
  <2>1. /\ adapter' = [adapter EXCEPT !.control = TRUE, !.conf.lock = IF adapter.nfw THEN lock ELSE @]
        /\ apiQ' = Append(apiQ, SetLock(lock))
    BY <1>4 DEF HandleEnable
  <2>2. lock \subseteq {"MO", "NI"}
    BY DEF Shapes, AdapterShape
  <2>3. lock = IF adapter.nfw THEN adapter.conf["lock"] \cap {"NI"} ELSE {}
    OBVIOUS
  <2> HIDE DEF lock
  <2>4. /\ AdapterShape' /\ adapter'.control = TRUE
        /\ adapter'.conf["lock"] = IF adapter.nfw THEN lock ELSE adapter.conf["lock"]
        /\ SameSatellites /\ SameSettings /\ SameEngine /\ adapter'.nfw = adapter.nfw
    BY <2>1, <2>2 DEF Shapes, AdapterShape, SameSatellites, SameSettings, SameEngine
  <2>5. SendsLock(lock)
    BY <1>1, <2>1, <2>4 DEF SendsLock
  <2>6. Shapes'
    BY <1>1, <2>1, <2>2, <2>4, LockFitsQueue, SendsFit DEF Shapes
  <2> QED BY <1>1, <1>2, <2>3, <2>4, <2>5, <2>6
<1> QED BY <1>3, <1>4

LEMMA DisableDoes ==
    ASSUME Shapes, HandleDisable
    PROVE  /\ Shapes' /\ Takes /\ flags' = flags
           /\ Head(adapterQ).kind = "enable" /\ Head(adapterQ).control = FALSE
           /\ \E lock : /\ SendsLock(lock) /\ adapter'.control = FALSE
                        /\ lock = adapter.conf["lock"] \cup (IF adapter.nfw THEN {"MO"} ELSE {})
                        /\ adapter'.conf["lock"] = lock
<1> DEFINE lock == adapter.conf.lock \cup (IF adapter.nfw THEN {"MO"} ELSE {})
<1>1. /\ Takes /\ asked' = asked /\ flags' = flags
      /\ Head(adapterQ).kind = "enable" /\ ~Head(adapterQ).control
  BY DEF HandleDisable, Handles, Takes
<1>2. Head(adapterQ).control = FALSE
  BY <1>1, TakesFit DEF AdapterFits
<1>3. /\ adapter' = [adapter EXCEPT !.control = FALSE, !.conf.lock = lock]
      /\ apiQ' = Append(apiQ, SetLock(lock))
  BY DEF HandleDisable
<1>4. lock \subseteq {"MO", "NI"}
  BY DEF Shapes, AdapterShape
<1>5. lock = adapter.conf["lock"] \cup (IF adapter.nfw THEN {"MO"} ELSE {})
  OBVIOUS
<1> HIDE DEF lock
<1>6. /\ AdapterShape' /\ adapter'.control = FALSE /\ adapter'.conf["lock"] = lock
      /\ SameSatellites /\ SameSettings /\ SameEngine /\ adapter'.nfw = adapter.nfw
  BY <1>3, <1>4 DEF Shapes, AdapterShape, SameSatellites, SameSettings, SameEngine
<1>7. SendsLock(lock)
  BY <1>1, <1>3, <1>6 DEF SendsLock
<1>8. Shapes'
  BY <1>1, <1>3, <1>4, <1>6, LockFitsQueue, SendsFit DEF Shapes
<1> QED BY <1>1, <1>2, <1>5, <1>6, <1>7, <1>8

LEMMA NfwDoes ==
    ASSUME Shapes, HandleNfw
    PROVE  /\ Shapes' /\ Takes /\ Head(adapterQ).kind = "nfw"
           /\ flags' = flags \cup (IF adapter.nfw THEN {} ELSE {"late nfw"})
           /\ \E lock : /\ SendsLock(lock) /\ adapter'.control = adapter.control
                        /\ "MO" \in lock <=> "MO" \in adapter.conf["lock"]
                        /\ adapter'.conf["lock"] = lock
<1> DEFINE lock == IF Head(adapterQ).enable THEN adapter.conf.lock \ {"NI"}
                   ELSE adapter.conf.lock \cup {"NI"}
<1>1. /\ Takes /\ asked' = asked /\ Head(adapterQ).kind = "nfw"
      /\ flags' = flags \cup (IF adapter.nfw THEN {} ELSE {"late nfw"})
  BY DEF HandleNfw, Handles, Takes
<1>2. /\ adapter' = [adapter EXCEPT !.conf.lock = lock]
      /\ apiQ' = Append(apiQ, SetLock(lock))
  BY DEF HandleNfw
<1>3. lock \subseteq {"MO", "NI"} /\ ("MO" \in lock <=> "MO" \in adapter.conf["lock"])
  BY DEF Shapes, AdapterShape
<1> HIDE DEF lock
<1>4. /\ AdapterShape' /\ adapter'.control = adapter.control /\ adapter'.conf["lock"] = lock
      /\ SameSatellites /\ SameSettings /\ SameEngine /\ adapter'.nfw = adapter.nfw
  BY <1>2, <1>3 DEF Shapes, AdapterShape, SameSatellites, SameSettings, SameEngine
<1>5. SendsLock(lock)
  BY <1>1, <1>2, <1>4 DEF SendsLock
<1>6. Shapes'
  BY <1>1, <1>2, <1>3, <1>4, LockFitsQueue, SendsFit DEF Shapes
<1> QED BY <1>1, <1>3, <1>4, <1>5, <1>6

\* The items of a request for the engine fit.
LEMMA ItemsFitQueue ==
    ASSUME Shapes, NEW q, ApiQueue(q, updates), NEW c, IsConfig(c), NEW needed, NEW n \in Nat,
           needed \subseteq DOMAIN c, DOMAIN c \subseteq needed \cup {"lock"},
           n # 0 => IsUpdate(n, DOMAIN c, updates)
    PROVE  ApiQueue(Append(q, SetItems(c, needed, n)), updates)
<1>1. ApiFits(SetItems(c, needed, n), updates)
  BY DEF ApiFits, SetItems
<1> QED BY <1>1, ApiAppend

LEMMA BlacklistFitsQueue ==
    ASSUME Shapes, NEW q, ApiQueue(q, updates), NEW masks \in Masks
    PROVE  ApiQueue(Append(q, SetBlacklist(masks)), updates)
<1>1. ApiFits(SetBlacklist(masks), updates)
  BY DEF ApiFits, SetBlacklist
<1> QED BY <1>1, ApiAppend

LEMMA AllOfFits ==
    ASSUME NEW masks \in Masks, NEW types
    PROVE  WithAllOf(masks, types) \in Masks
BY DEF WithAllOf, Masks

LEMMA NoMasksFit == NoMasks \in Masks
BY DEF NoMasks, Masks

LEMMA ConfigDoes ==
    ASSUME Shapes, HandleConfig
    PROVE  LET m == Head(adapterQ)
               c == m.config
           IN  /\ Shapes' /\ Takes /\ m.kind = "config" /\ AdapterFits(m, updates)
               /\ apiQ' = Append(apiQ, SetItems(Requested(c), DOMAIN c \ NotNeeded(c), m.update))
               /\ SameSatellites /\ SameEngine /\ adapter.known
               /\ adapter'.control = adapter.control
               /\ adapter'.conf["lock"] = (IF "lock" \in DOMAIN c THEN c["lock"] \cup {"MO"}
                                           ELSE adapter.conf["lock"])
               /\ \A i \in {"version", "server"} :
                      adapter'.conf[i] = IF i \in DOMAIN c THEN c[i] ELSE adapter.conf[i]
               /\ adapter'.nfw = (IF "lock" \in DOMAIN c THEN FALSE ELSE adapter.nfw)
               /\ "blacklist" \in DOMAIN c =>
                      asked' = ToMasks(c["blacklist"]) /\ flags' = flags \ {"overtaken"}
               /\ "blacklist" \notin DOMAIN c => asked' = asked /\ flags' = flags
<1> DEFINE m == Head(adapterQ)
           c == m.config
<1>1. /\ Takes /\ m.kind = "config" /\ adapter.known
      /\ adapter' = [adapter EXCEPT !.conf = Kept(c), !.nfw = @ /\ "lock" \notin DOMAIN c]
      /\ apiQ' = Append(apiQ, SetItems(Requested(c), DOMAIN c \ NotNeeded(c), m.update))
      /\ "blacklist" \in DOMAIN c =>
             asked' = ToMasks(c["blacklist"]) /\ flags' = flags \ {"overtaken"}
      /\ "blacklist" \notin DOMAIN c => asked' = asked /\ flags' = flags
  BY DEF HandleConfig, Handles, Takes
<1>2. AdapterFits(m, updates)
  BY <1>1, TakesFit
<1>3. IsConfig(c) /\ IsUpdate(m.update, DOMAIN c, updates)
  BY <1>1, <1>2 DEF AdapterFits
<1> HIDE DEF m, c
<1>4. /\ Kept(c) = [i \in {"lock", "version", "server"} |-> Kept(c)[i]]
      /\ Kept(c)["lock"] = (IF "lock" \in DOMAIN c THEN c["lock"] \cup {"MO"}
                            ELSE adapter.conf["lock"])
      /\ \A i \in {"version", "server"} :
             Kept(c)[i] = IF i \in DOMAIN c THEN c[i] ELSE adapter.conf[i]
  BY DEF Kept, Shapes, AdapterShape
<1>5. Kept(c)["lock"] \subseteq {"MO", "NI"}
  BY <1>3, <1>4 DEF Shapes, AdapterShape, IsConfig
<1>6. /\ adapter'.conf = Kept(c) /\ SameSatellites /\ SameEngine
      /\ adapter'.control = adapter.control
      /\ adapter'.nfw = (IF "lock" \in DOMAIN c THEN FALSE ELSE adapter.nfw)
      /\ adapter' = [control |-> adapter'.control, nfw |-> adapter'.nfw, conf |-> adapter'.conf,
                     list |-> adapter'.list, masks |-> adapter'.masks, svType |-> adapter'.svType,
                     known |-> adapter'.known, deferred |-> adapter'.deferred]
  BY <1>1 DEF Shapes, AdapterShape, SameSatellites, SameEngine
<1>7. AdapterShape'
  BY <1>4, <1>5, <1>6 DEF Shapes, AdapterShape, SameSatellites, SameEngine
<1> DEFINE d == Requested(c)
<1>8. IsConfig(d) /\ DOMAIN d = DOMAIN c
  BY <1>3 DEF IsConfig, Requested, LockOf, Shapes, AdapterShape
<1>9. DOMAIN c \ NotNeeded(c) \subseteq DOMAIN d /\ DOMAIN d \subseteq (DOMAIN c \ NotNeeded(c)) \cup {"lock"}
  BY <1>8 DEF NotNeeded
<1>10. m.update \in Nat
  BY <1>3 DEF IsUpdate
<1> HIDE DEF d
<1>11. ApiQueue(Append(apiQ, SetItems(d, DOMAIN c \ NotNeeded(c), m.update)), updates)
  BY <1>3, <1>8, <1>9, <1>10, ItemsFitQueue DEF Shapes
<1>12. ApiQueue(apiQ', updates)
  BY <1>1, <1>11 DEF d
<1>13. "blacklist" \in DOMAIN c => ToMasks(c["blacklist"]) \in Masks
  BY <1>3, MasksOfList DEF IsConfig
<1>14. asked' \in Masks /\ flags' \subseteq Items \cup {"late nfw", "overtaken"}
  BY <1>1, <1>13 DEF Shapes
<1>15. Shapes'
  BY <1>1, <1>6, <1>7, <1>12, <1>14, SendsFit
<1>16. /\ Shapes' /\ Takes /\ m.kind = "config" /\ AdapterFits(m, updates)
       /\ apiQ' = Append(apiQ, SetItems(Requested(c), DOMAIN c \ NotNeeded(c), m.update))
       /\ SameSatellites /\ SameEngine /\ adapter.known
       /\ adapter'.control = adapter.control
       /\ adapter'.conf["lock"] = (IF "lock" \in DOMAIN c THEN c["lock"] \cup {"MO"}
                                   ELSE adapter.conf["lock"])
       /\ \A i \in {"version", "server"} :
              adapter'.conf[i] = IF i \in DOMAIN c THEN c[i] ELSE adapter.conf[i]
       /\ adapter'.nfw = (IF "lock" \in DOMAIN c THEN FALSE ELSE adapter.nfw)
       /\ "blacklist" \in DOMAIN c =>
              asked' = ToMasks(c["blacklist"]) /\ flags' = flags \ {"overtaken"}
       /\ "blacklist" \notin DOMAIN c => asked' = asked /\ flags' = flags
  BY ONLY <1>1, <1>2, <1>4, <1>6, <1>15
<1> QED BY <1>16 DEF m, c

LEMMA TypedIs ==
    ASSUME NEW q, IsSeq(q), NEW masks, NEW types
    PROVE  /\ types = Unset => q \o TypedBlacklist(masks, types) = q
           /\ types # Unset => q \o TypedBlacklist(masks, types) =
                                   Append(q, SetBlacklist(WithAllOf(masks, types)))
BY JoinIs DEF TypedBlacklist

\* Only the satellites are touched.
KeepsSettings ==
    /\ SameSettings /\ SameLock /\ adapter'.deferred = adapter.deferred

LEMMA SvTypesDoes ==
    ASSUME Shapes, HandleSvTypes
    PROVE  \E types :
               /\ Shapes' /\ Takes /\ Head(adapterQ).kind = "svTypes" /\ types # Unset
               /\ apiQ' = Append(apiQ, SetBlacklist(WithAllOf(adapter.masks, types)))
               /\ adapter'.svType = types /\ adapter'.masks = adapter.masks
               /\ adapter'.list = adapter.list /\ adapter'.known = adapter.known
               /\ KeepsSettings /\ Overtakes /\ asked' = asked
<1> DEFINE m == Head(adapterQ)
           types == m.types
<1>1. /\ Takes /\ m.kind = "svTypes" /\ adapter' = [adapter EXCEPT !.svType = types]
      /\ apiQ' = apiQ \o TypedBlacklist(adapter.masks, types)
      /\ Overtakes /\ asked' = asked
  BY DEF HandleSvTypes, Handles, Takes
<1>2. types # Unset
  <2>1. AdapterFits(m, updates)
    BY <1>1, TakesFit
  <2> QED BY ONLY <1>1, <2>1 DEF AdapterFits
<1> HIDE DEF types, m
<1>3. apiQ' = Append(apiQ, SetBlacklist(WithAllOf(adapter.masks, types)))
  <2>1. IsSeq(apiQ)
    BY DEF Shapes, ApiQueue
  <2> QED BY ONLY <1>1, <1>2, <2>1, TypedIs
<1>4. /\ AdapterShape' /\ adapter'.svType = types /\ adapter'.masks = adapter.masks
      /\ adapter'.list = adapter.list /\ SameEngine /\ KeepsSettings
  BY <1>1 DEF Shapes, AdapterShape, SameEngine, KeepsSettings, SameSettings, SameLock
<1>5. ApiQueue(apiQ', updates)
  BY <1>3, AllOfFits, BlacklistFitsQueue DEF Shapes, AdapterShape
<1>6. flags' \subseteq Items \cup {"late nfw", "overtaken"}
  BY <1>1 DEF Overtakes, Shapes
<1>7. Shapes'
  BY <1>1, <1>4, <1>5, <1>6, SendsFit DEF Shapes
<1> QED BY <1>1, <1>2, <1>3, <1>4, <1>7 DEF m, SameEngine

LEMMA ResetDoes ==
    ASSUME Shapes, HandleReset
    PROVE  /\ Shapes' /\ Takes /\ Head(adapterQ).kind = "reset"
           /\ apiQ' = Append(apiQ, SetBlacklist(adapter.masks))
           /\ adapter'.svType = {} /\ adapter'.masks = adapter.masks
           /\ adapter'.list = adapter.list /\ adapter'.known = adapter.known
           /\ KeepsSettings /\ Overtakes /\ asked' = asked
<1>1. /\ Takes /\ Head(adapterQ).kind = "reset" /\ adapter' = [adapter EXCEPT !.svType = {}]
      /\ apiQ' = Append(apiQ, SetBlacklist(adapter.masks))
      /\ Overtakes /\ asked' = asked
  BY DEF HandleReset, Handles, Takes
<1>2. /\ AdapterShape' /\ adapter'.svType = {} /\ adapter'.masks = adapter.masks
      /\ adapter'.list = adapter.list /\ SameEngine /\ KeepsSettings
  BY <1>1 DEF Shapes, AdapterShape, SameEngine, KeepsSettings, SameSettings, SameLock
<1>3. ApiQueue(apiQ', updates)
  BY <1>1, BlacklistFitsQueue DEF Shapes, AdapterShape
<1>4. flags' \subseteq Items \cup {"late nfw", "overtaken"}
  BY <1>1 DEF Overtakes, Shapes
<1>5. Shapes'
  BY <1>1, <1>2, <1>3, <1>4, SendsFit DEF Shapes
<1> QED BY <1>1, <1>2, <1>5 DEF SameEngine

LEMMA SvConfigDoes ==
    ASSUME Shapes, HandleSvConfig
    PROVE  \E masks \in Masks :
               /\ Shapes' /\ Takes /\ Head(adapterQ).kind = "svConfig"
               /\ apiQ' = Append(apiQ, SetBlacklist(masks))
               /\ adapter'.masks = masks /\ ToMasks(adapter'.list) = masks
               /\ adapter'.known = adapter.known /\ KeepsSettings /\ asked' = masks
               /\ flags' = (flags \ {"overtaken"}) \cup (IF ListOnItsWay THEN {"overtaken"} ELSE {})
<1> DEFINE m == Head(adapterQ)
           masks == m.masks
<1>1. /\ Takes /\ m.kind = "svConfig"
      /\ adapter' = [adapter EXCEPT !.svType = m.types, !.masks = masks, !.list = KeptSvList(masks)]
      /\ apiQ' = Append(apiQ, SetBlacklist(masks)) /\ asked' = masks
      /\ flags' = (flags \ {"overtaken"}) \cup (IF ListOnItsWay THEN {"overtaken"} ELSE {})
  BY DEF HandleSvConfig, Handles, Takes
<1>2. masks \in Masks
  BY <1>1, TakesFit DEF AdapterFits
<1> HIDE DEF masks, m
<1>3. KeptSvList(masks) \in Lists /\ ToMasks(KeptSvList(masks)) = masks
  BY <1>2, MasksComeBack DEF KeptSvList
<1>4. /\ AdapterShape' /\ adapter'.masks = masks /\ adapter'.list = KeptSvList(masks)
      /\ SameEngine /\ KeepsSettings
  BY <1>1, <1>2, <1>3 DEF Shapes, AdapterShape, SameEngine, KeepsSettings, SameSettings, SameLock
<1>5. ApiQueue(apiQ', updates)
  BY <1>1, <1>2, BlacklistFitsQueue DEF Shapes
<1>6. flags' \subseteq Items \cup {"late nfw", "overtaken"}
  BY <1>1 DEF Shapes
<1>7. Shapes'
  BY <1>1, <1>2, <1>4, <1>5, <1>6, SendsFit DEF Shapes
<1> QED BY <1>1, <1>2, <1>3, <1>4, <1>7 DEF m, SameEngine

LEMMA RestoredFits ==
    ASSUME Shapes
    PROVE  /\ IsConfig(Restored) /\ DOMAIN Restored = {"lock", "version", "server", "blacklist"}
           /\ Restored["lock"] = WantedLock /\ Restored["blacklist"] = adapter.list
           /\ \A i \in {"version", "server"} : Restored[i] = adapter.conf[i]
<1>1. DOMAIN adapter.conf = {"lock", "version", "server"}
  BY DEF Shapes, AdapterShape
<1>2. /\ DOMAIN Restored = {"lock", "version", "server", "blacklist"}
      /\ Restored["lock"] = RestoredLock /\ Restored["blacklist"] = adapter.list
      /\ \A i \in {"version", "server"} : Restored[i] = adapter.conf[i]
  BY <1>1 DEF Restored
<1>3. RestoredLock = WantedLock /\ WantedLock \subseteq {"MO", "NI"}
  BY DEF RestoredLock, WantedLock, Shapes, AdapterShape
<1>4. Restored = [i \in DOMAIN Restored |-> Restored[i]]
  BY DEF Restored
<1>5. IsConfig(Restored)
  BY <1>2, <1>3, <1>4 DEF IsConfig, Items, Shapes, AdapterShape
<1> QED BY <1>2, <1>3, <1>5

\* What goes to the engine when it comes up.
SentUp(torn) ==
    Append(Append(apiQ, SetItems(Restored, DOMAIN Restored, 0)), SetBlacklist(Read(torn)))

LEMMA EngineUpHandled ==
    ASSUME Shapes, NEW torn \in BOOLEAN, HandleEngineUp(torn)
    PROVE  /\ Shapes' /\ Head(adapterQ).kind = "engineUp" /\ adapterQ # <<>>
           /\ adapterQ' = Tail(adapterQ) \o adapter.deferred
           /\ hal' = hal /\ engine' = engine /\ updates' = updates /\ asked' = asked
           /\ adapter'.known = TRUE /\ adapter'.deferred = adapter.deferred
           /\ SameSatellites /\ SameSettings /\ SameLock
           /\ adapter.svType = Unset => apiQ' = SentUp(torn)
           /\ adapter.svType # Unset =>
                  apiQ' = Append(SentUp(torn), SetBlacklist(WithAllOf(Read(torn), adapter.svType)))
           /\ flags' = flags \cup (IF ListOnItsWay \/ torn THEN {"overtaken"} ELSE {})
<1> DEFINE A == SetItems(Restored, DOMAIN Restored, 0)
           B == SetBlacklist(Read(torn))
           r == SentUp(torn)
<1>1. /\ adapterQ # <<>> /\ Head(adapterQ).kind = "engineUp"
      /\ adapterQ' = Tail(adapterQ) \o adapter.deferred
      /\ hal' = hal /\ engine' = engine /\ updates' = updates /\ asked' = asked
      /\ adapter' = [adapter EXCEPT !.known = TRUE]
      /\ apiQ' = apiQ \o <<A, B>> \o TypedBlacklist(Read(torn), adapter.svType)
      /\ flags' = flags \cup (IF ListOnItsWay \/ torn THEN {"overtaken"} ELSE {})
  BY DEF HandleEngineUp, Handles
<1>2. apiQ \o <<A, B>> = r
  <2>1. IsSeq(apiQ)
    BY DEF Shapes, ApiQueue
  <2>2. r = Append(Append(apiQ, A), B)
    BY DEF SentUp
  <2> HIDE DEF A, B, r
  <2> QED BY <2>1, <2>2, JoinIs
<1>3. Read(torn) \in Masks
  BY NoMasksFit DEF Read, Shapes, AdapterShape
<1>4. ApiQueue(r, updates)
  <2>1. ApiQueue(Append(apiQ, A), updates)
    BY RestoredFits, ItemsFitQueue DEF Shapes
  <2> QED BY <2>1, <1>3, BlacklistFitsQueue DEF SentUp
<1> HIDE DEF A, B, r
<1>5. apiQ' = r \o TypedBlacklist(Read(torn), adapter.svType)
  BY <1>1, <1>2
<1>6. /\ adapter.svType = Unset => apiQ' = r
      /\ adapter.svType # Unset =>
             apiQ' = Append(r, SetBlacklist(WithAllOf(Read(torn), adapter.svType)))
  BY <1>4, <1>5, TypedIs DEF ApiQueue
<1>7. WithAllOf(Read(torn), adapter.svType) \in Masks
  BY <1>3, AllOfFits
<1>8. ApiQueue(apiQ', updates)
  BY <1>4, <1>6, <1>7, BlacklistFitsQueue
<1>9. /\ AdapterShape' /\ adapter'.known = TRUE /\ adapter'.deferred = adapter.deferred
      /\ SameSatellites /\ SameSettings /\ SameLock
  BY <1>1 DEF Shapes, AdapterShape, SameSatellites, SameSettings, SameLock
<1>10. AdapterQueue(adapterQ', updates)
  BY <1>1, AdapterTail, AdapterConcat DEF Shapes, DeferredFits
<1>11. DeferredFits'
  BY <1>1, <1>9 DEF Shapes, DeferredFits
<1>12. flags' \subseteq Items \cup {"late nfw", "overtaken"}
  BY <1>1 DEF Shapes
<1>13. HalFits' /\ EngineFits'
  BY <1>1 DEF Shapes, HalFits, EngineFits
<1>14. Shapes'
  BY <1>1, <1>8, <1>9, <1>10, <1>11, <1>12, <1>13 DEF Shapes
<1> QED BY <1>1, <1>6, <1>9, <1>14 DEF r

LEMMA AnswerDoes ==
    ASSUME Shapes, HandleAnswer
    PROVE  LET m == Head(adapterQ)
               n == m.update
           IN  /\ Shapes' /\ adapterQ # <<>> /\ adapterQ' = Tail(adapterQ)
               /\ m.kind = "answer" /\ n \in 1..Len(updates)
               /\ UNCHANGED <<hal, adapter, apiQ, engine, asked, flags>>
               /\ Len(updates') = Len(updates)
               /\ updates'[n].items = updates[n].items /\ updates'[n].refused = updates[n].refused
               /\ updates'[n].errors = m.errors /\ updates'[n].answers = updates[n].answers + 1
               /\ \A k \in 1..Len(updates) : k # n => updates'[k] = updates[k]
<1> DEFINE m == Head(adapterQ)
           n == m.update
           u == [items |-> updates[n].items, refused |-> updates[n].refused,
                 errors |-> m.errors, answers |-> updates[n].answers + 1]
<1>1. /\ adapterQ # <<>> /\ adapterQ' = Tail(adapterQ) /\ m.kind = "answer"
      /\ UNCHANGED <<hal, adapter, apiQ, engine, asked, flags>>
      /\ updates' = [updates EXCEPT ![n] = Answered(@, m.errors)]
  BY DEF HandleAnswer, Handles
<1>2. AdapterFits(m, updates) /\ AdapterQueue(adapterQ', updates)
  BY <1>1, AdapterTail DEF Shapes
<1>3. n \in 1..Len(updates)
  BY <1>1, <1>2 DEF AdapterFits
<1>4. UpdatesFit(updates) /\ UpdateFits(updates[n])
  BY <1>3 DEF Shapes, UpdatesFit
<1>5. /\ UpdateFits(u) /\ u.items = updates[n].items /\ u.refused = updates[n].refused
      /\ u.errors = m.errors /\ u.answers = updates[n].answers + 1
  BY <1>4 DEF UpdateFits
<1>6. updates' = [updates EXCEPT ![n] = u]
  BY <1>1 DEF Answered
<1> HIDE DEF u, n, m
<1>7. /\ UpdatesFit(updates') /\ Grown(updates, updates') /\ Len(updates') = Len(updates)
      /\ updates'[n] = u /\ \A k \in 1..Len(updates) : k # n => updates'[k] = updates[k]
  <2>1. updates' = With(updates, n, u)
    BY <1>6 DEF With
  <2>2. n \in 1..Len(updates) /\ UpdatesFit(updates) /\ UpdateFits(u) /\ u.items = updates[n].items
    BY <1>3, <1>4, <1>5
  <2>3. /\ UpdatesFit(With(updates, n, u)) /\ Grown(updates, With(updates, n, u))
        /\ Len(With(updates, n, u)) = Len(updates) /\ With(updates, n, u)[n] = u
        /\ \A k \in 1..Len(updates) : k # n => With(updates, n, u)[k] = updates[k]
    BY ONLY <2>2, UpdatesExcept
  <2> QED BY <2>1, <2>3
<1>8. AdapterQueue(adapterQ', updates')
  BY <1>2, <1>7, QueuesGrow
<1>9. HalFits'
  BY <1>1 DEF Shapes, HalFits
<1>10. Shapes'
  BY <1>1, <1>7, <1>8, <1>9, RestFits
<1>11. /\ Shapes' /\ adapterQ # <<>> /\ adapterQ' = Tail(adapterQ)
       /\ m.kind = "answer" /\ n \in 1..Len(updates)
       /\ UNCHANGED <<hal, adapter, apiQ, engine, asked, flags>>
       /\ Len(updates') = Len(updates)
       /\ updates'[n].items = updates[n].items /\ updates'[n].refused = updates[n].refused
       /\ updates'[n].errors = m.errors /\ updates'[n].answers = updates[n].answers + 1
       /\ \A k \in 1..Len(updates) : k # n => updates'[k] = updates[k]
  BY <1>1, <1>3, <1>5, <1>7, <1>10
<1> QED BY <1>11 DEF m, n

-----------------------------------------------------------------------------
(* What the engine does                                                     *)

EngineUpPosts == adapterQ' = Append(adapterQ, [kind |-> "engineUp"])

LEMMA EngineUpDoes ==
    ASSUME Shapes, EngineUp
    PROVE  /\ Shapes' /\ EngineUpPosts
           /\ UNCHANGED <<hal, adapter, apiQ, asked, updates, flags>>
           /\ \/ ~adapter.known /\ ~Has(adapterQ, -1)
              \/ adapter.known /\ adapter.deferred = <<>>
<1>1. EngineUpPosts /\ engine' = FreshEngine /\ UNCHANGED <<hal, adapter, apiQ, asked, updates, flags>>
  BY DEF EngineUp, EngineUpPosts
<1>2. \/ ~adapter.known /\ [kind |-> "engineUp"] \notin ToSet(adapterQ)
      \/ adapter.known /\ adapter.deferred = <<>>
  BY DEF EngineUp
<1>8. [kind |-> "engineUp"] \notin ToSet(adapterQ) => ~Has(adapterQ, -1)
  <2>1. ToSet(adapterQ) = {adapterQ[k] : k \in 1..Len(adapterQ)}
    <3>1. adapterQ \in Seq({adapterQ[k] : k \in 1..Len(adapterQ)})
      BY DEF Shapes, AdapterQueue, IsSeq
    <3>2. DOMAIN adapterQ = 1..Len(adapterQ)
      BY <3>1
    <3> QED BY <3>2 DEF ToSet
  <2>2. \A k \in 1..Len(adapterQ) : adapterQ[k].kind = "engineUp" => adapterQ[k] = [kind |-> "engineUp"]
    BY DEF Shapes, AdapterQueue, AdapterFits
  <2> QED BY <2>1, <2>2 DEF Has, Bears
<1>3. EngineFits'
  <2>1. engine' = [lock |-> {}, version |-> 0, server |-> NoServer, blacklist |-> NoMasks, extension |-> 0]
    BY <1>1 DEF FreshEngine
  <2> QED BY <2>1, NoMasksFit DEF EngineFits, Items
<1>4. AdapterFits([kind |-> "engineUp"], updates)
  BY DEF AdapterFits
<1>5. AdapterQueue(adapterQ', updates)
  BY <1>1, <1>4, AdapterAppend DEF Shapes, EngineUpPosts
<1>6. HalFits' /\ AdapterShape' /\ DeferredFits'
  BY <1>1 DEF Shapes, HalFits, AdapterShape, DeferredFits
<1>7. Shapes'
  BY <1>1, <1>3, <1>5, <1>6 DEF Shapes
<1> QED BY <1>1, <1>2, <1>7, <1>8

-----------------------------------------------------------------------------
(* What the LocApi thread does                                              *)

\* The engine takes what a message says of its items, or refuses it; a list is kept.
Applied ==
    LET m == Head(apiQ)
    IN  /\ apiQ # <<>> /\ apiQ' = Tail(apiQ) /\ hal' = hal /\ asked' = asked
        /\ \A i \in Items :
            /\ ~Carries(m, i) => engine'[i] = engine[i] /\ (i \in flags' <=> i \in flags)
            /\ Carries(m, i) => i \in flags' \/ engine'[i] = Carried(m, i)
        /\ \A f \in {"late nfw", "overtaken"} : f \in flags' <=> f \in flags
        /\ SameLock /\ SameSettings /\ SameEngine /\ adapter'.svType = adapter.svType
        /\ Carries(m, "list") =>
            adapter'.masks = Carried(m, "list") /\ ToMasks(adapter'.list) = Carried(m, "list")
        /\ ~Carries(m, "list") => adapter'.masks = adapter.masks /\ adapter'.list = adapter.list

\* An update is answered.
AnswerTo(m, refused) ==
    [kind |-> "answer", update |-> m.update, errors |-> ErrorsOf(m.config, refused)]

Replies ==
    LET m == Head(apiQ)
    IN  \/ /\ adapterQ' = adapterQ /\ updates' = updates
           /\ \A n \in Nat \ {0} : ~Bears(m, n)
        \/ \E refused \in SUBSET m.needed :
               /\ m.kind = "setItems" /\ m.update \in 1..Len(updates)
               /\ adapterQ' = Append(adapterQ, AnswerTo(m, refused))
               /\ updates' = With(updates, m.update,
                                  [items |-> updates[m.update].items, refused |-> refused,
                                   errors |-> updates[m.update].errors,
                                   answers |-> updates[m.update].answers])

LEMMA OneApplied ==
    ASSUME Shapes, NEW item \in {"lock", "blacklist"}, NEW kind, NEW val, SetOne(item, kind, val),
           \/ item = "lock" /\ kind = "setLock" /\ val = Head(apiQ).lock
           \/ item = "blacklist" /\ kind = "setBlacklist" /\ val = Head(apiQ).masks
    PROVE  Shapes' /\ Applied /\ Replies
<1> DEFINE m == Head(apiQ)
<1>1. PICK refused \in SUBSET {item} :
        /\ apiQ # <<>> /\ m.kind = kind
        /\ flags' = (flags \ {item}) \cup refused
        /\ engine' = IF refused = {} THEN [engine EXCEPT ![item] = val] ELSE engine
        /\ apiQ' = Tail(apiQ)
        /\ UNCHANGED <<hal, adapter, adapterQ, asked, updates>>
  BY DEF SetOne, Refuses
<1>2. ApiFits(m, updates) /\ ApiQueue(apiQ', updates)
  BY <1>1, ApiTail DEF Shapes
<1>3. /\ \A i : Carries(m, i) <=> i = item
      /\ Carried(m, item) = val
      /\ \A n \in Nat \ {0} : ~Bears(m, n)
  BY <1>1 DEF Carries, Carried, Bears
<1>4. item \in Items /\ item \notin {"late nfw", "overtaken", "list"}
  BY DEF Items
<1>5. /\ item = "lock" => val \subseteq {"MO", "NI"}
      /\ item = "blacklist" => val \in Masks
  BY <1>1, <1>2 DEF ApiFits
<1> HIDE DEF m
<1>6. /\ engine' = [i \in Items |-> engine'[i]]
      /\ \A i \in Items : engine'[i] = IF i = item /\ refused = {} THEN val ELSE engine[i]
  BY <1>1, <1>4 DEF Shapes, EngineFits
<1>7. EngineFits'
  BY <1>5, <1>6 DEF Shapes, EngineFits, Items
<1>8. flags' \subseteq Items \cup {"late nfw", "overtaken"}
  BY <1>1, <1>4 DEF Shapes
<1>9. HalFits' /\ AdapterShape' /\ DeferredFits'
  BY <1>1 DEF Shapes, HalFits, AdapterShape, DeferredFits
<1>10. Shapes'
  BY <1>1, <1>2, <1>7, <1>8, <1>9 DEF Shapes
<1>11. Replies
  BY <1>1, <1>3 DEF Replies, m
<1>12. \A i \in Items :
            /\ ~Carries(m, i) => engine'[i] = engine[i] /\ (i \in flags' <=> i \in flags)
            /\ Carries(m, i) => i \in flags' \/ engine'[i] = Carried(m, i)
  BY <1>1, <1>3, <1>6
<1>13. \A f \in {"late nfw", "overtaken"} : f \in flags' <=> f \in flags
  BY <1>1, <1>4
<1>14. SameLock /\ SameSettings /\ SameEngine /\ adapter' = adapter
  BY <1>1 DEF SameLock, SameSettings, SameEngine
<1>15. ~Carries(m, "list")
  BY <1>3, <1>4
<1>16. Applied
  BY <1>1, <1>12, <1>13, <1>14, <1>15 DEF Applied, m
<1> QED BY <1>10, <1>11, <1>16

LEMMA ItemsApplied ==
    ASSUME Shapes, ApplyItems
    PROVE  Shapes' /\ Applied /\ Replies
<1> DEFINE m == Head(apiQ)
           c == m.config
           masks == ToMasks(c["blacklist"])
<1>1. PICK refused \in SUBSET m.needed :
        /\ apiQ # <<>> /\ m.kind = "setItems"
        /\ flags' = (flags \ m.needed) \cup refused
        /\ engine' = [i \in Items |->
                         IF i \notin m.needed \ refused THEN engine[i]
                         ELSE IF i = "blacklist" THEN masks ELSE c[i]]
        /\ adapter' = IF "blacklist" \in DOMAIN c
                      THEN [adapter EXCEPT !.list = c["blacklist"], !.masks = masks]
                      ELSE adapter
        /\ IF m.update = 0
           THEN UNCHANGED <<adapterQ, updates>>
           ELSE /\ adapterQ' = Append(adapterQ, AnswerTo(m, refused))
                /\ updates' = [updates EXCEPT ![m.update].refused = refused]
        /\ apiQ' = Tail(apiQ) /\ hal' = hal /\ asked' = asked
  BY DEF ApplyItems, Refuses, AnswerTo
<1>2. ApiFits(m, updates) /\ ApiQueue(apiQ', updates)
  BY <1>1, ApiTail DEF Shapes
<1>3. /\ IsConfig(c) /\ m.needed \subseteq DOMAIN c /\ DOMAIN c \subseteq m.needed \cup {"lock"}
      /\ m.update # 0 => IsUpdate(m.update, DOMAIN c, updates)
      /\ m.update \in Nat
  BY <1>1, <1>2 DEF ApiFits
<1>4. /\ m.needed \subseteq Items
      /\ "lock" \in m.needed => c["lock"] \subseteq {"MO", "NI"}
      /\ "blacklist" \in DOMAIN c => c["blacklist"] \in Lists /\ masks \in Masks
  BY <1>3, MasksOfList DEF IsConfig
<1>5. /\ \A i \in Items : Carries(m, i) <=> i \in m.needed
      /\ Carries(m, "list") <=> "blacklist" \in DOMAIN c
      /\ \A i \in {"blacklist", "list"} : Carried(m, i) = masks
      /\ \A i \in Items \ {"blacklist"} : Carried(m, i) = c[i]
      /\ m.update = 0 => \A n \in Nat \ {0} : ~Bears(m, n)
  BY <1>1, <1>4 DEF Carries, Carried, Bears, Items
<1> HIDE DEF m, c, masks
<1>6. /\ engine' = [i \in Items |-> engine'[i]]
      /\ \A i \in Items : engine'[i] = IF i \notin m.needed \ refused THEN engine[i]
                                       ELSE IF i = "blacklist" THEN masks ELSE c[i]
  BY <1>1
<1>7. EngineFits'
  <2>1. "lock" \in Items /\ "blacklist" \in Items
    BY DEF Items
  <2>2. engine'["lock"] \subseteq {"MO", "NI"}
    BY <1>4, <1>6, <2>1 DEF Shapes, EngineFits
  <2>3. engine'["blacklist"] \in Masks
    BY <1>3, <1>4, <1>6, <2>1 DEF Shapes, EngineFits
  <2> QED BY <1>6, <2>2, <2>3 DEF EngineFits
<1>8. flags' \subseteq Items \cup {"late nfw", "overtaken"}
  BY <1>1, <1>4 DEF Shapes
<1>9. /\ AdapterShape' /\ SameLock /\ SameSettings /\ SameEngine /\ adapter'.svType = adapter.svType
      /\ "blacklist" \in DOMAIN c => adapter'.list = c["blacklist"] /\ adapter'.masks = masks
      /\ "blacklist" \notin DOMAIN c => adapter'.list = adapter.list /\ adapter'.masks = adapter.masks
  BY <1>1, <1>4 DEF Shapes, AdapterShape, SameLock, SameSettings, SameEngine
<1>10. Applied
  <2>1. \A i \in Items :
            /\ ~Carries(m, i) => engine'[i] = engine[i] /\ (i \in flags' <=> i \in flags)
            /\ Carries(m, i) => i \in flags' \/ engine'[i] = Carried(m, i)
    BY <1>1, <1>5, <1>6
  <2>2. \A f \in {"late nfw", "overtaken"} : f \in flags' <=> f \in flags
    BY <1>1, <1>4 DEF Items
  <2>3. Carries(m, "list") =>
            adapter'.masks = Carried(m, "list") /\ ToMasks(adapter'.list) = Carried(m, "list")
    BY <1>5, <1>9 DEF masks
  <2>4. ~Carries(m, "list") => adapter'.masks = adapter.masks /\ adapter'.list = adapter.list
    BY <1>5, <1>9
  <2> QED BY <1>1, <1>9, <2>1, <2>2, <2>3, <2>4 DEF Applied, m
<1>11. CASE m.update = 0
  <2>1. adapterQ' = adapterQ /\ updates' = updates
    BY <1>1, <1>11
  <2>2. HalFits' /\ DeferredFits'
    BY <1>1, <1>9, <2>1 DEF Shapes, HalFits, DeferredFits, SameEngine
  <2>3. Shapes'
    BY <1>1, <1>2, <1>7, <1>8, <1>9, <2>1, <2>2 DEF Shapes
  <2>4. Replies
    BY <1>5, <1>11, <2>1 DEF Replies, m
  <2> QED BY <1>10, <2>3, <2>4
<1>12. CASE m.update # 0
  <2> DEFINE n == m.update
             old == updates[n]
             u == [items |-> old.items, refused |-> refused, errors |-> old.errors,
                   answers |-> old.answers]
             a == AnswerTo(m, refused)
  <2>1. n \in 1..Len(updates) /\ old.items = DOMAIN c
    BY <1>3, <1>12 DEF IsUpdate
  <2>2. UpdatesFit(updates) /\ UpdateFits(old)
    BY <2>1 DEF Shapes, UpdatesFit
  <2>3. UpdateFits(u) /\ u.items = old.items
    BY <1>3, <2>1, <2>2 DEF UpdateFits
  <2>4. [old EXCEPT !.refused = refused] = u
    <3>1. old = [items |-> old.items, refused |-> old.refused, errors |-> old.errors,
                 answers |-> old.answers]
      BY <2>2 DEF UpdateFits
    <3> HIDE DEF old
    <3> QED BY <3>1
  <2>5. updates' = [updates EXCEPT ![n] = [old EXCEPT !.refused = refused]]
    BY <1>1, <1>12
  <2>6. updates' = With(updates, n, u)
    BY <2>4, <2>5 DEF With
  <2> HIDE DEF u, old
  <2>7. UpdatesFit(updates') /\ Grown(updates, updates') /\ Len(updates') = Len(updates)
    BY <2>1, <2>2, <2>3, <2>6, UpdatesExcept DEF old
  <2>8. adapterQ' = Append(adapterQ, a)
    BY <1>1, <1>12
  <2>9. AdapterFits(a, updates')
    BY <2>1, <2>7 DEF AdapterFits, AnswerTo
  <2>10. AdapterQueue(adapterQ, updates') /\ ApiQueue(apiQ', updates')
    BY <1>2, <2>7, QueuesGrow DEF Shapes
  <2> HIDE DEF a
  <2>11. AdapterQueue(adapterQ', updates')
    BY <2>8, <2>9, <2>10, AdapterAppend
  <2>12. DeferredFits'
    BY <1>9, <2>7, QueuesGrow DEF Shapes, DeferredFits, SameEngine
  <2>13. HalFits'
    BY <1>1 DEF Shapes, HalFits
  <2>14. Shapes'
    BY <1>1, <1>7, <1>8, <1>9, <2>7, <2>10, <2>11, <2>12, <2>13 DEF Shapes
  <2>15. Replies
    BY <1>1, <2>1, <2>6, <2>8 DEF Replies, m, a, u, old
  <2> QED BY <1>10, <2>14, <2>15
<1> QED BY <1>11, <1>12

LEMMA LocApiThreadApplies ==
    ASSUME Shapes, LocApiThread
    PROVE  Shapes' /\ Applied /\ Replies
<1>1. CASE ApplyLock
  BY <1>1, OneApplied DEF ApplyLock
<1>2. CASE ApplyBlacklist
  BY <1>2, OneApplied DEF ApplyBlacklist
<1>3. CASE ApplyItems
  BY <1>3, ItemsApplied
<1> QED BY <1>1, <1>2, <1>3 DEF LocApiThread

-----------------------------------------------------------------------------
(* How an item ends up                                                      *)

LEMMA NoneWaits ==
    ASSUME NEW q, NEW i, NEW vals, ~Waits(q, i)
    PROVE  LastIn(q, i, vals)
BY DEF LastIn, Waits

LEMMA EndsSent ==
    ASSUME NEW q, IsSeq(q), NEW e, NEW fs, NEW i, NEW vals, NEW m, Carries(m, i), Carried(m, i) \in vals
    PROVE  Ends(Append(q, m), e, fs, i, vals)
BY AppendSays DEF Ends

LEMMA EndsOther ==
    ASSUME NEW q, IsSeq(q), NEW e, NEW fs, NEW i, NEW vals, NEW m, ~Carries(m, i), Ends(q, e, fs, i, vals)
    PROVE  Ends(Append(q, m), e, fs, i, vals)
BY AppendOther DEF Ends

LEMMA EndsFlags ==
    ASSUME NEW q, NEW e, NEW fs, NEW gs, NEW i, NEW vals, i \in fs <=> i \in gs, Ends(q, e, fs, i, vals)
    PROVE  Ends(q, e, gs, i, vals)
BY DEF Ends

LEMMA EndsApplied ==
    ASSUME Shapes, Applied, NEW i \in Items, NEW vals, Ends(apiQ, engine, flags, i, vals)
    PROVE  Ends(apiQ', engine', flags', i, vals)
<1> DEFINE m == Head(apiQ)
<1>1. /\ apiQ # <<>> /\ apiQ' = Tail(apiQ)
      /\ ~Carries(m, i) => engine'[i] = engine[i] /\ (i \in flags' <=> i \in flags)
      /\ Carries(m, i) => i \in flags' \/ engine'[i] = Carried(m, i)
  BY DEF Applied
<1>2. IsSeq(apiQ)
  BY DEF Shapes, ApiQueue
<1>3. /\ LastIn(apiQ', i, vals)
      /\ ~Waits(apiQ', i) /\ Carries(m, i) => Carried(m, i) \in vals
  BY <1>1, <1>2, TailSays DEF Ends
<1>4. Waits(apiQ, i) <=> Carries(m, i) \/ Waits(apiQ', i)
  BY <1>1, <1>2, TailWaits
<1> HIDE DEF m
<1> QED BY <1>1, <1>3, <1>4 DEF Ends

\* The news that the engine is up is handled, or another message is.
LEMMA SettledTaken ==
    ASSUME Shapes, adapterQ # <<>>, adapterQ' = Tail(adapterQ), adapter'.known = adapter.known,
           Head(adapterQ).kind # "engineUp"
    PROVE  Settled' => Settled
<1>1. IsSeq(adapterQ) /\ ~Bears(Head(adapterQ), -1)
  BY DEF Shapes, AdapterQueue, Bears
<1>2. Has(adapterQ, -1) <=> Has(adapterQ', -1)
  BY <1>1, TailHas
<1> QED BY <1>2 DEF Settled

\* A message of the adapter thread that says nothing of the control client is taken.
LEMMA ControlTaken ==
    ASSUME Shapes, ControlFits, adapterQ # <<>>, adapterQ' = Tail(adapterQ), hal' = hal,
           Head(adapterQ).kind # "enable", adapter'.control = adapter.control
    PROVE  ControlFits'
<1>1. IsSeq(adapterQ) /\ ~Carries(Head(adapterQ), "control")
  BY AdapterTail, OthersCarryNothing DEF Shapes, AdapterQueue
<1>2. LastIn(adapterQ', "control", {hal.enabled})
  BY <1>1, TailSays DEF ControlFits
<1>3. Waits(adapterQ, "control") <=> Waits(adapterQ', "control")
  BY <1>1, TailWaits
<1> QED BY <1>2, <1>3 DEF ControlFits

\* Nothing that is said of the version and the server changes.
LEMMA ItemsKept ==
    ASSUME Shapes, ItemsSettle, Settled' => Settled, NEW m, apiQ' = apiQ \/ apiQ' = Append(apiQ, m),
           \A i \in {"lock", "version", "server"} : ~Carries(m, i) /\ (i \in flags' <=> i \in flags),
           "late nfw" \in flags' <=> "late nfw" \in flags,
           engine' = engine, SameLock, SameSettings
    PROVE  ItemsSettle'
<1>1. ASSUME NEW i \in {"lock", "version", "server"}, Settled', i = "lock" => "late nfw" \notin flags'
      PROVE  Ends(apiQ', engine', flags', i, {Wanted(i)'})
  <2>1. Ends(apiQ, engine, flags, i, {Wanted(i)})
    BY <1>1 DEF ItemsSettle
  <2>2. Wanted(i)' = Wanted(i)
    BY <1>1 DEF Wanted, WantedLock, SameLock, SameSettings
  <2>3. IsSeq(apiQ)
    BY DEF Shapes, ApiQueue
  <2>4. Ends(apiQ', engine, flags, i, {Wanted(i)})
    BY <2>1, <2>3, EndsOther
  <2>5. Ends(apiQ', engine, flags', i, {Wanted(i)})
    BY <2>4, EndsFlags
  <2> QED BY <2>2, <2>5
<1> QED BY <1>1 DEF ItemsSettle

\* The lock is sent again, and the rest stays.
LEMMA LockSent ==
    ASSUME Shapes, ItemsSettle, Settled' => Settled, NEW lock, SendsLock(lock), engine' = engine,
           \A i \in {"version", "server"} : i \in flags' <=> i \in flags,
           "late nfw" \notin flags' => WantedLock' = lock
    PROVE  ItemsSettle'
<1> DEFINE m == SetLock(lock)
<1>1. IsSeq(apiQ) /\ apiQ' = Append(apiQ, m) /\ SameSettings
  BY DEF Shapes, ApiQueue, SendsLock
<1>2. \A i : (Carries(m, i) <=> i = "lock") /\ Carried(m, i) = lock
  BY LockCarries
<1> HIDE DEF m
<1>3. ASSUME NEW i \in {"version", "server"}, Settled'
      PROVE  Ends(apiQ', engine', flags', i, {Wanted(i)'})
  <2>1. Ends(apiQ, engine, flags, i, {Wanted(i)})
    BY <1>3 DEF ItemsSettle
  <2>2. Wanted(i)' = Wanted(i)
    BY <1>1 DEF Wanted, SameSettings
  <2>3. Ends(apiQ', engine, flags, i, {Wanted(i)})
    BY <1>1, <1>2, <2>1, EndsOther
  <2>4. Ends(apiQ', engine, flags', i, {Wanted(i)})
    BY <2>3, EndsFlags
  <2> QED BY <2>2, <2>4
<1>4. ASSUME "late nfw" \notin flags'
      PROVE  Ends(apiQ', engine', flags', "lock", {Wanted("lock")'})
  <2>1. Wanted("lock")' = lock
    BY <1>4 DEF Wanted
  <2>2. Carries(m, "lock") /\ Carried(m, "lock") \in {lock}
    BY <1>2
  <2>3. Ends(Append(apiQ, m), engine', flags', "lock", {lock})
    BY <1>1, <2>2, EndsSent
  <2> QED BY <1>1, <2>1, <2>3
<1> QED BY <1>3, <1>4 DEF ItemsSettle

\* Nothing that is said of the satellites changes.
LEMMA SatellitesKept ==
    ASSUME Shapes, ListSettles, BlacklistSettles, Settled' => Settled,
           NEW m, apiQ' = apiQ \/ apiQ' = Append(apiQ, m),
           ~Carries(m, "list") /\ ~Carries(m, "blacklist"),
           \A f \in {"blacklist", "overtaken"} : f \in flags' <=> f \in flags,
           engine' = engine, SameSatellites, asked' = asked
    PROVE  ListSettles' /\ BlacklistSettles'
<1>1. RightMasks' = RightMasks
  BY DEF RightMasks, Right, InForce, SameSatellites
<1>2. IsSeq(apiQ)
  BY DEF Shapes, ApiQueue
<1>3. ASSUME "overtaken" \notin flags'
      PROVE  /\ LastIn(apiQ', "list", {asked'})
             /\ ~Waits(apiQ', "list") => adapter'.masks = asked' /\ ToMasks(adapter'.list) = asked'
  <2>1. /\ LastIn(apiQ, "list", {asked})
        /\ ~Waits(apiQ, "list") => adapter.masks = asked /\ ToMasks(adapter.list) = asked
    BY <1>3 DEF ListSettles
  <2>2. LastIn(apiQ', "list", {asked}) /\ (Waits(apiQ', "list") <=> Waits(apiQ, "list"))
    BY <1>2, <2>1, AppendOther
  <2> QED BY <2>1, <2>2 DEF SameSatellites
<1>4. ASSUME Settled', "overtaken" \notin flags'
      PROVE  Ends(apiQ', engine', flags', "blacklist", RightMasks')
  <2>1. Ends(apiQ, engine, flags, "blacklist", RightMasks)
    BY <1>4 DEF BlacklistSettles
  <2>2. Ends(apiQ', engine, flags, "blacklist", RightMasks)
    BY <1>2, <2>1, EndsOther
  <2>3. Ends(apiQ', engine, flags', "blacklist", RightMasks)
    BY <2>2, EndsFlags
  <2> QED BY <1>1, <2>3
<1> QED BY <1>3, <1>4 DEF ListSettles, BlacklistSettles

\* Masks that are right: what was asked for, and that with the disabled constellations.
LEMMA AskedIsRight ==
    ASSUME asked \in Masks
    PROVE  asked \in RightMasks /\ WithAllOf(asked, InForce) \in RightMasks
<1>1. \A masks \in Masks : \A types :
          IsWithin(masks, masks) /\ IsWithin(masks, WithAllOf(masks, types))
  BY DEF IsWithin, WithAllOf, Masks
<1>2. \A masks \in Masks : IsWithin(masks, masks)
  BY <1>1
<1>3. WithAllOf(asked, InForce) \in Masks
  BY AllOfFits
<1> QED BY <1>1, <1>2, <1>3 DEF RightMasks, Right

LEMMA ListWaits ==
    ASSUME Shapes
    PROVE  Waits(apiQ, "list") <=> ListOnItsWay
<1>1. /\ apiQ \in Seq({apiQ[k] : k \in 1..Len(apiQ)})
      /\ \A k \in 1..Len(apiQ) : ApiFits(apiQ[k], updates)
  BY DEF Shapes, ApiQueue, IsSeq
<1>2. DOMAIN apiQ = 1..Len(apiQ)
  BY <1>1
<1>3. ASSUME NEW k \in 1..Len(apiQ)
      PROVE  Carries(apiQ[k], "list") <=>
                 apiQ[k].kind = "setItems" /\ "blacklist" \in DOMAIN apiQ[k].config
  <2>1. apiQ[k].kind = "setItems" => "list" \notin apiQ[k].needed
    <3>1. "list" \notin Items
      BY DEF Items
    <3> QED BY <1>1, <3>1 DEF ApiFits, IsConfig
  <2> QED BY <2>1 DEF Carries
<1> QED BY <1>2, <1>3 DEF Waits, ListOnItsWay

\* A list that was asked for is kept, and masks of it are sent.
LEMMA MasksSent ==
    ASSUME Shapes, NEW masks, masks \in RightMasks', apiQ' = Append(apiQ, SetBlacklist(masks)),
           "overtaken" \notin flags' =>
               /\ ~ListOnItsWay
               /\ adapter'.masks = asked' /\ ToMasks(adapter'.list) = asked'
    PROVE  ListSettles' /\ BlacklistSettles'
<1> DEFINE m == SetBlacklist(masks)
<1>1. IsSeq(apiQ) /\ apiQ' = Append(apiQ, m)
  BY DEF Shapes, ApiQueue
<1>2. Carries(m, "blacklist") /\ Carried(m, "blacklist") = masks /\ ~Carries(m, "list")
  BY BlacklistCarries
<1> HIDE DEF m
<1>3. Ends(apiQ', engine', flags', "blacklist", RightMasks')
  BY <1>1, <1>2, EndsSent
<1>4. ASSUME "overtaken" \notin flags'
      PROVE  LastIn(apiQ', "list", {asked'})
  <2>1. ~Waits(apiQ, "list")
    BY <1>4, ListWaits
  <2>2. ~Waits(apiQ', "list")
    BY <1>1, <1>2, <2>1, AppendOther
  <2> QED BY <2>2, NoneWaits
<1> QED BY <1>3, <1>4 DEF ListSettles, BlacklistSettles

-----------------------------------------------------------------------------
(* The settings are kept by every step                                      *)

LEMMA SettledCalled ==
    ASSUME Shapes, Called
    PROVE  Settled' => Settled
<1>1. PICK q : SendsConfig(q) /\ SendsMore(q)
  BY DEF Called
<1>2. IsSeq(adapterQ)
  BY DEF Shapes, AdapterQueue
<1>3. IsSeq(q) /\ (Has(adapterQ, -1) => Has(q, -1))
  <2>1. CASE q = adapterQ
    BY <1>2, <2>1
  <2>2. CASE \E c : q = Append(adapterQ, ConfigMessage(c, Len(updates) + 1))
    BY <1>2, <2>2, AppendHas, AppendIs
  <2> QED BY <1>1, <2>1, <2>2 DEF SendsConfig
<1>4. Has(q, -1) => Has(adapterQ', -1)
  BY <1>1, <1>3, AppendHas DEF SendsMore
<1> QED BY <1>3, <1>4 DEF Settled, Called

LEMMA CalledControl ==
    ASSUME Shapes, ControlFits, Called
    PROVE  ControlFits'
<1>1. PICK q : SendsConfig(q) /\ SendsMore(q)
  BY DEF Called
<1>2. IsSeq(adapterQ) /\ adapter' = adapter
  BY DEF Shapes, AdapterQueue, Called
<1>3. /\ LastIn(adapterQ, "control", {hal.enabled})
      /\ ~Waits(adapterQ, "control") => adapter.control = hal.enabled
  BY DEF ControlFits
<1>4. /\ IsSeq(q) /\ LastIn(q, "control", {hal.enabled})
      /\ Waits(q, "control") <=> Waits(adapterQ, "control")
  <2>1. CASE q = adapterQ
    BY <1>2, <1>3, <2>1
  <2>2. CASE \E c : q = Append(adapterQ, ConfigMessage(c, Len(updates) + 1))
    <3>0. PICK c : q = Append(adapterQ, ConfigMessage(c, Len(updates) + 1))
      BY <2>2
    <3> DEFINE m == ConfigMessage(c, Len(updates) + 1)
    <3>1. q = Append(adapterQ, m) /\ ~Carries(m, "control")
      BY <3>0, ConfigBears
    <3> HIDE DEF m
    <3> QED BY <1>2, <1>3, <3>1, AppendOther, AppendIs
  <2> QED BY <1>1, <2>1, <2>2 DEF SendsConfig
<1>5. CASE adapterQ' = q /\ hal'.enabled = hal.enabled
  BY <1>2, <1>3, <1>4, <1>5 DEF ControlFits
<1>6. CASE \E control \in BOOLEAN : adapterQ' = Append(q, Enable(control)) /\ hal'.enabled = control
  <2>1. PICK control \in BOOLEAN : adapterQ' = Append(q, Enable(control)) /\ hal'.enabled = control
    BY <1>6
  <2>2. Carries(Enable(control), "control") /\ Carried(Enable(control), "control") \in {hal'.enabled}
    BY <2>1, EnableCarries
  <2> QED BY <1>4, <2>1, <2>2, AppendSays DEF ControlFits
<1>7. CASE \E m : Plain(m) /\ adapterQ' = Append(q, m) /\ hal'.enabled = hal.enabled
  <2>1. PICK m : Plain(m) /\ adapterQ' = Append(q, m) /\ hal'.enabled = hal.enabled
    BY <1>7
  <2>2. ~Carries(m, "control")
    BY <2>1 DEF Plain, Carries
  <2>3. /\ LastIn(adapterQ', "control", {hal'.enabled})
        /\ Waits(adapterQ', "control") <=> Waits(q, "control")
    BY <1>4, <2>1, <2>2, AppendOther
  <2> QED BY <1>2, <1>3, <1>4, <2>1, <2>3 DEF ControlFits
<1> QED BY <1>1, <1>5, <1>6, <1>7 DEF SendsMore

\* Where neither the adapter nor the engine nor what is between them changes.
LEMMA SettingsStay ==
    ASSUME Inv, Settled' => Settled, UNCHANGED <<adapter, apiQ, engine, asked, flags>>
    PROVE  LockFits' /\ ItemsSettle' /\ ListSettles' /\ BlacklistSettles'
<1>1. LockFits'
  BY DEF Inv, LockFits
<1>2. ItemsSettle'
  <2>1. \A i : Wanted(i)' = Wanted(i)
    BY DEF Wanted, WantedLock
  <2> QED BY <2>1 DEF Inv, ItemsSettle
<1>3. RightMasks' = RightMasks
  BY DEF RightMasks, Right, InForce
<1> QED BY <1>1, <1>2, <1>3 DEF Inv, ListSettles, BlacklistSettles

LEMMA CallersKeep ==
    ASSUME Inv, Callers
    PROVE  Inv'
<1>1. Shapes' /\ Called
  BY CallersCall DEF Inv
<1>2. Settled' => Settled
  BY <1>1, SettledCalled DEF Inv
<1>3. ControlFits'
  BY <1>1, CalledControl DEF Inv
<1>4. LockFits' /\ ItemsSettle' /\ ListSettles' /\ BlacklistSettles'
  BY <1>1, <1>2, SettingsStay DEF Called
<1> QED BY <1>1, <1>3, <1>4 DEF Inv

LEMMA EngineUpKeeps ==
    ASSUME Inv, EngineUp
    PROVE  Inv'
<1> DEFINE m == [kind |-> "engineUp"]
<1>1. Shapes' /\ adapterQ' = Append(adapterQ, m) /\ UNCHANGED <<hal, adapter, apiQ, asked, updates, flags>>
  BY EngineUpDoes DEF Inv, EngineUpPosts
<1>2. IsSeq(adapterQ)
  BY DEF Inv, Shapes, AdapterQueue
<1>3. Bears(m, -1) /\ ~Carries(m, "control")
  BY DEF Bears, Carries
<1> HIDE DEF m
<1>4. ~Settled'
  BY <1>1, <1>2, <1>3, AppendHas DEF Settled
<1>5. ControlFits'
  BY <1>1, <1>2, <1>3, AppendOther DEF Inv, ControlFits
<1>6. LockFits' /\ ListSettles'
  BY <1>1 DEF Inv, LockFits, ListSettles
<1>7. ItemsSettle' /\ BlacklistSettles'
  BY <1>4 DEF ItemsSettle, BlacklistSettles
<1> QED BY <1>1, <1>5, <1>6, <1>7 DEF Inv

LEMMA DeferKeeps ==
    ASSUME Inv, Defer
    PROVE  Inv'
<1>1. /\ Shapes' /\ Takes /\ ~adapter.known /\ adapter'.known = adapter.known
      /\ Head(adapterQ).kind \in NeedsEngine
      /\ apiQ' = apiQ /\ asked' = asked /\ flags' = flags
      /\ SameSatellites /\ SameSettings /\ SameLock
  BY DeferDoes DEF Inv
<1>2. ~Settled'
  BY <1>1 DEF Settled
<1>3. ControlFits'
  BY <1>1, ControlTaken DEF Inv, Takes, NeedsEngine, SameLock
<1>4. LockFits' /\ ListSettles'
  BY <1>1 DEF Inv, LockFits, ListSettles, SameLock, SameSatellites
<1> QED BY <1>1, <1>2, <1>3, <1>4 DEF Inv, ItemsSettle, BlacklistSettles

LEMMA AnswerKeeps ==
    ASSUME Inv, HandleAnswer
    PROVE  Inv'
<1>1. /\ Shapes' /\ adapterQ # <<>> /\ adapterQ' = Tail(adapterQ)
      /\ Head(adapterQ).kind = "answer"
      /\ UNCHANGED <<hal, adapter, apiQ, engine, asked, flags>>
  BY AnswerDoes DEF Inv
<1>2. Settled' => Settled
  BY <1>1, SettledTaken DEF Inv
<1>3. ControlFits'
  BY <1>1, ControlTaken DEF Inv
<1> QED BY <1>1, <1>2, <1>3, SettingsStay DEF Inv

\* The control client's message is handled: the adapter's state is what it says.
LEMMA ControlHandled ==
    ASSUME Shapes, ControlFits, Takes, Head(adapterQ).kind = "enable",
           adapter'.control = Head(adapterQ).control
    PROVE  ControlFits'
<1> DEFINE m == Head(adapterQ)
<1>1. IsSeq(adapterQ) /\ adapterQ # <<>> /\ adapterQ' = Tail(adapterQ) /\ hal' = hal
  BY DEF Shapes, AdapterQueue, Takes
<1>2. Carries(m, "control") /\ Carried(m, "control") = m.control
  BY DEF Carries, Carried
<1>3. /\ LastIn(adapterQ', "control", {hal.enabled})
      /\ ~Waits(adapterQ', "control") => Carried(m, "control") \in {hal.enabled}
  BY <1>1, <1>2, TailSays DEF ControlFits
<1> HIDE DEF m
<1> QED BY <1>1, <1>2, <1>3 DEF ControlFits, m

\* The adapter sends a lock.
LEMMA LockKeeps ==
    ASSUME Inv, Shapes', Takes, NEW lock, SendsLock(lock), Head(adapterQ).kind # "engineUp",
           flags' \ {"late nfw"} = flags \ {"late nfw"}, "late nfw" \in flags => "late nfw" \in flags',
           "late nfw" \notin flags' => WantedLock' = lock
    PROVE  ItemsSettle' /\ ListSettles' /\ BlacklistSettles'
<1>1. Settled' => Settled
  BY SettledTaken DEF Inv, Takes, SendsLock, SameEngine
<1>2. ItemsSettle'
  <2>1. \A i \in {"version", "server"} : i \in flags' <=> i \in flags
    OBVIOUS
  <2> QED BY <1>1, <2>1, LockSent DEF Inv, Takes
<1>3. /\ apiQ' = Append(apiQ, SetLock(lock)) /\ SameSatellites /\ asked' = asked /\ engine' = engine
      /\ ~Carries(SetLock(lock), "list") /\ ~Carries(SetLock(lock), "blacklist")
  BY LockCarries DEF SendsLock, Takes
<1>4. \A f \in {"blacklist", "overtaken"} : f \in flags' <=> f \in flags
  OBVIOUS
<1>5. ListSettles' /\ BlacklistSettles'
  BY <1>1, <1>3, <1>4, SatellitesKept DEF Inv
<1> QED BY <1>2, <1>5

LEMMA EnableKeeps ==
    ASSUME Inv, HandleEnable
    PROVE  Inv'
<1>1. /\ Shapes' /\ Takes /\ flags' = flags
      /\ Head(adapterQ).kind = "enable" /\ Head(adapterQ).control = TRUE
      /\ \/ apiQ' = apiQ /\ adapter' = adapter /\ asked' = asked /\ adapter.control = TRUE
         \/ \E lock : /\ SendsLock(lock) /\ adapter'.control = TRUE
                      /\ lock = IF adapter.nfw THEN adapter.conf["lock"] \cap {"NI"} ELSE {}
                      /\ adapter'.conf["lock"] = IF adapter.nfw THEN lock ELSE adapter.conf["lock"]
  BY EnableDoes DEF Inv
<1>2. ControlFits'
  BY <1>1, ControlHandled DEF Inv
<1>3. CASE apiQ' = apiQ /\ adapter' = adapter /\ asked' = asked /\ adapter.control = TRUE
  <2>1. Settled' => Settled
    BY <1>1, <1>3, SettledTaken DEF Inv, Takes
  <2> QED BY <1>1, <1>2, <1>3, <2>1, SettingsStay DEF Inv, Takes
<1>4. ASSUME NEW lock, SendsLock(lock), adapter'.control = TRUE,
             lock = IF adapter.nfw THEN adapter.conf["lock"] \cap {"NI"} ELSE {},
             adapter'.conf["lock"] = IF adapter.nfw THEN lock ELSE adapter.conf["lock"]
      PROVE  Inv'
  <2>1. adapter'.nfw = adapter.nfw
    BY <1>4 DEF SendsLock
  <2>2. WantedLock' = lock
    BY <1>4, <2>1 DEF WantedLock
  <2>3. LockFits'
    BY <1>4, <2>1 DEF Inv, LockFits
  <2>4. ItemsSettle' /\ ListSettles' /\ BlacklistSettles'
    BY <1>1, <1>4, <2>2, LockKeeps
  <2> QED BY <1>1, <1>2, <2>3, <2>4 DEF Inv
<1> QED BY <1>1, <1>3, <1>4

LEMMA DisableKeeps ==
    ASSUME Inv, HandleDisable
    PROVE  Inv'
<1>1. /\ Shapes' /\ Takes /\ flags' = flags
      /\ Head(adapterQ).kind = "enable" /\ Head(adapterQ).control = FALSE
      /\ \E lock : /\ SendsLock(lock) /\ adapter'.control = FALSE
                   /\ lock = adapter.conf["lock"] \cup (IF adapter.nfw THEN {"MO"} ELSE {})
                   /\ adapter'.conf["lock"] = lock
  BY DisableDoes DEF Inv
<1>2. ControlFits'
  BY <1>1, ControlHandled DEF Inv
<1>3. PICK lock : /\ SendsLock(lock) /\ adapter'.control = FALSE
                  /\ lock = adapter.conf["lock"] \cup (IF adapter.nfw THEN {"MO"} ELSE {})
                  /\ adapter'.conf["lock"] = lock
  BY <1>1
<1>4. adapter'.nfw = adapter.nfw
  BY <1>3 DEF SendsLock
<1>5. WantedLock' = lock
  BY <1>3 DEF WantedLock
<1>6. LockFits'
  BY <1>3, <1>4 DEF Inv, LockFits
<1>7. ItemsSettle' /\ ListSettles' /\ BlacklistSettles'
  BY <1>1, <1>3, <1>5, LockKeeps
<1> QED BY <1>1, <1>2, <1>6, <1>7 DEF Inv

LEMMA NfwKeeps ==
    ASSUME Inv, HandleNfw
    PROVE  Inv'
<1>1. /\ Shapes' /\ Takes /\ Head(adapterQ).kind = "nfw"
      /\ flags' = flags \cup (IF adapter.nfw THEN {} ELSE {"late nfw"})
      /\ \E lock : /\ SendsLock(lock) /\ adapter'.control = adapter.control
                   /\ "MO" \in lock <=> "MO" \in adapter.conf["lock"]
                   /\ adapter'.conf["lock"] = lock
  BY NfwDoes DEF Inv
<1>2. PICK lock : /\ SendsLock(lock) /\ adapter'.control = adapter.control
                  /\ "MO" \in lock <=> "MO" \in adapter.conf["lock"]
                  /\ adapter'.conf["lock"] = lock
  BY <1>1
<1>3. ControlFits'
  BY <1>1, <1>2, ControlTaken DEF Inv, Takes
<1>4. adapter'.nfw = adapter.nfw
  BY <1>2 DEF SendsLock
<1>5. "late nfw" \notin flags' => WantedLock' = lock
  BY <1>1, <1>2, <1>4 DEF WantedLock
<1>6. LockFits'
  BY <1>2, <1>4 DEF Inv, LockFits
<1>7. flags' \ {"late nfw"} = flags \ {"late nfw"} /\ ("late nfw" \in flags => "late nfw" \in flags')
  BY <1>1
<1>8. ItemsSettle' /\ ListSettles' /\ BlacklistSettles'
  BY <1>1, <1>2, <1>5, <1>7, LockKeeps
<1> QED BY <1>1, <1>3, <1>6, <1>8 DEF Inv

\* A blacklist of other masks is sent, and no setting.
LEMMA MasksKeep ==
    ASSUME Inv, Shapes', Takes, NEW masks, apiQ' = Append(apiQ, SetBlacklist(masks)),
           Head(adapterQ).kind \notin {"enable", "engineUp"}, adapter'.known = adapter.known,
           KeepsSettings, flags' \ {"overtaken"} = flags \ {"overtaken"}
    PROVE  LockFits' /\ ControlFits' /\ ItemsSettle'
<1>1. Settled' => Settled
  BY SettledTaken DEF Inv, Takes
<1>2. ControlFits'
  BY ControlTaken DEF Inv, Takes, KeepsSettings, SameLock
<1>3. LockFits'
  BY DEF Inv, LockFits, KeepsSettings, SameLock
<1>4. \A i \in {"lock", "version", "server"} :
          ~Carries(SetBlacklist(masks), i) /\ (i \in flags' <=> i \in flags)
  BY BlacklistCarries
<1>5. "late nfw" \in flags' <=> "late nfw" \in flags
  OBVIOUS
<1>6. ItemsSettle'
  BY <1>1, <1>4, <1>5, ItemsKept DEF Inv, Takes, KeepsSettings
<1> QED BY <1>2, <1>3, <1>6

LEMMA SvTypesKeep ==
    ASSUME Inv, HandleSvTypes
    PROVE  Inv'
<1>1. PICK types :
        /\ Shapes' /\ Takes /\ Head(adapterQ).kind = "svTypes" /\ types # Unset
        /\ apiQ' = Append(apiQ, SetBlacklist(WithAllOf(adapter.masks, types)))
        /\ adapter'.svType = types /\ adapter'.masks = adapter.masks
        /\ adapter'.list = adapter.list /\ adapter'.known = adapter.known
        /\ KeepsSettings /\ Overtakes /\ asked' = asked
  BY SvTypesDoes DEF Inv
<1>2. flags' \ {"overtaken"} = flags \ {"overtaken"}
  BY <1>1 DEF Overtakes
<1>3. LockFits' /\ ControlFits' /\ ItemsSettle'
  BY <1>1, <1>2, MasksKeep
<1>4. InForce' = types
  BY <1>1 DEF InForce
<1>5. asked' \in RightMasks' /\ WithAllOf(asked', InForce') \in RightMasks'
  <2>1. asked' \in Masks
    BY <1>1 DEF Shapes
  <2>2. (asked \in Masks)' => (asked \in RightMasks /\ WithAllOf(asked, InForce) \in RightMasks)'
    BY AskedIsRight, PTL
  <2> QED BY <2>1, <2>2
<1>6. "overtaken" \notin flags' =>
          ~ListOnItsWay /\ adapter.masks = asked /\ ToMasks(adapter.list) = asked
  BY <1>1, ListWaits DEF Overtakes, Inv, ListSettles
<1>7. ASSUME "overtaken" \notin flags' PROVE ListSettles' /\ BlacklistSettles'
  BY <1>1, <1>4, <1>5, <1>6, <1>7, MasksSent DEF Inv
<1>8. ListSettles' /\ BlacklistSettles'
  BY <1>7 DEF ListSettles, BlacklistSettles
<1> QED BY <1>1, <1>3, <1>8 DEF Inv

LEMMA ResetKeeps ==
    ASSUME Inv, HandleReset
    PROVE  Inv'
<1>1. /\ Shapes' /\ Takes /\ Head(adapterQ).kind = "reset"
      /\ apiQ' = Append(apiQ, SetBlacklist(adapter.masks))
      /\ adapter'.svType = {} /\ adapter'.masks = adapter.masks
      /\ adapter'.list = adapter.list /\ adapter'.known = adapter.known
      /\ KeepsSettings /\ Overtakes /\ asked' = asked
  BY ResetDoes DEF Inv
<1>2. flags' \ {"overtaken"} = flags \ {"overtaken"}
  BY <1>1 DEF Overtakes
<1>3. LockFits' /\ ControlFits' /\ ItemsSettle'
  BY <1>1, <1>2, MasksKeep
<1>5. asked' \in RightMasks'
  <2>1. asked' \in Masks
    BY <1>1 DEF Shapes
  <2>2. (asked \in Masks)' => (asked \in RightMasks /\ WithAllOf(asked, InForce) \in RightMasks)'
    BY AskedIsRight, PTL
  <2> QED BY <2>1, <2>2
<1>6. "overtaken" \notin flags' =>
          ~ListOnItsWay /\ adapter.masks = asked /\ ToMasks(adapter.list) = asked
  BY <1>1, ListWaits DEF Overtakes, Inv, ListSettles
<1>7. ASSUME "overtaken" \notin flags' PROVE ListSettles' /\ BlacklistSettles'
  BY <1>1, <1>5, <1>6, <1>7, MasksSent DEF Inv
<1>8. ListSettles' /\ BlacklistSettles'
  BY <1>7 DEF ListSettles, BlacklistSettles
<1> QED BY <1>1, <1>3, <1>8 DEF Inv

LEMMA SvConfigKeeps ==
    ASSUME Inv, HandleSvConfig
    PROVE  Inv'
<1>1. PICK masks \in Masks :
        /\ Shapes' /\ Takes /\ Head(adapterQ).kind = "svConfig"
        /\ apiQ' = Append(apiQ, SetBlacklist(masks))
        /\ adapter'.masks = masks /\ ToMasks(adapter'.list) = masks
        /\ adapter'.known = adapter.known /\ KeepsSettings /\ asked' = masks
        /\ flags' = (flags \ {"overtaken"}) \cup (IF ListOnItsWay THEN {"overtaken"} ELSE {})
  BY SvConfigDoes DEF Inv
<1>2. flags' \ {"overtaken"} = flags \ {"overtaken"}
  BY <1>1
<1>3. LockFits' /\ ControlFits' /\ ItemsSettle'
  BY <1>1, <1>2, MasksKeep
<1>5. asked' \in RightMasks'
  <2>1. asked' \in Masks
    BY <1>1 DEF Shapes
  <2>2. (asked \in Masks)' => (asked \in RightMasks /\ WithAllOf(asked, InForce) \in RightMasks)'
    BY AskedIsRight, PTL
  <2> QED BY <2>1, <2>2
<1>6. "overtaken" \notin flags' => ~ListOnItsWay
  BY <1>1
<1>7. ASSUME "overtaken" \notin flags' PROVE ListSettles' /\ BlacklistSettles'
  BY <1>1, <1>5, <1>6, <1>7, MasksSent DEF Inv
<1>8. ListSettles' /\ BlacklistSettles'
  BY <1>7 DEF ListSettles, BlacklistSettles
<1> QED BY <1>1, <1>3, <1>8 DEF Inv

\* What the LocApi thread does at the engine.
LEMMA AppliedKeeps ==
    ASSUME Inv, LocApiThread
    PROVE  Inv'
<1> DEFINE m == Head(apiQ)
<1>1. Shapes' /\ Applied /\ Replies
  BY LocApiThreadApplies DEF Inv
<1>2. /\ apiQ # <<>> /\ apiQ' = Tail(apiQ) /\ hal' = hal /\ asked' = asked
      /\ \A f \in {"late nfw", "overtaken"} : f \in flags' <=> f \in flags
      /\ SameLock /\ SameSettings /\ SameEngine /\ adapter'.svType = adapter.svType
      /\ Carries(m, "list") =>
            adapter'.masks = Carried(m, "list") /\ ToMasks(adapter'.list) = Carried(m, "list")
      /\ ~Carries(m, "list") => adapter'.masks = adapter.masks /\ adapter'.list = adapter.list
  BY <1>1 DEF Applied
<1>3. IsSeq(adapterQ) /\ IsSeq(apiQ)
  BY DEF Inv, Shapes, AdapterQueue, ApiQueue
<1>4. /\ LastIn(adapterQ', "control", {hal.enabled})
      /\ Waits(adapterQ', "control") <=> Waits(adapterQ, "control")
      /\ Has(adapterQ', -1) <=> Has(adapterQ, -1)
  <2>1. LastIn(adapterQ, "control", {hal.enabled})
    BY DEF Inv, ControlFits
  <2>2. CASE adapterQ' = adapterQ
    BY <2>1, <2>2
  <2>3. CASE \E refused : adapterQ' = Append(adapterQ, AnswerTo(m, refused))
    <3>1. PICK refused : adapterQ' = Append(adapterQ, AnswerTo(m, refused))
      BY <2>3
    <3> DEFINE a == AnswerTo(m, refused)
    <3>2. ~Carries(a, "control") /\ ~Bears(a, -1)
      BY DEF Carries, Bears, AnswerTo
    <3> HIDE DEF a
    <3>3. adapterQ' = Append(adapterQ, a)
      BY <3>1 DEF a
    <3> QED BY <1>3, <2>1, <3>2, <3>3, AppendOther, AppendHas
  <2> QED BY <1>1, <2>2, <2>3 DEF Replies
<1>5. ControlFits'
  BY <1>2, <1>4 DEF Inv, ControlFits, SameLock
<1>6. LockFits'
  BY <1>2 DEF Inv, LockFits, SameLock
<1>7. Settled' <=> Settled
  BY <1>2, <1>4 DEF Settled, SameEngine
<1>8. ItemsSettle'
  <2>1. ASSUME NEW i \in {"lock", "version", "server"}, Settled', i = "lock" => "late nfw" \notin flags'
        PROVE  Ends(apiQ', engine', flags', i, {Wanted(i)'})
    <3>1. Ends(apiQ, engine, flags, i, {Wanted(i)})
      BY <1>2, <1>7, <2>1 DEF Inv, ItemsSettle
    <3>2. Wanted(i)' = Wanted(i)
      BY <1>2, <2>1 DEF Wanted, WantedLock, SameLock, SameSettings
    <3>3. i \in Items
      BY DEF Items
    <3>4. Ends(apiQ', engine', flags', i, {Wanted(i)})
      BY <1>1, <3>1, <3>3, EndsApplied DEF Inv
    <3> QED BY <3>2, <3>4
  <2> QED BY <2>1 DEF ItemsSettle
<1>9. RightMasks' = RightMasks
  BY <1>2 DEF RightMasks, Right, InForce
<1>10. BlacklistSettles'
  <2>1. ASSUME Settled', "overtaken" \notin flags'
        PROVE  Ends(apiQ', engine', flags', "blacklist", RightMasks)
    <3>1. Ends(apiQ, engine, flags, "blacklist", RightMasks)
      BY <1>2, <1>7, <2>1 DEF Inv, BlacklistSettles
    <3>2. "blacklist" \in Items
      BY DEF Items
    <3> QED BY <1>1, <3>1, <3>2, EndsApplied DEF Inv
  <2> QED BY <1>9, <2>1 DEF BlacklistSettles
<1>11. ListSettles'
  <2>1. ASSUME "overtaken" \notin flags'
        PROVE  /\ LastIn(apiQ', "list", {asked})
               /\ ~Waits(apiQ', "list") => adapter'.masks = asked /\ ToMasks(adapter'.list) = asked
    <3>1. /\ LastIn(apiQ, "list", {asked})
          /\ ~Waits(apiQ, "list") => adapter.masks = asked /\ ToMasks(adapter.list) = asked
      BY <1>2, <2>1 DEF Inv, ListSettles
    <3>2. /\ LastIn(apiQ', "list", {asked})
          /\ ~Waits(apiQ', "list") /\ Carries(m, "list") => Carried(m, "list") \in {asked}
      BY <1>2, <1>3, <3>1, TailSays
    <3>3. Waits(apiQ, "list") <=> Carries(m, "list") \/ Waits(apiQ', "list")
      BY <1>2, <1>3, TailWaits
    <3> HIDE DEF m
    <3> QED BY <1>2, <3>1, <3>2, <3>3
  <2> QED BY <1>2, <2>1 DEF ListSettles
<1> QED BY <1>1, <1>5, <1>6, <1>8, <1>10, <1>11 DEF Inv

LEMMA ConfigKeeps ==
    ASSUME Inv, HandleConfig
    PROVE  Inv'
<1> DEFINE m == Head(adapterQ)
           c == m.config
           needed == DOMAIN c \ NotNeeded(c)
           M == SetItems(Requested(c), needed, m.update)
<1>1. /\ Shapes' /\ Takes /\ m.kind = "config" /\ AdapterFits(m, updates)
      /\ apiQ' = Append(apiQ, M)
      /\ SameSatellites /\ SameEngine /\ adapter.known
      /\ adapter'.control = adapter.control
      /\ adapter'.conf["lock"] = (IF "lock" \in DOMAIN c THEN c["lock"] \cup {"MO"}
                                  ELSE adapter.conf["lock"])
      /\ \A i \in {"version", "server"} :
             adapter'.conf[i] = IF i \in DOMAIN c THEN c[i] ELSE adapter.conf[i]
      /\ adapter'.nfw = (IF "lock" \in DOMAIN c THEN FALSE ELSE adapter.nfw)
      /\ "blacklist" \in DOMAIN c =>
             asked' = ToMasks(c["blacklist"]) /\ flags' = flags \ {"overtaken"}
      /\ "blacklist" \notin DOMAIN c => asked' = asked /\ flags' = flags
  BY ConfigDoes DEF Inv
<1>2. IsConfig(c)
  BY <1>1 DEF AdapterFits
<1>3. Settled' => Settled
  BY <1>1, SettledTaken DEF Inv, Takes, SameEngine
<1>4. ControlFits'
  BY <1>1, ControlTaken DEF Inv, Takes
<1>5. LockFits'
  BY <1>1 DEF Inv, LockFits
<1>6. IsSeq(apiQ)
  BY DEF Inv, Shapes, ApiQueue
<1>7. /\ DOMAIN Requested(c) = DOMAIN c
      /\ \A i \in DOMAIN c : Requested(c)[i] = IF i = "lock" THEN LockOf(c) ELSE c[i]
  BY DEF Requested
<1>8. /\ \A i \in {"version", "server", "blacklist"} : i \in needed <=> i \in DOMAIN c
      /\ "lock" \in needed <=> "lock" \in DOMAIN c /\ ~(adapter.control /\ ~adapter.nfw)
      /\ "list" \notin needed
  BY <1>2 DEF NotNeeded, IsConfig, Items
<1>9. /\ \A i \in Items : Carries(M, i) <=> i \in needed
      /\ Carries(M, "list") <=> "blacklist" \in DOMAIN c
  <2>1. "list" \notin Items
    BY DEF Items
  <2> HIDE DEF needed, c, m
  <2> QED BY <1>7, <1>8, <2>1, ItemsCarry
<1>10. /\ \A i \in {"blacklist", "list"} : Carried(M, i) = ToMasks(Requested(c)["blacklist"])
       /\ \A i \in {"lock", "version", "server"} : Carried(M, i) = Requested(c)[i]
  <2> HIDE DEF needed, c, m
  <2> QED BY ItemsCarry
<1>14. hal' = hal /\ engine' = engine
  BY <1>1 DEF Takes
<1> HIDE DEF M, needed, c, m
<1>11. ItemsSettle'
  <2>1. ASSUME NEW i \in {"lock", "version", "server"}, Settled', i = "lock" => "late nfw" \notin flags'
        PROVE  Ends(apiQ', engine', flags', i, {Wanted(i)'})
    <3>0. i \in Items /\ (i = "lock" => "late nfw" \notin flags) /\ (i \in flags' <=> i \in flags)
      BY <1>1, <2>1 DEF Items
    <3>1. Ends(apiQ, engine, flags, i, {Wanted(i)})
      BY <1>3, <2>1, <3>0 DEF Inv, ItemsSettle
    <3>2. ASSUME i \in needed PROVE Carries(M, i) /\ Carried(M, i) \in {Wanted(i)'}
      <4>1. CASE i \in {"version", "server"}
        BY <1>1, <1>7, <1>8, <1>9, <1>10, <3>0, <3>2, <4>1 DEF Wanted
      <4>2. CASE i = "lock"
        <5>1. Wanted(i)' = LockOf(c)
          BY <1>1, <1>8, <3>2, <4>2 DEF Wanted, WantedLock, LockOf
        <5> QED BY <1>7, <1>8, <1>9, <1>10, <3>0, <3>2, <4>2, <5>1
      <4> QED BY <4>1, <4>2
    <3>3. ASSUME i \notin needed PROVE ~Carries(M, i) /\ Wanted(i)' = Wanted(i)
      <4>1. CASE i \in {"version", "server"}
        BY <1>1, <1>8, <1>9, <3>0, <3>3, <4>1 DEF Wanted
      <4>2. CASE i = "lock"
        BY <1>1, <1>8, <1>9, <3>0, <3>3, <4>2 DEF Wanted, WantedLock
      <4> QED BY <4>1, <4>2
    <3>4. CASE i \in needed
      BY <1>1, <1>6, <3>2, <3>4, EndsSent
    <3>5. CASE i \notin needed
      <4>1. Ends(apiQ', engine, flags, i, {Wanted(i)})
        BY <1>1, <1>6, <3>1, <3>3, <3>5, EndsOther
      <4>2. Ends(apiQ', engine, flags', i, {Wanted(i)})
        BY <3>0, <4>1, EndsFlags
      <4> QED BY <1>14, <3>3, <3>5, <4>2
    <3> QED BY <3>4, <3>5
  <2> QED BY <2>1 DEF ItemsSettle
<1>12. ASSUME "blacklist" \in DOMAIN c PROVE ListSettles' /\ BlacklistSettles'
  <2>1. asked' \in RightMasks'
    <3>1. (asked \in Masks)' => (asked \in RightMasks /\ WithAllOf(asked, InForce) \in RightMasks)'
      BY AskedIsRight, PTL
    <3> QED BY <1>1, <3>1 DEF Shapes
  <2>2. "blacklist" \in Items /\ Carries(M, "blacklist") /\ Carries(M, "list")
    BY <1>8, <1>9, <1>12 DEF Items
  <2>3. Carried(M, "blacklist") = asked' /\ Carried(M, "list") = asked'
    BY <1>1, <1>7, <1>10, <1>12
  <2>4. Ends(apiQ', engine', flags', "blacklist", RightMasks')
    BY <1>1, <1>6, <2>1, <2>2, <2>3, EndsSent
  <2>5. LastIn(apiQ', "list", {asked'}) /\ Waits(apiQ', "list")
    BY <1>1, <1>6, <2>2, <2>3, AppendSays
  <2> QED BY <2>4, <2>5 DEF ListSettles, BlacklistSettles
<1>13. ASSUME "blacklist" \notin DOMAIN c PROVE ListSettles' /\ BlacklistSettles'
  <2>1. ~Carries(M, "blacklist") /\ ~Carries(M, "list")
    BY <1>8, <1>9, <1>13 DEF Items
  <2>2. asked' = asked /\ flags' = flags
    BY <1>1, <1>13
  <2> QED BY <1>1, <1>3, <1>14, <2>1, <2>2, SatellitesKept DEF Inv
<1> QED BY <1>1, <1>4, <1>5, <1>11, <1>12, <1>13 DEF Inv

LEMMA EngineUpHandledKeeps ==
    ASSUME Inv, NEW torn \in BOOLEAN, HandleEngineUp(torn)
    PROVE  Inv'
<1> DEFINE A == SetItems(Restored, DOMAIN Restored, 0)
           B == SetBlacklist(Read(torn))
           C == SetBlacklist(WithAllOf(Read(torn), adapter.svType))
           p == Append(apiQ, A)
           r == Append(p, B)
<1>1. /\ Shapes' /\ Head(adapterQ).kind = "engineUp" /\ adapterQ # <<>>
      /\ adapterQ' = Tail(adapterQ) \o adapter.deferred
      /\ hal' = hal /\ engine' = engine /\ updates' = updates /\ asked' = asked
      /\ adapter'.known = TRUE /\ adapter'.deferred = adapter.deferred
      /\ SameSatellites /\ SameSettings /\ SameLock
      /\ adapter.svType = Unset => apiQ' = r
      /\ adapter.svType # Unset => apiQ' = Append(r, C)
      /\ flags' = flags \cup (IF ListOnItsWay \/ torn THEN {"overtaken"} ELSE {})
  BY EngineUpHandled DEF Inv, SentUp
<1>2. /\ IsConfig(Restored) /\ DOMAIN Restored = {"lock", "version", "server", "blacklist"}
      /\ Restored["lock"] = WantedLock /\ Restored["blacklist"] = adapter.list
      /\ \A i \in {"version", "server"} : Restored[i] = adapter.conf[i]
  BY RestoredFits DEF Inv
<1>3. IsSeq(adapterQ) /\ IsSeq(apiQ) /\ IsSeq(adapter.deferred)
  BY DEF Inv, Shapes, AdapterQueue, ApiQueue, DeferredFits
<1>4. /\ \A i \in {"lock", "version", "server", "blacklist", "list"} : Carries(A, i)
      /\ Carried(A, "list") = ToMasks(adapter.list)
      /\ \A i \in {"lock", "version", "server"} : Carried(A, i) = Wanted(i)
  BY <1>2, ItemsCarry DEF Wanted
<1>5. /\ \A i \in {"lock", "version", "server", "list"} : ~Carries(B, i) /\ ~Carries(C, i)
      /\ Carries(B, "blacklist") /\ Carries(C, "blacklist")
      /\ Carried(B, "blacklist") = Read(torn)
      /\ Carried(C, "blacklist") = WithAllOf(Read(torn), adapter.svType)
  BY BlacklistCarries
<1> HIDE DEF A, B, C
<1>6. IsSeq(p) /\ IsSeq(r)
  BY <1>3, AppendIs
<1> HIDE DEF p, r
<1>7. ControlFits'
  <2>1. LastIn(adapterQ, "control", {hal.enabled}) /\ ~Carries(Head(adapterQ), "control")
    BY <1>1 DEF Inv, ControlFits, Carries
  <2>2. /\ LastIn(Tail(adapterQ), "control", {hal.enabled})
        /\ Waits(adapterQ, "control") <=> Waits(Tail(adapterQ), "control")
        /\ IsSeq(Tail(adapterQ))
    BY <1>1, <1>3, <2>1, TailSays, TailWaits, TailIs
  <2>3. \A k \in 1..Len(adapter.deferred) : ~Carries(adapter.deferred[k], "control")
    BY DEF Inv, Shapes, DeferredFits, NeedsEngine, Carries
  <2>4. /\ LastIn(adapterQ', "control", {hal.enabled})
        /\ Waits(adapterQ', "control") <=> Waits(Tail(adapterQ), "control")
    BY <1>1, <1>3, <2>2, <2>3, ConcatOther
  <2> QED BY <1>1, <2>2, <2>4 DEF Inv, ControlFits, SameLock
<1>8. LockFits'
  BY <1>1 DEF Inv, LockFits, SameLock
<1>9. ItemsSettle'
  <2>1. ASSUME NEW i \in {"lock", "version", "server"}
        PROVE  Ends(apiQ', engine', flags', i, {Wanted(i)'})
    <3>1. Wanted(i)' = Wanted(i)
      BY <1>1 DEF Wanted, WantedLock, SameLock, SameSettings
    <3>2. Ends(p, engine', flags', i, {Wanted(i)})
      BY <1>3, <1>4, EndsSent DEF p
    <3>3. Ends(r, engine', flags', i, {Wanted(i)})
      BY <1>5, <1>6, <3>2, EndsOther DEF r
    <3>4. Ends(Append(r, C), engine', flags', i, {Wanted(i)})
      BY <1>5, <1>6, <3>3, EndsOther
    <3> QED BY <1>1, <3>1, <3>3, <3>4
  <2> QED BY <2>1 DEF ItemsSettle
<1>10. ASSUME "overtaken" \notin flags'
       PROVE  /\ LastIn(apiQ', "list", {asked'})
              /\ adapter'.masks = asked' /\ ToMasks(adapter'.list) = asked'
              /\ Ends(apiQ', engine', flags', "blacklist", RightMasks')
  <2>1. "overtaken" \notin flags /\ ~ListOnItsWay /\ ~torn
    BY <1>1, <1>10
  <2>2. adapter.masks = asked /\ ToMasks(adapter.list) = asked
    BY <2>1, ListWaits DEF Inv, ListSettles
  <2>3. Read(torn) = asked
    BY <2>1, <2>2 DEF Read
  <2>4. LastIn(p, "list", {asked})
    BY <1>3, <1>4, <2>2, AppendSays DEF p
  <2>5. LastIn(r, "list", {asked})
    BY <1>5, <1>6, <2>4, AppendOther DEF r
  <2>6. LastIn(Append(r, C), "list", {asked})
    BY <1>5, <1>6, <2>5, AppendOther
  <2>7. RightMasks' = RightMasks
    BY <1>1 DEF RightMasks, Right, InForce, SameSatellites
  <2>8. asked \in RightMasks /\ WithAllOf(asked, InForce) \in RightMasks
    BY AskedIsRight DEF Inv, Shapes
  <2>9. Ends(r, engine', flags', "blacklist", RightMasks)
    BY <1>5, <1>6, <2>3, <2>8, EndsSent DEF r
  <2>10. adapter.svType # Unset => Ends(Append(r, C), engine', flags', "blacklist", RightMasks)
    <3>1. adapter.svType # Unset => Carried(C, "blacklist") \in RightMasks
      BY <1>5, <2>3, <2>8 DEF InForce
    <3> QED BY <1>5, <1>6, <3>1, EndsSent
  <2> QED BY <1>1, <2>2, <2>5, <2>6, <2>7, <2>9, <2>10 DEF SameSatellites
<1>11. ListSettles' /\ BlacklistSettles'
  BY <1>10 DEF ListSettles, BlacklistSettles
<1> QED BY <1>1, <1>7, <1>8, <1>9, <1>11 DEF Inv

-----------------------------------------------------------------------------
(* The invariant                                                            *)

LEMMA EmptyQueue ==
    /\ IsSeq(<<>>) /\ \A i, vals : LastIn(<<>>, i, vals) /\ ~Waits(<<>>, i)
    /\ \A n : ~Has(<<>>, n) /\ HasOnce(<<>>, n)
<1>1. Len(<<>>) = 0 /\ IsSeq(<<>>)
  BY EmptyIs
<1>2. \A k \in 1..Len(<<>>) : FALSE
  BY <1>1
<1> QED BY <1>1, <1>2 DEF LastIn, Waits, Has, HasOnce

LEMMA InitFits ==
    ASSUME Init
    PROVE  Shapes
<1>1. IsSeq(<<>>) /\ \A k \in 1..Len(<<>>) : FALSE
  BY EmptyIs
<1>2. \A us : AdapterQueue(<<>>, us) /\ ApiQueue(<<>>, us) /\ UpdatesFit(<<>>)
  BY <1>1 DEF AdapterQueue, ApiQueue, UpdatesFit
<1>3. HalFits
  BY NoConfigFits DEF Init, HalFits
<1>4. AdapterShape
  BY NoMasksFit DEF Init, AdapterShape, Lists
<1>5. adapter.deferred = <<>>
  BY DEF Init
<1>6. DeferredFits
  BY <1>1, <1>2, <1>5 DEF DeferredFits
<1>7. EngineFits
  <2>1. engine = [lock |-> {}, version |-> 0, server |-> NoServer, blacklist |-> NoMasks, extension |-> 0]
    BY DEF Init, FreshEngine
  <2> QED BY <2>1, NoMasksFit DEF EngineFits, Items
<1> QED BY <1>2, <1>3, <1>4, <1>6, <1>7, NoMasksFit DEF Init, Shapes

LEMMA InitInv ==
    ASSUME Init
    PROVE  Inv
<1>1. Shapes
  BY InitFits
<1>2. /\ ~hal.enabled /\ hal.enabled = FALSE /\ adapter.control = FALSE /\ ~adapter.known
      /\ adapter.conf["lock"] = {"MO", "NI"} /\ adapter.masks = NoMasks /\ adapter.list = {}
      /\ adapterQ = <<>> /\ apiQ = <<>> /\ asked = NoMasks
  BY DEF Init
<1>3. LockFits /\ ControlFits
  BY <1>2, EmptyQueue DEF LockFits, ControlFits
<1>4. ~Settled
  BY <1>2 DEF Settled
<1>5. ToMasks({}) = NoMasks
  BY DEF ToMasks, NoMasks
<1>6. ListSettles
  BY <1>2, <1>5, EmptyQueue DEF ListSettles
<1> QED BY <1>1, <1>3, <1>4, <1>6 DEF Inv, ItemsSettle, BlacklistSettles

LEMMA StutterKeeps ==
    ASSUME Inv, UNCHANGED vars
    PROVE  Inv'
<1>1. UNCHANGED <<hal, adapter, adapterQ, apiQ, engine, asked, updates, flags>>
  BY DEF vars
<1>2. Shapes'
  BY <1>1 DEF Inv, Shapes, HalFits, DeferredFits, AdapterShape, EngineFits
<1>3. ControlFits' /\ (Settled' => Settled)
  BY <1>1 DEF Inv, ControlFits, Settled
<1> QED BY <1>1, <1>2, <1>3, SettingsStay DEF Inv

LEMMA NextInv ==
    ASSUME Inv, [Next]_vars
    PROVE  Inv'
<1>1. CASE Callers
  BY <1>1, CallersKeep
<1>2. CASE EngineUp
  BY <1>2, EngineUpKeeps
<1>3. CASE AdapterThread
  BY <1>3, DeferKeeps, EnableKeeps, DisableKeeps, NfwKeeps, ConfigKeeps, SvTypesKeep, ResetKeeps,
     SvConfigKeeps, EngineUpHandledKeeps, AnswerKeeps DEF AdapterThread
<1>4. CASE LocApiThread
  BY <1>4, AppliedKeeps
<1>5. CASE Done \/ UNCHANGED vars
  BY <1>5, StutterKeeps DEF Done
<1> QED BY <1>1, <1>2, <1>3, <1>4, <1>5 DEF Next

LEMMA ConfigInvariant == Spec => []Inv
<1>1. Init => Inv
  BY InitInv
<1>2. Inv /\ [Next]_vars => Inv'
  BY NextInv
<1> QED BY <1>1, <1>2, PTL DEF Spec

LEMMA RestEnds ==
    ASSUME Inv, Rest
    PROVE  /\ Settled /\ adapter.control = hal.enabled
           /\ \A i \in {"version", "server"} : engine[i] = adapter.conf[i] \/ i \in flags
           /\ "late nfw" \notin flags => engine["lock"] = WantedLock \/ "lock" \in flags
           /\ "overtaken" \notin flags => engine["blacklist"] \in RightMasks \/ "blacklist" \in flags
<1>1. adapterQ = <<>> /\ apiQ = <<>> /\ adapter.known
  BY DEF Rest
<1>2. Settled /\ adapter.control = hal.enabled
  BY <1>1, EmptyQueue DEF Inv, Settled, ControlFits
<1>3. \A e, fs, i, vals : Ends(apiQ, e, fs, i, vals) => e[i] \in vals \/ i \in fs
  BY <1>1, EmptyQueue DEF Ends
<1>4. ASSUME NEW i \in {"lock", "version", "server"}, i = "lock" => "late nfw" \notin flags
      PROVE  engine[i] = Wanted(i) \/ i \in flags
  <2>1. Ends(apiQ, engine, flags, i, {Wanted(i)})
    BY <1>2, <1>4 DEF Inv, ItemsSettle
  <2> QED BY <1>3, <2>1
<1>5. "overtaken" \notin flags => engine["blacklist"] \in RightMasks \/ "blacklist" \in flags
  BY <1>2, <1>3 DEF Inv, BlacklistSettles
<1> QED BY <1>2, <1>4, <1>5 DEF Wanted

\* At rest the engine is locked as the framework and its callbacks want it: as the lock
\* that the adapter keeps says while that is a state, only while location is off once it
\* is a mask, and for the phone exactly while location is off; however the callbacks,
\* configurations, restarts of the engine and refusals came (GnssAdapter.cpp:903-921,
\* 1314-1345).
THEOREM ConfigLockServed == Spec => []LockServed
<1>1. ASSUME Inv PROVE LockServed
  <2>1. ASSUME Rest, flags \cap {"lock", "late nfw"} = {}
        PROVE  LockIsKept /\ LocationOffIsLocked
    <3>1. adapter.control = hal.enabled /\ engine["lock"] = WantedLock
      BY <1>1, <2>1, RestEnds
    <3>2. "MO" \in adapter.conf["lock"] <=> ~adapter.nfw \/ ~adapter.control
      BY <1>1 DEF Inv, LockFits
    <3>3. LockIsKept
      BY <3>1 DEF LockIsKept, WantedLock
    <3>4. LocationOffIsLocked
      BY <3>1, <3>2 DEF LocationOffIsLocked, WantedLock
    <3> QED BY <3>3, <3>4
  <2> QED BY <2>1 DEF LockServed
<1> QED BY <1>1, ConfigInvariant, PTL

\* At rest the engine has the SUPL version and server that were configured last, and avoids
\* the satellites that were asked for last and none but those of a disabled constellation,
\* also after restarts, when all it gets is what the adapter kept, the satellites as a list
\* made of the masks and turned into masks again (GnssAdapter.cpp:1035-1041, 1781-1814,
\* 2600-2633).
THEOREM ConfigSettingsServed == Spec => []SettingsServed
<1>1. ASSUME Inv PROVE SettingsServed
  <2>1. AgpsServed
    BY <1>1, RestEnds DEF AgpsServed
  <2>2. BlacklistServed
    <3>1. ASSUME Rest, flags \cap {"blacklist", "overtaken"} = {}
          PROVE  engine["blacklist"] \in RightMasks
      BY <1>1, <3>1, RestEnds
    <3> QED BY <3>1 DEF BlacklistServed, RightMasks, Right, InForce
  <2> QED BY <2>1, <2>2 DEF SettingsServed
<1> QED BY <1>1, ConfigInvariant, PTL

-----------------------------------------------------------------------------
(* Where an update is                                                       *)

LEMMA RightAppend ==
    ASSUME NEW q, IsSeq(q), NEW n, NEW u, AnswersRight(q, n, u), NEW m,
           m.kind = "answer" /\ m.update = n => ErrorsRight(u, m.errors)
    PROVE  AnswersRight(Append(q, m), n, u)
<1> DEFINE r == Append(q, m)
<1>1. /\ Len(r) = Len(q) + 1 /\ Len(q) \in Nat /\ r[Len(q) + 1] = m
      /\ \A k \in 1..Len(q) : r[k] = q[k]
  BY AppendIs
<1> HIDE DEF r
<1>2. \A k \in 1..Len(r) : k \in 1..Len(q) \/ k = Len(q) + 1
  BY <1>1
<1>3. AnswersRight(r, n, u)
  BY <1>1, <1>2 DEF AnswersRight
<1> QED BY <1>3 DEF r

LEMMA RightTail ==
    ASSUME NEW q, IsSeq(q), q # <<>>, NEW n, NEW u, AnswersRight(q, n, u)
    PROVE  /\ AnswersRight(Tail(q), n, u)
           /\ Head(q).kind = "answer" /\ Head(q).update = n => ErrorsRight(u, Head(q).errors)
<1> DEFINE r == Tail(q)
<1>1. /\ Head(q) = q[1] /\ 1 \in 1..Len(q)
      /\ \A k \in 1..Len(r) : r[k] = q[k + 1] /\ k + 1 \in 1..Len(q)
  BY TailIs
<1> HIDE DEF r
<1>2. AnswersRight(r, n, u)
  BY <1>1 DEF AnswersRight
<1>3. Head(q).kind = "answer" /\ Head(q).update = n => ErrorsRight(u, Head(q).errors)
  BY <1>1 DEF AnswersRight
<1> QED BY <1>2, <1>3 DEF r

LEMMA RightConcat ==
    ASSUME NEW q, IsSeq(q), NEW d, IsSeq(d), NEW n, NEW u, AnswersRight(q, n, u),
           \A k \in 1..Len(d) : d[k].kind # "answer"
    PROVE  AnswersRight(q \o d, n, u)
<1> DEFINE r == q \o d
<1>1. /\ \A k \in 1..Len(q) : r[k] = q[k] /\ k \in 1..Len(r)
      /\ \A k \in 1..Len(r) : k \notin 1..Len(q) =>
                  k - Len(q) \in 1..Len(d) /\ r[k] = d[k - Len(q)]
  BY ConcatIs
<1> HIDE DEF r
<1>2. AnswersRight(r, n, u)
  BY <1>1 DEF AnswersRight
<1> QED BY <1>2 DEF r

LEMMA RightNone ==
    ASSUME NEW q, NEW n, n # -1, NEW u, ~Has(q, n)
    PROVE  AnswersRight(q, n, u)
BY DEF Has, Bears, AnswersRight

\* A message for another update comes or goes.
LEMMA PlacedAppend ==
    ASSUME NEW w, NEW a, IsSeq(a), NEW p, NEW u, NEW n, n # -1, PlacedIn(w, a, p, u, n),
           NEW m, ~Bears(m, n)
    PROVE  PlacedIn(w, Append(a, m), p, u, n)
<1>1. ~(m.kind = "answer" /\ m.update = n)
  BY DEF Bears
<1>2. (Has(Append(a, m), n) <=> Has(a, n)) /\ HasOnce(Append(a, m), n)
  BY AppendHas DEF PlacedIn
<1>3. AnswersRight(Append(a, m), n, u)
  BY <1>1, RightAppend DEF PlacedIn
<1> QED BY <1>2, <1>3 DEF PlacedIn

LEMMA PlacedApiAppend ==
    ASSUME NEW w, NEW a, NEW p, IsSeq(p), NEW u, NEW n, PlacedIn(w, a, p, u, n),
           NEW m, ~Bears(m, n)
    PROVE  PlacedIn(w, a, Append(p, m), u, n)
<1>1. (Has(Append(p, m), n) <=> Has(p, n)) /\ HasOnce(Append(p, m), n)
  BY AppendHas DEF PlacedIn
<1> QED BY <1>1 DEF PlacedIn

LEMMA PlacedTail ==
    ASSUME NEW w, NEW a, IsSeq(a), a # <<>>, NEW p, NEW u, NEW n, PlacedIn(w, a, p, u, n),
           ~Bears(Head(a), n)
    PROVE  PlacedIn(w, Tail(a), p, u, n)
<1>1. (Has(Tail(a), n) <=> Has(a, n)) /\ HasOnce(Tail(a), n)
  BY TailHas DEF PlacedIn
<1>2. AnswersRight(Tail(a), n, u)
  BY RightTail DEF PlacedIn
<1> QED BY <1>1, <1>2 DEF PlacedIn

LEMMA PlacedApiTail ==
    ASSUME NEW w, NEW a, NEW p, IsSeq(p), p # <<>>, NEW u, NEW n, PlacedIn(w, a, p, u, n),
           ~Bears(Head(p), n)
    PROVE  PlacedIn(w, a, Tail(p), u, n)
<1>1. (Has(Tail(p), n) <=> Has(p, n)) /\ HasOnce(Tail(p), n)
  BY TailHas DEF PlacedIn
<1> QED BY <1>1 DEF PlacedIn

\* The adapter passes on to the LocApi thread what it takes.
LEMMA PlacedPassed ==
    ASSUME NEW w, NEW a, IsSeq(a), a # <<>>, NEW p, IsSeq(p), NEW u, NEW n, PlacedIn(w, a, p, u, n),
           NEW m, Bears(m, n) <=> Bears(Head(a), n)
    PROVE  PlacedIn(w, Tail(a), Append(p, m), u, n)
<1>1. /\ Has(a, n) <=> Bears(m, n) \/ Has(Tail(a), n)
      /\ HasOnce(Tail(a), n) /\ ~(Bears(m, n) /\ Has(Tail(a), n))
  BY TailHas DEF PlacedIn
<1>2. /\ Has(Append(p, m), n) <=> Has(p, n) \/ Bears(m, n)
      /\ HasOnce(p, n) /\ ~(Has(p, n) /\ Bears(m, n)) => HasOnce(Append(p, m), n)
  BY AppendHas
<1>3. AnswersRight(Tail(a), n, u)
  BY RightTail DEF PlacedIn
<1> QED BY <1>1, <1>2, <1>3 DEF PlacedIn

\* The adapter puts aside what it takes.
LEMMA PlacedAside ==
    ASSUME NEW w, IsSeq(w), NEW a, IsSeq(a), a # <<>>, NEW p, NEW u, NEW n, PlacedIn(w, a, p, u, n)
    PROVE  PlacedIn(Append(w, Head(a)), Tail(a), p, u, n)
<1> DEFINE m == Head(a)
<1>1. /\ Has(a, n) <=> Bears(m, n) \/ Has(Tail(a), n)
      /\ HasOnce(Tail(a), n) /\ ~(Bears(m, n) /\ Has(Tail(a), n))
  BY TailHas DEF PlacedIn
<1>3. AnswersRight(Tail(a), n, u)
  BY RightTail DEF PlacedIn
<1> HIDE DEF m
<1>2. /\ Has(Append(w, m), n) <=> Has(w, n) \/ Bears(m, n)
      /\ HasOnce(w, n) /\ ~(Has(w, n) /\ Bears(m, n)) => HasOnce(Append(w, m), n)
  BY AppendHas
<1>4. PlacedIn(Append(w, m), Tail(a), p, u, n)
  BY <1>1, <1>2, <1>3 DEF PlacedIn
<1> QED BY <1>4 DEF m

\* What was put aside is handed to the queue.
LEMMA PlacedBack ==
    ASSUME NEW w, IsSeq(w), NEW a, IsSeq(a), NEW p, NEW u, NEW n, PlacedIn(w, a, p, u, n),
           \A k \in 1..Len(w) : w[k].kind # "answer"
    PROVE  PlacedIn(<<>>, a \o w, p, u, n)
<1>1. /\ Has(a \o w, n) <=> Has(a, n) \/ Has(w, n)
      /\ HasOnce(a \o w, n)
  BY ConcatHas DEF PlacedIn
<1>2. AnswersRight(a \o w, n, u)
  BY RightConcat DEF PlacedIn
<1>3. ~Has(<<>>, n) /\ HasOnce(<<>>, n)
  BY EmptyQueue
<1> QED BY <1>1, <1>2, <1>3 DEF PlacedIn

\* The engine answers.
LEMMA PlacedReplied ==
    ASSUME NEW w, NEW a, IsSeq(a), NEW p, IsSeq(p), p # <<>>, NEW u, NEW n, n # -1,
           PlacedIn(w, a, p, u, n), Bears(Head(p), n),
           NEW v, v.answers = u.answers, NEW m, Bears(m, n), ErrorsRight(v, m.errors)
    PROVE  PlacedIn(w, Append(a, m), Tail(p), v, n)
<1>1. /\ Has(p, n) /\ HasOnce(Tail(p), n) /\ ~Has(Tail(p), n)
  BY TailHas DEF PlacedIn
<1>2. ~Has(w, n) /\ ~Has(a, n) /\ u.answers = 0 /\ HasOnce(w, n)
  BY <1>1 DEF PlacedIn
<1>3. Has(Append(a, m), n) /\ HasOnce(Append(a, m), n)
  BY <1>2, AppendHas DEF PlacedIn
<1>4. AnswersRight(a, n, v)
  BY <1>2, RightNone
<1>5. AnswersRight(Append(a, m), n, v)
  BY <1>4, RightAppend
<1> QED BY <1>1, <1>2, <1>3, <1>5 DEF PlacedIn

\* The control client hears the answer.
LEMMA PlacedAnswered ==
    ASSUME NEW w, NEW a, IsSeq(a), a # <<>>, NEW p, NEW u, NEW n, n # -1, PlacedIn(w, a, p, u, n),
           Head(a).kind = "answer", Head(a).update = n,
           NEW v, v.answers = u.answers + 1, v.errors = Head(a).errors,
           v.items = u.items, v.refused = u.refused
    PROVE  PlacedIn(w, Tail(a), p, v, n)
<1>0. Bears(Head(a), n)
  BY DEF Bears
<1>1. Has(a, n) /\ HasOnce(Tail(a), n) /\ ~Has(Tail(a), n)
  BY <1>0, TailHas DEF PlacedIn
<1>2. ~Has(w, n) /\ ~Has(p, n) /\ u.answers = 0 /\ HasOnce(w, n) /\ HasOnce(p, n)
  BY <1>1 DEF PlacedIn
<1>3. ErrorsRight(u, Head(a).errors)
  BY RightTail DEF PlacedIn
<1>4. ErrorsRight(v, v.errors)
  BY <1>3 DEF ErrorsRight
<1>5. AnswersRight(Tail(a), n, v)
  BY <1>1, RightNone
<1>6. v.answers = 1
  BY <1>2
<1> QED BY <1>1, <1>2, <1>4, <1>5, <1>6 DEF PlacedIn

\* Version and server are the only items that the engine is called for in another order
\* than that of their ids.
LEMMA ErrorsAgree ==
    ASSUME NEW config, NEW u, u.items = DOMAIN config, u.items \subseteq Items,
           u.refused \subseteq u.items
    PROVE  ErrorsRight(u, ErrorsOf(config, u.refused))
<1> SUFFICES ASSUME ~({"version", "server"} \subseteq u.items)
             PROVE  ErrorsOf(config, u.refused) =
                        [k \in 1..Cardinality(u.items) |->
                            \E i \in u.refused : PlaceOf(i, u.items, IdOrder) = k]
  BY DEF ErrorsRight
<1>1. ASSUME NEW i \in u.items, NEW j \in u.items
      PROVE  EngineOrder[j] <= EngineOrder[i] <=> IdOrder[j] <= IdOrder[i]
  BY DEF Items, EngineOrder, IdOrder
<1>2. ASSUME NEW i \in u.items
      PROVE  PlaceOf(i, u.items, EngineOrder) = PlaceOf(i, u.items, IdOrder)
  <2>1. {j \in u.items : EngineOrder[j] <= EngineOrder[i]} =
            {j \in u.items : IdOrder[j] <= IdOrder[i]}
    BY <1>1
  <2> QED BY <2>1 DEF PlaceOf
<1>3. \A k : (\E i \in u.refused : PlaceOf(i, u.items, EngineOrder) = k)
                 <=> (\E i \in u.refused : PlaceOf(i, u.items, IdOrder) = k)
  BY <1>2
<1>4. ErrorsOf(config, u.refused) =
          [k \in 1..Cardinality(u.items) |->
              \E i \in u.refused : PlaceOf(i, u.items, EngineOrder) = k]
  BY DEF ErrorsOf
<1> QED BY <1>3, <1>4

-----------------------------------------------------------------------------
(* Every step keeps updates in their places                                 *)

Places == UpFits /\ UpdatesPlaced

LEMMA QueuesAre ==
    ASSUME Shapes
    PROVE  /\ IsSeq(adapterQ) /\ IsSeq(apiQ) /\ IsSeq(adapter.deferred) /\ IsSeq(Waiting)
           /\ Len(updates) \in Nat
           /\ \A k \in 1..Len(adapter.deferred) : adapter.deferred[k].kind \in NeedsEngine
           /\ ~Has(adapter.deferred, -1)
<1>1. IsSeq(adapterQ) /\ IsSeq(apiQ) /\ IsSeq(adapter.deferred)
  BY DEF Shapes, AdapterQueue, ApiQueue, DeferredFits
<1>2. IsSeq(Waiting)
  BY <1>1, EmptyIs DEF Waiting
<1>3. Len(updates) \in Nat
  <2>1. updates \in Seq({updates[n] : n \in 1..Len(updates)})
    BY DEF Shapes, UpdatesFit, IsSeq
  <2> QED BY <2>1
<1>4. \A k \in 1..Len(adapter.deferred) : adapter.deferred[k].kind \in NeedsEngine
  BY DEF Shapes, DeferredFits
<1>5. ~Has(adapter.deferred, -1)
  BY <1>4 DEF Has, Bears, NeedsEngine
<1> QED BY <1>1, <1>2, <1>3, <1>4, <1>5

\* No message is for an update that was not made.
LEMMA NoneBeforeIt ==
    ASSUME Shapes, NEW n \in Nat \ {0}, n \notin 1..Len(updates)
    PROVE  ~Has(Waiting, n) /\ ~Has(adapterQ, n) /\ ~Has(apiQ, n)
<1>0. n # -1 /\ n # 0
  OBVIOUS
<1>1. \A m : AdapterFits(m, updates) => ~Bears(m, n)
  BY <1>0 DEF AdapterFits, Bears, IsUpdate
<1>2. \A m : ApiFits(m, updates) => ~Bears(m, n)
  BY <1>0 DEF ApiFits, Bears, IsUpdate
<1>3. ~Has(adapterQ, n) /\ ~Has(adapter.deferred, n)
  BY <1>1 DEF Shapes, DeferredFits, AdapterQueue, Has
<1>4. ~Has(apiQ, n)
  BY <1>2 DEF Shapes, ApiQueue, Has
<1> QED BY <1>3, <1>4, EmptyQueue DEF Waiting

\* The message of a new update is sent to the adapter.
LEMMA ConfigPlaces ==
    ASSUME Shapes, Places, NEW q, SendsConfig(q)
    PROVE  /\ IsSeq(q) /\ (Has(q, -1) <=> Has(adapterQ, -1))
           /\ HasOnce(adapterQ, -1) => HasOnce(q, -1)
           /\ \A n \in 1..Len(updates') : PlacedIn(Waiting, q, apiQ, updates'[n], n)
<1>1. /\ IsSeq(adapterQ) /\ Len(updates) \in Nat /\ UpdatesFit(updates)
      /\ \A n \in 1..Len(updates) : PlacedIn(Waiting, adapterQ, apiQ, updates[n], n)
  BY QueuesAre DEF Shapes, Places, UpdatesPlaced, Placed
<1>2. CASE q = adapterQ /\ updates' = updates
  BY <1>1, <1>2
<1>3. CASE \E c : /\ IsConfig(c)
                  /\ q = Append(adapterQ, ConfigMessage(c, Len(updates) + 1))
                  /\ updates' = Append(updates, NewUpdate(c))
  <2>1. PICK c : /\ IsConfig(c)
                 /\ q = Append(adapterQ, ConfigMessage(c, Len(updates) + 1))
                 /\ updates' = Append(updates, NewUpdate(c))
    BY <1>3
  <2> DEFINE N == Len(updates) + 1
             m == ConfigMessage(c, N)
             u == NewUpdate(c)
  <2>2. UpdateFits(u) /\ u.answers = 0
    BY <2>1, NewUpdateFits
  <2>3. /\ \A n : Bears(m, n) <=> n # -1 /\ N = n
        /\ m.kind = "config"
    BY ConfigBears DEF ConfigMessage
  <2>4. q = Append(adapterQ, m) /\ updates' = Append(updates, u)
    BY <2>1
  <2> HIDE DEF m, u
  <2>5. /\ \A n \in 1..Len(updates) : updates'[n] = updates[n]
        /\ Len(updates') = N /\ updates'[N] = u
    BY <1>1, <2>2, <2>4, UpdatesAppend
  <2>6. N \in Nat \ {0} /\ N \notin 1..Len(updates) /\ N # -1
    BY <1>1
  <2>7. \A n \in 1..Len(updates') : n \in 1..Len(updates) \/ n = N
    BY <1>1, <2>5
  <2>8. \A n \in 1..Len(updates) : n # N /\ n # -1
    BY <1>1
  <2> HIDE DEF N
  <2>9. IsSeq(q) /\ (Has(q, -1) <=> Has(adapterQ, -1)) /\ (HasOnce(adapterQ, -1) => HasOnce(q, -1))
    BY <1>1, <2>3, <2>4, AppendHas, AppendIs
  <2>10. ASSUME NEW n \in 1..Len(updates)
         PROVE  PlacedIn(Waiting, q, apiQ, updates'[n], n)
    BY <1>1, <2>3, <2>4, <2>5, <2>8, PlacedAppend
  <2>11. PlacedIn(Waiting, q, apiQ, u, N)
    <3>1. ~Has(Waiting, N) /\ ~Has(adapterQ, N) /\ ~Has(apiQ, N)
      BY <2>6, NoneBeforeIt
    <3>2. HasOnce(Waiting, N) /\ HasOnce(adapterQ, N) /\ HasOnce(apiQ, N)
      BY <3>1 DEF Has, HasOnce
    <3>3. Has(q, N) /\ HasOnce(q, N)
      BY <1>1, <2>3, <2>4, <2>6, <3>1, <3>2, AppendHas
    <3>4. AnswersRight(q, N, u)
      <4>1. AnswersRight(adapterQ, N, u)
        BY <2>6, <3>1, RightNone
      <4> QED BY <1>1, <2>3, <2>4, <4>1, RightAppend
    <3> QED BY <2>2, <3>1, <3>2, <3>3, <3>4 DEF PlacedIn
  <2> QED BY <2>5, <2>7, <2>9, <2>10, <2>11
<1> QED BY <1>2, <1>3 DEF SendsConfig

LEMMA CallersPlace ==
    ASSUME Shapes, Places, Callers
    PROVE  Places'
<1>1. Shapes' /\ Called
  BY CallersCall
<1>2. PICK q : SendsConfig(q) /\ SendsMore(q)
  BY <1>1 DEF Called
<1>3. /\ IsSeq(q) /\ (Has(q, -1) <=> Has(adapterQ, -1))
      /\ HasOnce(adapterQ, -1) => HasOnce(q, -1)
      /\ \A n \in 1..Len(updates') : PlacedIn(Waiting, q, apiQ, updates'[n], n)
  BY <1>2, ConfigPlaces
<1>4. apiQ' = apiQ /\ adapter' = adapter /\ Waiting' = Waiting
  BY <1>1 DEF Called, Waiting
<1>5. CASE adapterQ' = q
  BY <1>3, <1>4, <1>5 DEF Places, UpFits, UpdatesPlaced, Placed
<1>6. CASE \E m : adapterQ' = Append(q, m) /\ \A n : ~Bears(m, n)
  <2>1. PICK m : adapterQ' = Append(q, m) /\ \A n : ~Bears(m, n)
    BY <1>6
  <2>2. /\ Has(adapterQ', -1) <=> Has(q, -1)
        /\ HasOnce(q, -1) => HasOnce(adapterQ', -1)
    BY <1>3, <2>1, AppendHas
  <2>3. ASSUME NEW n \in 1..Len(updates')
        PROVE  PlacedIn(Waiting, adapterQ', apiQ, updates'[n], n)
    <3>1. n # -1
      BY <1>1, <2>3
    <3> QED BY <1>3, <2>1, <3>1, PlacedAppend
  <2>4. UpFits'
    BY <1>3, <1>4, <2>2 DEF Places, UpFits
  <2> QED BY <1>4, <2>3, <2>4 DEF Places, UpdatesPlaced, Placed
<1>7. \A m : Plain(m) => \A n : ~Bears(m, n)
  BY DEF Plain, Bears
<1>8. \A control : \A n : ~Bears(Enable(control), n)
  BY EnableCarries
<1> QED BY <1>2, <1>5, <1>6, <1>7, <1>8 DEF SendsMore

LEMMA EngineUpPlaces ==
    ASSUME Shapes, Places, EngineUp
    PROVE  Places'
<1> DEFINE m == [kind |-> "engineUp"]
<1>1. /\ adapterQ' = Append(adapterQ, m)
      /\ UNCHANGED <<hal, adapter, apiQ, asked, updates, flags>>
      /\ \/ ~adapter.known /\ ~Has(adapterQ, -1)
         \/ adapter.known /\ adapter.deferred = <<>>
  BY EngineUpDoes DEF EngineUpPosts
<1>2. Bears(m, -1) /\ \A n : n # -1 => ~Bears(m, n)
  BY DEF Bears
<1>3. IsSeq(adapterQ)
  BY QueuesAre
<1> HIDE DEF m
<1>4. UpFits'
  <2>1. ~Has(adapterQ, -1) => HasOnce(adapterQ', -1)
    <3>1. ~Has(adapterQ, -1) => HasOnce(adapterQ, -1)
      BY DEF Has, HasOnce
    <3> QED BY <1>1, <1>3, <3>1, AppendHas
  <2> QED BY <1>1, <2>1 DEF UpFits
<1>5. Waiting' = Waiting
  BY <1>1 DEF Waiting
<1>6. ASSUME NEW n \in 1..Len(updates)
      PROVE  PlacedIn(Waiting, adapterQ', apiQ, updates[n], n)
  <2>1. n # -1
    BY QueuesAre
  <2> QED BY <1>1, <1>2, <1>3, <1>6, <2>1, PlacedAppend DEF Places, UpdatesPlaced, Placed
<1> QED BY <1>1, <1>4, <1>5, <1>6 DEF Places, UpdatesPlaced, Placed

\* The news that the engine is up stays where it is while other messages are taken.
LEMMA UpTaken ==
    ASSUME Shapes, UpFits, Takes, Head(adapterQ).kind # "engineUp", adapter'.known = adapter.known,
           adapter'.known => adapter'.deferred = adapter.deferred
    PROVE  UpFits'
<1>1. IsSeq(adapterQ) /\ ~Bears(Head(adapterQ), -1) /\ adapterQ # <<>> /\ adapterQ' = Tail(adapterQ)
  BY QueuesAre DEF Bears, Takes
<1>2. (Has(adapterQ', -1) <=> Has(adapterQ, -1)) /\ (HasOnce(adapterQ, -1) => HasOnce(adapterQ', -1))
  BY <1>1, TailHas
<1> QED BY <1>2 DEF UpFits

LEMMA DeferPlaces ==
    ASSUME Shapes, Places, Defer
    PROVE  Places'
<1>1. /\ Takes /\ ~adapter.known /\ adapter'.known = adapter.known
      /\ Head(adapterQ).kind \in NeedsEngine
      /\ adapter'.deferred = Append(adapter.deferred, Head(adapterQ))
      /\ apiQ' = apiQ
  BY DeferDoes
<1>2. UpFits'
  BY <1>1, UpTaken DEF Places, NeedsEngine, AdapterShape, Shapes
<1>3. Waiting = adapter.deferred /\ Waiting' = Append(adapter.deferred, Head(adapterQ))
  BY <1>1 DEF Waiting
<1>4. /\ IsSeq(adapterQ) /\ IsSeq(adapter.deferred)
      /\ adapterQ # <<>> /\ adapterQ' = Tail(adapterQ) /\ updates' = updates
  BY <1>1, QueuesAre DEF Takes
<1>5. ASSUME NEW n \in 1..Len(updates)
      PROVE  PlacedIn(Append(adapter.deferred, Head(adapterQ)), Tail(adapterQ), apiQ, updates[n], n)
  <2>1. PlacedIn(adapter.deferred, adapterQ, apiQ, updates[n], n)
    BY <1>3 DEF Places, UpdatesPlaced, Placed
  <2> QED BY <1>4, <2>1, PlacedAside
<1> QED BY <1>1, <1>2, <1>3, <1>4, <1>5 DEF Places, UpdatesPlaced, Placed

\* The adapter handles a message and sends one to the LocApi thread that is for the same
\* update or, like the message, for none.
LEMMA PassPlaces ==
    ASSUME Shapes, Places, Takes, Head(adapterQ).kind # "engineUp", SameEngine,
           NEW m, apiQ' = Append(apiQ, m), \A n \in Nat \ {0} : Bears(m, n) <=> Bears(Head(adapterQ), n)
    PROVE  Places'
<1>1. UpFits'
  BY UpTaken DEF Places, SameEngine
<1>2. Waiting' = Waiting
  BY DEF Waiting, SameEngine
<1>3. /\ IsSeq(adapterQ) /\ IsSeq(apiQ)
      /\ adapterQ # <<>> /\ adapterQ' = Tail(adapterQ) /\ updates' = updates
  BY QueuesAre DEF Takes
<1>4. ASSUME NEW n \in 1..Len(updates)
      PROVE  PlacedIn(Waiting, Tail(adapterQ), Append(apiQ, m), updates[n], n)
  <2>1. PlacedIn(Waiting, adapterQ, apiQ, updates[n], n)
    BY DEF Places, UpdatesPlaced, Placed
  <2>2. n \in Nat \ {0}
    BY QueuesAre
  <2> QED BY <1>3, <2>1, <2>2, PlacedPassed
<1> QED BY <1>1, <1>2, <1>3, <1>4 DEF Places, UpdatesPlaced, Placed

LEMMA LocksPlace ==
    ASSUME Shapes, Places, HandleEnable \/ HandleDisable \/ HandleNfw
    PROVE  Places'
<1>1. ASSUME NEW lock, SendsLock(lock), Takes, Head(adapterQ).kind \in {"enable", "nfw"}
      PROVE  Places'
  <2>1. apiQ' = Append(apiQ, SetLock(lock)) /\ SameEngine
    BY <1>1 DEF SendsLock
  <2>2. \A n \in Nat \ {0} : Bears(SetLock(lock), n) <=> Bears(Head(adapterQ), n)
    BY <1>1, LockCarries DEF Bears
  <2> QED BY <1>1, <2>1, <2>2, PassPlaces
<1>2. CASE HandleDisable \/ HandleNfw
  BY <1>1, <1>2, DisableDoes, NfwDoes
<1>3. CASE HandleEnable
  <2>1. /\ Takes /\ Head(adapterQ).kind = "enable"
        /\ \/ apiQ' = apiQ /\ adapter' = adapter
           \/ \E lock : SendsLock(lock)
    BY <1>3, EnableDoes
  <2>2. CASE apiQ' = apiQ /\ adapter' = adapter
    <3>1. UpFits'
      BY <2>1, <2>2, UpTaken DEF Places
    <3>2. Waiting' = Waiting
      BY <2>2 DEF Waiting
    <3>3. /\ IsSeq(adapterQ) /\ adapterQ # <<>> /\ adapterQ' = Tail(adapterQ) /\ updates' = updates
      BY <2>1, QueuesAre DEF Takes
    <3>4. ASSUME NEW n \in 1..Len(updates)
          PROVE  PlacedIn(Waiting, Tail(adapterQ), apiQ, updates[n], n)
      <4>1. ~Bears(Head(adapterQ), n)
        <5>1. n # -1
          BY QueuesAre
        <5> QED BY <2>1, <5>1 DEF Bears
      <4>2. PlacedIn(Waiting, adapterQ, apiQ, updates[n], n)
        BY DEF Places, UpdatesPlaced, Placed
      <4> QED BY <3>3, <4>1, <4>2, PlacedTail
    <3> QED BY <2>2, <3>1, <3>2, <3>3, <3>4 DEF Places, UpdatesPlaced, Placed
  <2> QED BY <1>1, <2>1, <2>2
<1> QED BY <1>2, <1>3

LEMMA MasksPlace ==
    ASSUME Shapes, Places, HandleSvTypes \/ HandleReset \/ HandleSvConfig
    PROVE  Places'
<1>1. /\ Takes /\ Head(adapterQ).kind \in {"svTypes", "reset", "svConfig"}
      /\ adapter'.known = adapter.known /\ KeepsSettings
      /\ \E masks : apiQ' = Append(apiQ, SetBlacklist(masks))
  BY SvTypesDoes, ResetDoes, SvConfigDoes
<1>2. PICK masks : apiQ' = Append(apiQ, SetBlacklist(masks))
  BY <1>1
<1>3. \A n \in Nat \ {0} : Bears(SetBlacklist(masks), n) <=> Bears(Head(adapterQ), n)
  BY <1>1, BlacklistCarries DEF Bears
<1>4. SameEngine
  BY <1>1 DEF SameEngine, KeepsSettings
<1> QED BY <1>1, <1>2, <1>3, <1>4, PassPlaces

LEMMA HandledConfigPlaces ==
    ASSUME Shapes, Places, HandleConfig
    PROVE  Places'
<1> DEFINE m == Head(adapterQ)
           c == m.config
           M == SetItems(Requested(c), DOMAIN c \ NotNeeded(c), m.update)
<1>1. Takes /\ m.kind = "config" /\ apiQ' = Append(apiQ, M) /\ SameEngine
  BY ConfigDoes
<1>2. \A n \in Nat \ {0} : Bears(M, n) <=> Bears(m, n)
  BY <1>1 DEF Bears, SetItems
<1> HIDE DEF M
<1> QED BY <1>1, <1>2, PassPlaces

LEMMA HandledEngineUpPlaces ==
    ASSUME Shapes, Places, NEW torn \in BOOLEAN, HandleEngineUp(torn)
    PROVE  Places'
<1> DEFINE A == SetItems(Restored, DOMAIN Restored, 0)
           B == SetBlacklist(Read(torn))
           C == SetBlacklist(WithAllOf(Read(torn), adapter.svType))
           p == Append(apiQ, A)
           r == Append(p, B)
           a == Tail(adapterQ) \o adapter.deferred
<1>1. /\ Head(adapterQ).kind = "engineUp" /\ adapterQ # <<>>
      /\ adapterQ' = a /\ updates' = updates
      /\ adapter'.known = TRUE /\ adapter'.deferred = adapter.deferred
      /\ apiQ' = r \/ apiQ' = Append(r, C)
  BY EngineUpHandled DEF SentUp
<1>2. \A n \in Nat \ {0} : ~Bears(A, n) /\ ~Bears(B, n) /\ ~Bears(C, n)
  BY DEF Bears, SetItems, SetBlacklist
<1>3. /\ IsSeq(adapterQ) /\ IsSeq(apiQ) /\ IsSeq(adapter.deferred)
      /\ \A k \in 1..Len(adapter.deferred) : adapter.deferred[k].kind \in NeedsEngine
      /\ ~Has(adapter.deferred, -1) /\ Len(updates) \in Nat
  BY QueuesAre
<1>4. IsSeq(Tail(adapterQ)) /\ Bears(Head(adapterQ), -1)
  BY <1>1, <1>3, TailIs DEF Bears
<1> HIDE DEF A, B, C
<1>5. IsSeq(p) /\ IsSeq(r)
  BY <1>3, AppendIs
<1>6. /\ adapter.known => adapter.deferred = <<>>
      /\ ~adapter.known => ~Has(Tail(adapterQ), -1)
  <2>1. Has(adapterQ, -1) /\ (HasOnce(adapterQ, -1) => ~Has(Tail(adapterQ), -1))
    BY <1>1, <1>3, <1>4, TailHas
  <2> QED BY <2>1 DEF Places, UpFits
<1>7. UpFits'
  <2>1. ~adapter.known => ~Has(adapterQ', -1)
    BY <1>1, <1>3, <1>4, <1>6, ConcatHas
  <2> QED BY <1>1, <1>6, <2>1 DEF UpFits
<1>8. Waiting = adapter.deferred /\ Waiting' = <<>>
  BY <1>1, <1>6 DEF Waiting
<1> HIDE DEF p, r, a
<1>9. ASSUME NEW n \in 1..Len(updates)
      PROVE  PlacedIn(<<>>, a, apiQ', updates[n], n)
  <2>1. PlacedIn(adapter.deferred, adapterQ, apiQ, updates[n], n)
    BY <1>8 DEF Places, UpdatesPlaced, Placed
  <2>2. n \in Nat \ {0} /\ n # -1
    BY <1>3
  <2>3. ~Bears(Head(adapterQ), n)
    BY <1>1, <2>2 DEF Bears
  <2>4. PlacedIn(adapter.deferred, Tail(adapterQ), apiQ, updates[n], n)
    BY <1>1, <1>3, <2>1, <2>3, PlacedTail
  <2>5. \A k \in 1..Len(adapter.deferred) : adapter.deferred[k].kind # "answer"
    BY <1>3 DEF NeedsEngine
  <2>6. PlacedIn(<<>>, a, apiQ, updates[n], n)
    BY <1>3, <1>4, <2>4, <2>5, PlacedBack DEF a
  <2>7. PlacedIn(<<>>, a, p, updates[n], n)
    BY <1>2, <1>3, <2>2, <2>6, PlacedApiAppend DEF p
  <2>8. PlacedIn(<<>>, a, r, updates[n], n)
    BY <1>2, <1>5, <2>2, <2>7, PlacedApiAppend DEF r
  <2>9. PlacedIn(<<>>, a, Append(r, C), updates[n], n)
    BY <1>2, <1>5, <2>2, <2>8, PlacedApiAppend
  <2> QED BY <1>1, <2>8, <2>9
<1> QED BY <1>1, <1>7, <1>8, <1>9 DEF Places, UpdatesPlaced, Placed

LEMMA HandledAnswerPlaces ==
    ASSUME Shapes, Places, HandleAnswer
    PROVE  Places'
<1> DEFINE m == Head(adapterQ)
           N == m.update
<1>1. /\ adapterQ # <<>> /\ adapterQ' = Tail(adapterQ)
      /\ m.kind = "answer" /\ N \in 1..Len(updates)
      /\ UNCHANGED <<hal, adapter, apiQ, engine, asked, flags>>
      /\ Len(updates') = Len(updates)
      /\ updates'[N].items = updates[N].items /\ updates'[N].refused = updates[N].refused
      /\ updates'[N].errors = m.errors /\ updates'[N].answers = updates[N].answers + 1
      /\ \A k \in 1..Len(updates) : k # N => updates'[k] = updates[k]
  BY AnswerDoes
<1>2. IsSeq(adapterQ) /\ ~Bears(m, -1) /\ (\A n : Bears(m, n) => n = N)
  BY <1>1, QueuesAre DEF Bears
<1>3. UpFits'
  <2>1. /\ Has(adapterQ', -1) <=> Has(adapterQ, -1)
        /\ HasOnce(adapterQ, -1) => HasOnce(adapterQ', -1)
    BY <1>1, <1>2, TailHas
  <2> QED BY <1>1, <2>1 DEF Places, UpFits
<1>4. Waiting' = Waiting
  BY <1>1 DEF Waiting
<1> HIDE DEF m, N
<1>5. ASSUME NEW n \in 1..Len(updates)
      PROVE  PlacedIn(Waiting, Tail(adapterQ), apiQ, updates'[n], n)
  <2>1. PlacedIn(Waiting, adapterQ, apiQ, updates[n], n) /\ n # -1
    BY QueuesAre DEF Places, UpdatesPlaced, Placed
  <2>2. CASE n = N
    <3>1. m.update = n
      BY <2>2 DEF N
    <3> QED BY <1>1, <1>2, <2>1, <2>2, <3>1, PlacedAnswered DEF m
  <2>3. CASE n # N
    <3>1. ~Bears(Head(adapterQ), n)
      BY <1>2, <2>3 DEF m
    <3> QED BY <1>1, <1>2, <2>1, <2>3, <3>1, PlacedTail
  <2> QED BY <2>2, <2>3
<1> QED BY <1>1, <1>3, <1>4, <1>5 DEF Places, UpdatesPlaced, Placed

LEMMA AppliedPlaces ==
    ASSUME Shapes, Places, LocApiThread
    PROVE  Places'
<1> DEFINE m == Head(apiQ)
           N == m.update
<1>1. Applied /\ Replies
  BY LocApiThreadApplies
<1>2. /\ apiQ # <<>> /\ apiQ' = Tail(apiQ) /\ SameEngine
  BY <1>1 DEF Applied
<1>3. IsSeq(adapterQ) /\ IsSeq(apiQ) /\ Len(updates) \in Nat
  BY QueuesAre
<1>4. Waiting' = Waiting
  BY <1>2 DEF Waiting, SameEngine
<1>5. CASE adapterQ' = adapterQ /\ updates' = updates /\ \A n \in Nat \ {0} : ~Bears(m, n)
  <2>1. UpFits'
    BY <1>2, <1>5 DEF Places, UpFits, SameEngine
  <2>2. ASSUME NEW n \in 1..Len(updates)
        PROVE  PlacedIn(Waiting, adapterQ, Tail(apiQ), updates[n], n)
    <3>1. PlacedIn(Waiting, adapterQ, apiQ, updates[n], n)
      BY DEF Places, UpdatesPlaced, Placed
    <3>2. ~Bears(m, n)
      BY <1>3, <1>5
    <3> QED BY <1>2, <1>3, <3>1, <3>2, PlacedApiTail
  <2> QED BY <1>2, <1>4, <1>5, <2>1, <2>2 DEF Places, UpdatesPlaced, Placed
<1>6. ASSUME NEW refused \in SUBSET m.needed, m.kind = "setItems", N \in 1..Len(updates),
             adapterQ' = Append(adapterQ, AnswerTo(m, refused)),
             updates' = With(updates, N, [items |-> updates[N].items, refused |-> refused,
                                          errors |-> updates[N].errors,
                                          answers |-> updates[N].answers])
      PROVE  Places'
  <2> DEFINE a == AnswerTo(m, refused)
             u == [items |-> updates[N].items, refused |-> refused,
                   errors |-> updates[N].errors, answers |-> updates[N].answers]
  <2>1. ApiFits(m, updates)
    BY <1>2, ApiTail DEF Shapes
  <2>2. updates[N].items = DOMAIN m.config /\ m.needed \subseteq DOMAIN m.config
    <3>1. N # 0
      BY <1>6, <1>3
    <3> QED BY <1>6, <2>1, <3>1 DEF ApiFits, IsUpdate
  <2>3. UpdatesFit(updates) /\ UpdateFits(updates[N])
    BY <1>6 DEF Shapes, UpdatesFit
  <2>4. /\ UpdateFits(u) /\ u.items = updates[N].items /\ u.refused = refused
        /\ u.answers = updates[N].answers
    BY <2>2, <2>3 DEF UpdateFits
  <2>5. /\ \A n : Bears(m, n) /\ n # -1 => n = N
        /\ N # -1 => Bears(m, N)
        /\ ~Bears(a, -1) /\ \A n : Bears(a, n) => n = N
        /\ N # -1 => Bears(a, N)
        /\ a.errors = ErrorsOf(m.config, refused)
    BY <1>6 DEF Bears, AnswerTo
  <2> HIDE DEF u
  <2>6. /\ Len(updates') = Len(updates) /\ updates'[N] = u
        /\ \A k \in 1..Len(updates) : k # N => updates'[k] = updates[k]
    <3>1. updates' = With(updates, N, u) /\ N \in 1..Len(updates)
      BY <1>6 DEF u
    <3>2. /\ Len(With(updates, N, u)) = Len(updates) /\ With(updates, N, u)[N] = u
          /\ \A k \in 1..Len(updates) : k # N => With(updates, N, u)[k] = updates[k]
      BY ONLY <2>3, <2>4, <3>1, UpdatesExcept
    <3> QED BY ONLY <3>1, <3>2
  <2>7. ErrorsRight(u, a.errors)
    <3>1. u.items = DOMAIN m.config /\ u.items \subseteq Items /\ u.refused \subseteq u.items
      BY <2>2, <2>4 DEF UpdateFits
    <3>2. ErrorsRight(u, ErrorsOf(m.config, u.refused))
      BY <3>1, ErrorsAgree
    <3> QED BY <2>4, <2>5, <3>2
  <2> HIDE DEF a, m, N
  <2>8. UpFits'
    <3>1. /\ Has(adapterQ', -1) <=> Has(adapterQ, -1)
          /\ HasOnce(adapterQ, -1) => HasOnce(adapterQ', -1)
      BY <1>3, <1>6, <2>5, AppendHas DEF a
    <3> QED BY <1>2, <3>1 DEF Places, UpFits, SameEngine
  <2>9. ASSUME NEW n \in 1..Len(updates)
        PROVE  PlacedIn(Waiting, Append(adapterQ, a), Tail(apiQ), updates'[n], n)
    <3>1. PlacedIn(Waiting, adapterQ, apiQ, updates[n], n) /\ n # -1
      BY <1>3 DEF Places, UpdatesPlaced, Placed
    <3>2. CASE n = N
      <4>1. Bears(Head(apiQ), n) /\ Bears(a, n)
        BY <2>5, <3>1, <3>2 DEF m
      <4>2. u.answers = updates[n].answers /\ updates'[n] = u
        BY <2>4, <2>6, <3>2
      <4>3. PlacedIn(Waiting, Append(adapterQ, a), Tail(apiQ), u, n)
        BY <1>2, <1>3, <2>7, <3>1, <4>1, <4>2, PlacedReplied
      <4> QED BY <4>2, <4>3
    <3>3. CASE n # N
      <4>1. ~Bears(Head(apiQ), n) /\ ~Bears(a, n)
        BY <2>5, <3>1, <3>3 DEF m
      <4>2. PlacedIn(Waiting, Append(adapterQ, a), apiQ, updates[n], n)
        BY <1>3, <3>1, <4>1, PlacedAppend
      <4>3. PlacedIn(Waiting, Append(adapterQ, a), Tail(apiQ), updates[n], n)
        BY <1>2, <1>3, <4>1, <4>2, PlacedApiTail
      <4> QED BY <2>6, <3>3, <4>3
    <3> QED BY <3>2, <3>3
  <2> QED BY <1>2, <1>4, <1>6, <2>6, <2>8, <2>9 DEF Places, UpdatesPlaced, Placed, a
<1> QED BY <1>1, <1>5, <1>6 DEF Replies

LEMMA InitPlaces ==
    ASSUME Init
    PROVE  Places
<1>1. adapterQ = <<>> /\ ~adapter.known /\ updates = <<>>
  BY DEF Init
<1>2. UpFits
  BY <1>1, EmptyQueue DEF UpFits
<1>3. \A n \in 1..Len(updates) : FALSE
  BY <1>1, EmptyIs
<1> QED BY <1>2, <1>3 DEF Places, UpdatesPlaced

LEMMA StutterPlaces ==
    ASSUME Places, UNCHANGED vars
    PROVE  Places'
<1>1. UNCHANGED <<adapter, adapterQ, apiQ, updates>>
  BY DEF vars
<1> QED BY <1>1 DEF Places, UpFits, UpdatesPlaced, Placed, Waiting

LEMMA NextPlaces ==
    ASSUME Inv, Places, [Next]_vars
    PROVE  Places'
<1>0. Shapes
  BY DEF Inv
<1>1. CASE Callers
  BY <1>0, <1>1, CallersPlace
<1>2. CASE EngineUp
  BY <1>0, <1>2, EngineUpPlaces
<1>3. CASE AdapterThread
  BY <1>0, <1>3, DeferPlaces, LocksPlace, MasksPlace, HandledConfigPlaces,
     HandledEngineUpPlaces, HandledAnswerPlaces DEF AdapterThread
<1>4. CASE LocApiThread
  BY <1>0, <1>4, AppliedPlaces
<1>5. CASE Done \/ UNCHANGED vars
  BY <1>5, StutterPlaces DEF Done
<1> QED BY <1>1, <1>2, <1>3, <1>4, <1>5 DEF Next

\* Every update of the control client is answered, once, and each of its ids tells the fate
\* of its own item: whether the update waited for the engine or not, and whatever the
\* engine refused (GnssAdapter.cpp:937-1048, LocationAPI.h:244-246).
THEOREM ConfigAnswersFit == Spec => []AnswersFit
<1>1. Init => Places
  BY InitPlaces
<1>2. Inv /\ Places /\ [Next]_vars => Places'
  BY NextPlaces
<1>3. ASSUME Inv, Places PROVE AnswersFit
  <2>1. DOMAIN updates = 1..Len(updates)
    <3>1. updates \in Seq({updates[n] : n \in 1..Len(updates)})
      BY <1>3 DEF Inv, Shapes, UpdatesFit, IsSeq
    <3> QED BY <3>1
  <2>2. ASSUME NEW n \in 1..Len(updates)
        PROVE  /\ Rest => updates[n].answers = 1
               /\ updates[n].answers = 1 => ErrorsRight(updates[n], updates[n].errors)
    <3>1. PlacedIn(Waiting, adapterQ, apiQ, updates[n], n)
      BY <1>3 DEF Places, UpdatesPlaced, Placed
    <3>2. Rest => ~Has(Waiting, n) /\ ~Has(adapterQ, n) /\ ~Has(apiQ, n)
      BY EmptyQueue DEF Rest, Waiting
    <3> QED BY <3>1, <3>2 DEF PlacedIn
  <2> QED BY <2>1, <2>2 DEF AnswersFit, ErrorsRight
<1> QED BY <1>1, <1>2, <1>3, ConfigInvariant, PTL DEF Spec

\* What the HAL and the adapter keep can be what they hold, and no update is answered twice.
THEOREM ConfigTypes == Spec => []TypeOK
<1>1. Init => Places
  BY InitPlaces
<1>2. Inv /\ Places /\ [Next]_vars => Places'
  BY NextPlaces
<1>3. ASSUME Inv, Places PROVE TypeOK
  <2>1. /\ hal.enabled => hal.api
        /\ DOMAIN hal.pending \subseteq Items /\ DOMAIN hal.last \subseteq Items
    BY <1>3 DEF Inv, Shapes, HalFits, IsConfig
  <2>2. adapter.conf["lock"] \subseteq {"MO", "NI"} /\ adapter.masks \in Masks
    BY <1>3 DEF Inv, Shapes, AdapterShape
  <2>3. engine["blacklist"] \in Masks /\ flags \subseteq Items \cup {"late nfw", "overtaken"}
    BY <1>3 DEF Inv, Shapes, EngineFits
  <2>4. \A c \in Constellations : adapter.masks[c] \subseteq Bits /\ engine.blacklist[c] \subseteq Bits
    BY <2>2, <2>3 DEF Masks
  <2>5. DOMAIN updates = 1..Len(updates)
    <3>1. updates \in Seq({updates[n] : n \in 1..Len(updates)})
      BY <1>3 DEF Inv, Shapes, UpdatesFit, IsSeq
    <3> QED BY <3>1
  <2>6. \A n \in DOMAIN updates : updates[n].answers \in {0, 1}
    BY <1>3, <2>5 DEF Places, UpdatesPlaced, Placed, PlacedIn
  <2> QED BY <2>1, <2>2, <2>3, <2>4, <2>6 DEF TypeOK
<1> QED BY <1>1, <1>2, <1>3, ConfigInvariant, PTL DEF Spec
=============================================================================
