-------------------------- MODULE Geofence_proofs --------------------------
(***************************************************************************)
(* Proofs about Geofence, for any number of clients, fences, commands,     *)
(* refusals and crashes: the variables keep their types and every command  *)
(* is answered; no fence is kept twice, and a breach is told of the fence  *)
(* that the engine meant; the two maps of the adapter agree.               *)
(***************************************************************************)
EXTENDS Geofence, TLAPS, FunctionTheorems, FiniteSetTheorems

-----------------------------------------------------------------------------
(* Sequences.                                                               *)

\* The elements of a sequence.
Elements(q) == {q[k] : k \in 1..Len(q)}

LEMMA Shortened ==
    ASSUME NEW S, NEW q \in Seq(S), q # <<>>
    PROVE  /\ Head(q) \in S /\ Head(q) = q[1] /\ Len(q) \in Nat \ {0}
           /\ Tail(q) \in Seq(S) /\ Len(Tail(q)) = Len(q) - 1
           /\ \A k \in 1..Len(Tail(q)) : k + 1 \in 1..Len(q) /\ Tail(q)[k] = q[k + 1]
OBVIOUS

LEMMA Appended ==
    ASSUME NEW S, NEW q \in Seq(S), NEW e \in S
    PROVE  /\ Append(q, e) \in Seq(S) /\ Len(Append(q, e)) = Len(q) + 1 /\ Len(q) \in Nat
           /\ \A k \in 1..Len(q) : Append(q, e)[k] = q[k]
           /\ Append(q, e)[Len(q) + 1] = e
OBVIOUS

LEMMA Joined ==
    ASSUME NEW S, NEW q \in Seq(S), NEW r \in Seq(S)
    PROVE  /\ q \o r \in Seq(S) /\ Len(q \o r) = Len(q) + Len(r)
           /\ Len(q) \in Nat /\ Len(r) \in Nat
           /\ \A k \in 1..Len(q) : (q \o r)[k] = q[k]
           /\ \A k \in 1..Len(r) : Len(q) + k \in 1..Len(q \o r) /\ (q \o r)[Len(q) + k] = r[k]
           /\ \A k \in 1..Len(q \o r) :
                  k \notin 1..Len(q) => k - Len(q) \in 1..Len(r) /\ (q \o r)[k] = r[k - Len(q)]
<1>1. /\ q \o r \in Seq(S) /\ Len(q \o r) = Len(q) + Len(r)
      /\ Len(q) \in Nat /\ Len(r) \in Nat
  OBVIOUS
<1>2. \A k \in 1..Len(q \o r) : (q \o r)[k] = IF k <= Len(q) THEN q[k] ELSE r[k - Len(q)]
  OBVIOUS
<1> QED BY <1>1, <1>2

LEMMA ElementsOfTail ==
    ASSUME NEW S, NEW q \in Seq(S), q # <<>>
    PROVE  Elements(Tail(q)) \subseteq Elements(q) /\ Head(q) \in Elements(q)
           /\ Elements(q) = {Head(q)} \cup Elements(Tail(q))
<1>1. \A k \in 1..Len(q) : k = 1 \/ (k - 1 \in 1..Len(Tail(q)) /\ q[k] = Tail(q)[k - 1])
  BY Shortened
<1>2. 1 \in 1..Len(q) /\ q[1] = Head(q)
  BY Shortened
<1>3. \A k \in 1..Len(Tail(q)) : k + 1 \in 1..Len(q) /\ Tail(q)[k] = q[k + 1]
  BY Shortened
<1> QED BY <1>1, <1>2, <1>3 DEF Elements

LEMMA ElementsOfAppend ==
    ASSUME NEW S, NEW q \in Seq(S), NEW e \in S
    PROVE  Elements(Append(q, e)) = Elements(q) \cup {e}
<1>1. \A k \in 1..Len(Append(q, e)) : k \in 1..Len(q) \/ k = Len(q) + 1
  BY Appended
<1>2. Len(q) + 1 \in 1..Len(Append(q, e)) /\ \A k \in 1..Len(q) : k \in 1..Len(Append(q, e))
  BY Appended
<1> QED BY <1>1, <1>2, Appended DEF Elements

LEMMA ElementsOfJoin ==
    ASSUME NEW S, NEW q \in Seq(S), NEW r \in Seq(S)
    PROVE  Elements(q \o r) = Elements(q) \cup Elements(r)
<1>1. \A k \in 1..Len(q) : k \in 1..Len(q \o r) /\ (q \o r)[k] = q[k]
  BY Joined
<1>2. \A k \in 1..Len(r) : Len(q) + k \in 1..Len(q \o r) /\ (q \o r)[Len(q) + k] = r[k]
  BY Joined
<1>3. \A k \in 1..Len(q \o r) : k \in 1..Len(q) \/ k - Len(q) \in 1..Len(r)
  BY Joined
<1>4. \A k \in 1..Len(q \o r) : k \notin 1..Len(q) => (q \o r)[k] = r[k - Len(q)]
  BY Joined
<1> QED BY <1>1, <1>2, <1>3, <1>4 DEF Elements

\* A set of numbers in ascending order has each of them once.
LEMMA AscendingLists ==
    ASSUME NEW S \in SUBSET Nat, IsFiniteSet(S)
    PROVE  /\ Ascending(S) \in Seq(S) /\ Len(Ascending(S)) = Cardinality(S)
           /\ \A k \in 1..Cardinality(S) : Ascending(S)[k] \in S
           /\ \A k, l \in 1..Cardinality(S) : Ascending(S)[k] = Ascending(S)[l] => k = l
           /\ \A n \in S : \E k \in 1..Cardinality(S) : Ascending(S)[k] = n
<1> DEFINE Below(n) == {m \in S : m < n}
           N == Cardinality(S)
           rank == [n \in S |-> Cardinality(Below(n)) + 1]
<1>1. N \in Nat
  BY FS_CardinalityType
<1>2. \A n \in S : IsFiniteSet(Below(n)) /\ Cardinality(Below(n)) \in Nat
  BY FS_Subset, FS_CardinalityType
<1>3. \A n \in S : Cardinality(Below(n)) < N
  <2> TAKE n \in S
  <2>1. Below(n) \in SUBSET S /\ Below(n) # S
    OBVIOUS
  <2> HIDE DEF Below, N
  <2>2. Cardinality(Below(n)) <= N /\ Cardinality(Below(n)) # N
    BY <2>1, FS_Subset DEF N
  <2> QED BY <1>1, <1>2, <2>2
<1>4. ASSUME NEW m \in S, NEW n \in S, m < n PROVE Cardinality(Below(m)) < Cardinality(Below(n))
  <2>1. Below(m) \in SUBSET Below(n) /\ Below(m) # Below(n)
    <3>1. m \in Below(n) /\ m \notin Below(m)
      <4>1. m \in Nat /\ n \in Nat
        OBVIOUS
      <4> QED BY <1>4, <4>1
    <3>2. Below(m) \subseteq Below(n)
      <4>1. m \in Nat /\ n \in Nat /\ S \subseteq Nat
        OBVIOUS
      <4>2. \A i \in Nat : i < m => i < n
        BY <1>4, <4>1
      <4> QED BY <4>1, <4>2
    <3> QED BY <3>1, <3>2
  <2> HIDE DEF Below
  <2>2. Cardinality(Below(m)) <= Cardinality(Below(n)) /\ Cardinality(Below(m)) # Cardinality(Below(n))
    BY <1>2, <2>1, FS_Subset
  <2> QED BY <1>2, <2>2
<1> HIDE DEF Below
<1>5. rank \in Injection(S, 1..N)
  <2>1. rank \in [S -> 1..N]
    BY <1>1, <1>2, <1>3
  <2>2. ASSUME NEW m \in S, NEW n \in S, rank[m] = rank[n] PROVE m = n
    <3>1. Cardinality(Below(m)) = Cardinality(Below(n))
      BY <1>2, <2>2
    <3> QED BY <1>2, <1>4, <3>1
  <2> HIDE DEF rank
  <2> QED BY <2>1, <2>2 DEF Injection, IsInjective
<1>6. IsFiniteSet(1..N) /\ Cardinality(1..N) = N
  BY <1>1, FS_Interval
<1>7. rank \in Surjection(S, 1..N)
  BY <1>5, <1>6, FS_Injection DEF N
<1>8. \A k \in 1..N : \E n \in S : Cardinality(Below(n)) = k - 1
  <2> TAKE k \in 1..N
  <2>1. PICK n \in S : rank[n] = k
    BY <1>7 DEF Surjection
  <2> QED BY <1>2, <2>1
<1> DEFINE a == Ascending(S)
<1>9. /\ a = [k \in 1..N |-> a[k]]
      /\ \A k \in 1..N : a[k] \in S /\ Cardinality(Below(a[k])) = k - 1
  <2>1. a = [k \in 1..N |-> CHOOSE n \in S : Cardinality(Below(n)) = k - 1]
    BY DEF Ascending, Below
  <2> HIDE DEF a, N
  <2>2. ASSUME NEW k \in 1..N PROVE a[k] \in S /\ Cardinality(Below(a[k])) = k - 1
    <3>1. a[k] = CHOOSE n \in S : Cardinality(Below(n)) = k - 1
      BY <2>1
    <3>2. \E n \in S : Cardinality(Below(n)) = k - 1
      BY <1>8
    <3> QED BY <3>1, <3>2
  <2>3. a = [k \in 1..N |-> a[k]]
    BY <2>1
  <2> QED BY <2>2, <2>3
<1> HIDE DEF a
<1>10. \A k, l \in 1..N : a[k] = a[l] => k = l
  BY <1>1, <1>9
<1>11. ASSUME NEW n \in S PROVE \E k \in 1..N : a[k] = n
  <2>1. PICK k \in 1..N : k = Cardinality(Below(n)) + 1
    BY <1>1, <1>2, <1>3
  <2>2. Cardinality(Below(a[k])) = Cardinality(Below(n)) /\ a[k] \in S /\ a[k] \in Nat /\ n \in Nat
    BY <1>2, <1>9, <2>1
  <2>3. ~(a[k] < n) /\ ~(n < a[k])
    BY <1>2, <1>4, <2>2
  <2> QED BY <2>2, <2>3
<1>12. a \in Seq(S) /\ Len(a) = N
  <2> HIDE DEF N
  <2>1. a \in [1..N -> S]
    BY <1>9
  <2> QED BY <1>1, <2>1
<1> QED BY <1>9, <1>10, <1>11, <1>12 DEF a

-----------------------------------------------------------------------------
(* Types.                                                                   *)

AllOptions == Options \cup {NoOptions}

Requests ==
    {m \in [op : Commands, hwId : {0} \cup HwIds, id : Ids, opt : AllOptions, then : Thens] :
        /\ m.op \in {"add", "modify"} => m.opt \in Options
        /\ m.op # "add" => m.hwId \in HwIds
        /\ m.then.for = "restore" =>
              m.op = "add" /\ m.then.fence \in Fence
              /\ m.then.fence.id = m.id /\ m.then.fence.opt = m.opt
        /\ m.then.for = "gone" => m.op = "remove"
        /\ m.then.for = "nobody" => m.op = "pause"}

Turns == [op : {"turn"}, batch : 0..MaxCalls, item : 1..MaxItems]
ApiMessages == Turns \cup [op : {"ssr"}] \cup Requests

Answers ==
    {m \in [type : {"answer"}, ok : BOOLEAN, hwId : {0} \cup HwIds, to : Requests] :
        /\ m.ok => m.hwId \in HwIds
        /\ m.to.op # "add" => m.hwId = m.to.hwId
        /\ m.to.then.for # "nobody"}

CommandMessages == [type : {"command"}, batch : 0..MaxCalls]
TurnMessages == [type : {"turn"}, batch : 0..MaxCalls, item : 1..MaxItems]
RemoveMessages == [type : {"removeClient"}, client : Clients]
UpMessages == [type : {"engineUp"}]
BreachMessages == [type : {"breach"}, hwIds : SUBSET HwIds, of : SUBSET Ids]

AdapterMessages ==
    CommandMessages \cup TurnMessages \cup Answers \cup RemoveMessages \cup UpMessages
    \cup BreachMessages

\* A command's items have ids of their own, until its arrays are deleted.
Batches ==
    {batch \in [op : Commands \cup {"deleted"}, client : Clients \cup {Nobody}, ids : Seq(Ids),
                opt : AllOptions, errs : Seq(Errors), reported : BOOLEAN] :
        /\ Len(batch.errs) = Len(batch.ids) /\ Len(batch.ids) <= MaxItems
        /\ \A i, j \in 1..Len(batch.ids) : batch.ids[i] = batch.ids[j] => i = j
        /\ IF batch.reported THEN batch = Deleted
           ELSE batch.op \in Commands /\ batch.client \in Clients /\ Len(batch.ids) > 0}

Types ==
    /\ fences \in [HwIds -> Fence \cup {NoFence}]
    /\ hwIdOf \in [Ids -> {0} \cup HwIds]
    /\ clients \subseteq Clients
    /\ owner \in Seq(Clients) /\ Len(owner) <= MaxFences
    /\ batches \in Seq(Batches) /\ Len(batches) <= used.calls
    /\ adapterQ \in Seq(AdapterMessages)
    /\ apiQ \in Seq(ApiMessages)
    /\ engine \in [up : BOOLEAN, fences : [HwIds -> Fence \cup {NoFence}]]
    /\ answered \in [Ids -> {"running", "paused", "removed"}]
    /\ strayed \in BOOLEAN
    /\ used \in [calls : 0..MaxCalls, breaches : Nat, refusals : Nat, crashes : Nat]

LEMMA Numbers ==
    /\ MaxFences \in Nat /\ MaxItems \in Nat /\ MaxCalls \in Nat
    /\ Nobody \notin Clients /\ 0 \notin Ids /\ 0 \notin HwIds /\ NoFence \notin Fence
    /\ Ids \in SUBSET Nat /\ HwIds \in SUBSET Nat /\ IsFiniteSet(Ids) /\ IsFiniteSet(HwIds)
<1>1. MaxFences \in Nat /\ MaxItems \in Nat /\ MaxCalls \in Nat /\ Nobody \notin Clients
  BY GeofenceAssumption
<1>2. IsFiniteSet(1..MaxFences)
  BY <1>1, FS_Interval
<1>3. NoFence \notin Fence
  BY DEF NoFence, Fence, Ids
<1> QED BY <1>1, <1>2, <1>3 DEF Ids, HwIds

\* What is in a message, by its kind.
LEMMA RequestFields ==
    ASSUME NEW m \in Requests
    PROVE  /\ m.op \in Commands /\ m.id \in Ids /\ m.opt \in AllOptions /\ m.then \in Thens
           /\ m.hwId \in {0} \cup HwIds
           /\ m.op \in {"add", "modify"} => m.opt \in Options
           /\ m.op # "add" => m.hwId \in HwIds
           /\ m.then.for \in {"item", "restore", "gone", "nobody"}
           /\ m.then.batch \in 0..MaxCalls /\ m.then.item \in 0..MaxItems
           /\ m.then.for = "restore" =>
                 m.op = "add" /\ m.then.fence \in Fence
                 /\ m.then.fence.id = m.id /\ m.then.fence.opt = m.opt
           /\ m.then.for = "gone" => m.op = "remove"
           /\ m.then.for = "nobody" => m.op = "pause"
BY DEF Requests, Thens

LEMMA ApiFields ==
    ASSUME NEW m \in ApiMessages
    PROVE  /\ m.op \in Commands \cup {"turn", "ssr"}
           /\ m.op \in Commands => m \in Requests
           /\ m.op = "turn" => m \in Turns /\ m.batch \in 0..MaxCalls /\ m.item \in 1..MaxItems
           /\ m.op = "ssr" => m = [op |-> "ssr"]
<1>1. CASE m \in Turns
  BY <1>1 DEF Turns, Commands
<1>2. CASE m \in [op : {"ssr"}]
  BY <1>2 DEF Commands
<1>3. CASE m \in Requests
  BY <1>3 DEF Requests, Commands
<1> QED BY <1>1, <1>2, <1>3 DEF ApiMessages

LEMMA AdapterFields ==
    ASSUME NEW m \in AdapterMessages
    PROVE  /\ m.type \in {"command", "turn", "answer", "removeClient", "engineUp", "breach"}
           /\ m.type = "command" => m \in CommandMessages /\ m.batch \in 0..MaxCalls
           /\ m.type = "turn" => m \in TurnMessages /\ m.batch \in 0..MaxCalls /\ m.item \in 1..MaxItems
           /\ m.type = "answer" =>
                 /\ m \in Answers /\ m.to \in Requests /\ m.ok \in BOOLEAN
                 /\ m.hwId \in {0} \cup HwIds /\ (m.ok => m.hwId \in HwIds)
                 /\ m.to.op # "add" => m.hwId = m.to.hwId /\ m.hwId \in HwIds
                 /\ m.to.then.for # "nobody"
           /\ m.type = "removeClient" => m.client \in Clients
           /\ m.type = "breach" => m.hwIds \subseteq HwIds /\ m.of \subseteq Ids
<1>1. CASE m \in CommandMessages
  BY <1>1 DEF CommandMessages
<1>2. CASE m \in TurnMessages
  BY <1>2 DEF TurnMessages
<1>3. CASE m \in Answers
  <2>1. m.type = "answer" /\ m.to \in Requests /\ m.ok \in BOOLEAN /\ m.hwId \in {0} \cup HwIds
        /\ (m.ok => m.hwId \in HwIds) /\ (m.to.op # "add" => m.hwId = m.to.hwId)
        /\ m.to.then.for # "nobody"
    BY <1>3 DEF Answers
  <2> QED BY <1>3, <2>1, RequestFields
<1>4. CASE m \in RemoveMessages
  BY <1>4 DEF RemoveMessages
<1>5. CASE m \in UpMessages
  BY <1>5 DEF UpMessages
<1>6. CASE m \in BreachMessages
  BY <1>6 DEF BreachMessages
<1> QED BY <1>1, <1>2, <1>3, <1>4, <1>5, <1>6 DEF AdapterMessages

LEMMA BatchFields ==
    ASSUME NEW batch \in Batches
    PROVE  /\ batch.op \in Commands \cup {"deleted"} /\ batch.client \in Clients \cup {Nobody}
           /\ batch.ids \in Seq(Ids) /\ batch.opt \in AllOptions /\ batch.errs \in Seq(Errors)
           /\ Len(batch.errs) = Len(batch.ids) /\ Len(batch.ids) <= MaxItems /\ Len(batch.ids) \in Nat
           /\ \A i \in 1..Len(batch.ids) : batch.ids[i] \in Ids
           /\ \A i, j \in 1..Len(batch.ids) : batch.ids[i] = batch.ids[j] => i = j
           /\ batch.reported \in BOOLEAN
           /\ batch.reported => batch = Deleted /\ batch.op = "deleted" /\ batch.ids = <<>>
           /\ ~batch.reported =>
                 batch.op \in Commands /\ batch.client \in Clients /\ Len(batch.ids) > 0
           /\ batch.op \in Commands => ~batch.reported
<1>1. /\ batch.op \in Commands \cup {"deleted"} /\ batch.client \in Clients \cup {Nobody}
      /\ batch.ids \in Seq(Ids) /\ batch.opt \in AllOptions /\ batch.errs \in Seq(Errors)
      /\ Len(batch.errs) = Len(batch.ids) /\ Len(batch.ids) <= MaxItems
      /\ \A i, j \in 1..Len(batch.ids) : batch.ids[i] = batch.ids[j] => i = j
      /\ batch.reported \in BOOLEAN
      /\ IF batch.reported THEN batch = Deleted
         ELSE batch.op \in Commands /\ batch.client \in Clients /\ Len(batch.ids) > 0
  BY DEF Batches
<1>2. Len(batch.ids) \in Nat /\ \A i \in 1..Len(batch.ids) : batch.ids[i] \in Ids
  BY <1>1
<1>3. batch = Deleted => batch.op = "deleted" /\ batch.ids = <<>> /\ batch.reported
  BY DEF Deleted
<1> QED BY <1>1, <1>2, <1>3 DEF Commands

\* What the steps put together.
LEMMA RequestsMade ==
    ASSUME NEW op \in Commands, NEW h \in {0} \cup HwIds, NEW id \in Ids, NEW opt \in AllOptions,
           NEW then \in Thens,
           op \in {"add", "modify"} => opt \in Options,
           op # "add" => h \in HwIds,
           then.for = "restore" =>
              op = "add" /\ then.fence \in Fence /\ then.fence.id = id /\ then.fence.opt = opt,
           then.for = "gone" => op = "remove",
           then.for = "nobody" => op = "pause"
    PROVE  /\ Request(op, h, id, opt, then) \in Requests
           /\ Request(op, h, id, opt, then) \in ApiMessages
           /\ Request(op, h, id, opt, then).op = op /\ Request(op, h, id, opt, then).id = id
           /\ Request(op, h, id, opt, then).hwId = h /\ Request(op, h, id, opt, then).opt = opt
           /\ Request(op, h, id, opt, then).then = then
BY DEF Request, Requests, ApiMessages

LEMMA Purposes ==
    /\ \A b \in 0..MaxCalls, i \in 0..MaxItems :
          /\ ForItem(b, i) \in Thens /\ ForItem(b, i).for = "item"
          /\ ForItem(b, i).batch = b /\ ForItem(b, i).item = i
    /\ \A fence \in Fence :
          ForRestore(fence) \in Thens /\ ForRestore(fence).for = "restore"
          /\ ForRestore(fence).fence = fence
    /\ ForGone \in Thens /\ ForGone.for = "gone"
    /\ ForNobody \in Thens /\ ForNobody.for = "nobody"
<1>1. 0 \in 0..MaxCalls /\ 0 \in 0..MaxItems
  BY Numbers
<1> QED BY <1>1 DEF Thens, ForItem, ForRestore, ForGone, ForNobody

LEMMA AnswersMade ==
    ASSUME NEW m \in Requests, NEW ok \in BOOLEAN, NEW h \in {0} \cup HwIds,
           ok => h \in HwIds, m.op # "add" => h = m.hwId, m.then.for # "nobody"
    PROVE  [type |-> "answer", ok |-> ok, hwId |-> h, to |-> m] \in Answers
           /\ [type |-> "answer", ok |-> ok, hwId |-> h, to |-> m] \in AdapterMessages
BY DEF Answers, AdapterMessages

LEMMA FenceFields ==
    ASSUME NEW fence \in Fence \cup {NoFence}
    PROVE  /\ fence # NoFence <=> fence \in Fence
           /\ fence # NoFence => fence.id \in Ids /\ fence.opt \in Options
           /\ fence = NoFence => fence.id = 0
           /\ fence.paused \in BOOLEAN
           /\ fence.id \in {0} \cup Ids
           /\ fence # NoFence =>
                 /\ [fence EXCEPT !.paused = TRUE] \in Fence /\ [fence EXCEPT !.paused = FALSE] \in Fence
                 /\ \A opt \in Options : [fence EXCEPT !.opt = opt] \in Fence
                                         /\ [fence EXCEPT !.opt = opt].id = fence.id
                                         /\ [fence EXCEPT !.opt = opt].opt = opt
                 /\ [fence EXCEPT !.paused = TRUE].id = fence.id /\ [fence EXCEPT !.paused = FALSE].id = fence.id
                 /\ [fence EXCEPT !.paused = TRUE].opt = fence.opt /\ [fence EXCEPT !.paused = FALSE].opt = fence.opt
<1>1. CASE fence = NoFence
  BY <1>1, Numbers DEF NoFence
<1>2. CASE fence # NoFence
  BY <1>2, Numbers DEF Fence
<1> QED BY <1>1, <1>2

-----------------------------------------------------------------------------
(* The life of a command: it waits, then its items have turns, one after the *)
(* other, and the last item ends it.  Stated of any commands bs and any two  *)
(* queues, so that a step can be taken apart.                                *)

IsCommand(m, b) == m.type = "command" /\ m.batch = b
TurnBackIn(aq, b) == \E m \in Elements(aq) : m.type = "turn" /\ m.batch = b
TurnIn(pq, b) == \E m \in Elements(pq) : m.op = "turn" /\ m.batch = b
HasTurn(aq, pq, b) == TurnBackIn(aq, b) \/ TurnIn(pq, b)

IsItem(m, b) == m.op \in Commands /\ m.then.for = "item" /\ m.then.batch = b
AnswerIn(aq, b) == \E m \in Elements(aq) : m.type = "answer" /\ IsItem(m.to, b)
RequestIn(pq, b) == \E m \in Elements(pq) : IsItem(m, b)
HasItem(aq, pq, b) == AnswerIn(aq, b) \/ RequestIn(pq, b)

IsTurnOf(bs, b, i) ==
    /\ b \in 1..Len(bs) /\ ~bs[b].reported
    /\ i \in 1..Len(bs[b].ids)
    /\ Acceptable(bs[b])

\* A command that waits has no turn and no item yet.
CommandsFit(bs, aq, pq) ==
    \A m \in Elements(aq) : m.type = "command" =>
        /\ m.batch \in 1..Len(bs) /\ ~bs[m.batch].reported
        /\ ~HasTurn(aq, pq, m.batch) /\ ~HasItem(aq, pq, m.batch)

CommandsOnce(aq) ==
    \A k, l \in 1..Len(aq) :
        aq[k].type = "command" /\ aq[l].type = "command" /\ aq[k].batch = aq[l].batch => k = l

TurnsFit(bs, aq, pq) ==
    /\ \A m \in Elements(aq) : m.type = "turn" => IsTurnOf(bs, m.batch, m.item)
    /\ \A m \in Elements(pq) : m.op = "turn" => IsTurnOf(bs, m.batch, m.item)

BackInOrder(aq) ==
    \A k, l \in 1..Len(aq) :
        k < l /\ aq[k].type = "turn" /\ aq[l].type = "turn" /\ aq[k].batch = aq[l].batch
            => aq[k].item < aq[l].item
OutInOrder(pq) ==
    \A k, l \in 1..Len(pq) :
        k < l /\ pq[k].op = "turn" /\ pq[l].op = "turn" /\ pq[k].batch = pq[l].batch
            => pq[k].item < pq[l].item
BackBeforeOut(aq, pq) ==
    \A m \in Elements(aq), n \in Elements(pq) :
        m.type = "turn" /\ n.op = "turn" /\ m.batch = n.batch => m.item < n.item

TurnsInOrder(aq, pq) == BackInOrder(aq) /\ OutInOrder(pq) /\ BackBeforeOut(aq, pq)

\* A request or an answer for an item: it is one of its command, and the last one comes
\* after all turns.
ItemFits(bs, aq, pq, m) ==
    m.op \in Commands /\ m.then.for = "item" =>
        LET b == m.then.batch
        IN  /\ b \in 1..Len(bs)
            /\ ~bs[b].reported =>
                  /\ m.op = bs[b].op /\ m.then.item \in 1..Len(bs[b].ids)
                  /\ m.then.item = Len(bs[b].ids) => ~HasTurn(aq, pq, b)

ItemsFit(bs, aq, pq) ==
    /\ \A m \in Elements(aq) : m.type = "answer" => ItemFits(bs, aq, pq, m.to)
    /\ \A m \in Elements(pq) : ItemFits(bs, aq, pq, m)

LivesOf(bs, aq, pq) ==
    /\ CommandsFit(bs, aq, pq) /\ CommandsOnce(aq) /\ TurnsFit(bs, aq, pq)
    /\ TurnsInOrder(aq, pq) /\ ItemsFit(bs, aq, pq)

Lives == LivesOf(batches, adapterQ, apiQ)

-----------------------------------------------------------------------------
(* Every step keeps the types.                                              *)

LEMMA InitTypes == Init => Types
<1> SUFFICES ASSUME Init PROVE Types
  OBVIOUS
<1>1. 0 \in 0..MaxCalls
  BY Numbers
<1>2. fences \in [HwIds -> Fence \cup {NoFence}] /\ hwIdOf \in [Ids -> {0} \cup HwIds]
      /\ answered \in [Ids -> {"running", "paused", "removed"}]
  BY DEF Init
<1>3. engine \in [up : BOOLEAN, fences : [HwIds -> Fence \cup {NoFence}]]
  BY DEF Init
<1>4. adapterQ \in Seq(AdapterMessages) /\ apiQ \in Seq(ApiMessages) /\ batches \in Seq(Batches)
      /\ owner \in Seq(Clients) /\ Len(owner) = 0 /\ Len(batches) = 0
  BY DEF Init
<1>5. used \in [calls : 0..MaxCalls, breaches : Nat, refusals : Nat, crashes : Nat] /\ used.calls = 0
  BY <1>1 DEF Init
<1>6. clients \subseteq Clients /\ strayed \in BOOLEAN
  BY DEF Init
<1>7. Len(owner) <= MaxFences /\ Len(batches) <= used.calls
  BY <1>4, <1>5, Numbers
<1> QED BY <1>2, <1>3, <1>4, <1>5, <1>6, <1>7 DEF Types

\* A call counts, and its message is a message.
LEMMA CallCounts ==
    ASSUME Types, NEW c, Calls(c)
    PROVE  /\ used'.calls = used.calls + 1 /\ used.calls + 1 \in 0..MaxCalls
           /\ used' \in [calls : 0..MaxCalls, breaches : Nat, refusals : Nat, crashes : Nat]
           /\ c \in clients /\ c \in Clients
<1>1. used.calls + 1 \in 0..MaxCalls
  BY Numbers DEF Types, Calls
<1> QED BY <1>1 DEF Types, Calls

\* What a command of a client adds: a batch, and a message for it.
NewCommand(op, ids, opt, batch) ==
    /\ batch \in Batches /\ ~batch.reported /\ batch.op = op /\ batch.ids = ids /\ batch.opt = opt
    /\ batches' = Append(batches, batch)
    /\ batches' \in Seq(Batches) /\ Len(batches') = Len(batches) + 1
    /\ Len(batches') <= used'.calls
    /\ \A b \in 1..Len(batches) : batches'[b] = batches[b]
    /\ batches'[Len(batches) + 1] = batch
    /\ [type |-> "command", batch |-> Len(batches) + 1] \in AdapterMessages
    /\ adapterQ' = Append(adapterQ, [type |-> "command", batch |-> Len(batches) + 1])

LEMMA CommandAdds ==
    ASSUME Types, NEW op \in Commands, NEW c, NEW ids \in Seq(Ids), NEW opt \in AllOptions,
           Len(ids) > 0, Len(ids) <= MaxItems,
           \A i, j \in 1..Len(ids) : ids[i] = ids[j] => i = j,
           Command(op, c, ids, opt)
    PROVE  \E batch : NewCommand(op, ids, opt, batch)
<1> DEFINE batch == [op |-> op, client |-> c, ids |-> ids, opt |-> opt,
                     errs |-> [i \in 1..Len(ids) |-> "none"], reported |-> FALSE]
<1>1. Calls(c) /\ batches' = Append(batches, batch)
      /\ adapterQ' = Append(adapterQ, [type |-> "command", batch |-> Len(batches) + 1])
  BY DEF Command
<1>2. /\ used'.calls = used.calls + 1 /\ used.calls + 1 \in 0..MaxCalls /\ c \in Clients
  BY <1>1, CallCounts
<1>3. batch \in Batches /\ ~batch.reported /\ batch.op = op /\ batch.ids = ids /\ batch.opt = opt
  <2>1. [i \in 1..Len(ids) |-> "none"] \in Seq(Errors) /\ Len([i \in 1..Len(ids) |-> "none"]) = Len(ids)
    BY DEF Errors
  <2> QED BY <1>2, <2>1 DEF Batches
<1> HIDE DEF batch
<1>4. batches \in Seq(Batches) /\ Len(batches) \in Nat /\ Len(batches) <= used.calls /\ used.calls \in Nat
  BY DEF Types
<1>5. batches' \in Seq(Batches) /\ Len(batches') = Len(batches) + 1
      /\ (\A b \in 1..Len(batches) : batches'[b] = batches[b])
      /\ batches'[Len(batches) + 1] = batch
  BY <1>1, <1>3, <1>4, Appended
<1>6. Len(batches) + 1 \in 0..MaxCalls
  BY <1>2, <1>4, Numbers
<1>7. [type |-> "command", batch |-> Len(batches) + 1] \in AdapterMessages
  BY <1>6 DEF AdapterMessages, CommandMessages
<1>8. NewCommand(op, ids, opt, batch)
  BY <1>1, <1>2, <1>3, <1>4, <1>5, <1>7 DEF NewCommand
<1> QED BY <1>8

LEMMA AddedIds ==
    ASSUME Types, NEW n \in 1..MaxItems, Len(owner) + n <= MaxFences
    PROVE  LET ids == [i \in 1..n |-> Len(owner) + i]
           IN  /\ ids \in Seq(Ids) /\ Len(ids) = n
               /\ \A i, j \in 1..Len(ids) : ids[i] = ids[j] => i = j
               /\ \A i \in 1..n : ids[i] = Len(owner) + i
<1>1. Len(owner) \in Nat /\ n \in Nat /\ MaxFences \in Nat
  BY Numbers DEF Types
<1>2. \A i \in 1..n : Len(owner) + i \in Ids
  BY <1>1 DEF Ids
<1> QED BY <1>1, <1>2

LEMMA NamedIds ==
    ASSUME Types, NEW c, NEW n \in 1..MaxItems, NEW ids \in [1..n -> OwnIds(c)],
           \A i, j \in 1..n : i < j => ids[i] < ids[j]
    PROVE  /\ ids \in Seq(Ids) /\ Len(ids) = n
           /\ \A i, j \in 1..Len(ids) : ids[i] = ids[j] => i = j
           /\ \A i \in 1..n : ids[i] \in 1..Len(owner)
<1>1. Len(owner) \in Nat /\ n \in Nat /\ MaxFences \in Nat /\ Len(owner) <= MaxFences
  BY Numbers DEF Types
<1>2. OwnIds(c) \subseteq Ids /\ OwnIds(c) \subseteq 1..Len(owner) /\ Ids \subseteq Nat
  BY <1>1 DEF OwnIds, Ids
<1>3. ids \in Seq(Ids) /\ Len(ids) = n
  BY <1>1, <1>2
<1>4. \A i \in 1..n : ids[i] \in Nat
  BY <1>2
<1>5. \A i, j \in 1..n : ids[i] = ids[j] => i = j
  BY <1>1, <1>4
<1> QED BY <1>2, <1>3, <1>5

LEMMA AddGeofencesTypes == Types /\ AddGeofences => Types'
<1> SUFFICES ASSUME Types, AddGeofences PROVE Types'
  OBVIOUS
<1>1. PICK c \in Clients, n \in 1..MaxItems, opt \in AddOptions :
        /\ Len(owner) + n <= MaxFences
        /\ owner' = owner \o [i \in 1..n |-> c]
        /\ Command("add", c, [i \in 1..n |-> Len(owner) + i], opt)
  BY DEF AddGeofences
<1>2. owner' \in Seq(Clients) /\ Len(owner') = Len(owner) + n
  BY <1>1 DEF Types
<1>3. batches' \in Seq(Batches) /\ Len(batches') <= used'.calls
      /\ \E m \in AdapterMessages : adapterQ' = Append(adapterQ, m)
  <2>1. "add" \in Commands /\ opt \in AllOptions /\ n > 0 /\ n <= MaxItems
    BY Numbers DEF Commands, AllOptions, Options
  <2> DEFINE ids == [i \in 1..n |-> Len(owner) + i]
  <2>2. ids \in Seq(Ids) /\ Len(ids) = n /\ \A i, j \in 1..Len(ids) : ids[i] = ids[j] => i = j
    BY <1>1, AddedIds
  <2>3. Command("add", c, ids, opt)
    BY <1>1
  <2> HIDE DEF ids
  <2> QED BY <2>1, <2>2, <2>3, CommandAdds DEF NewCommand
<1>4. adapterQ' \in Seq(AdapterMessages)
  BY <1>3, Appended DEF Types
<1>5. used' \in [calls : 0..MaxCalls, breaches : Nat, refusals : Nat, crashes : Nat]
  BY <1>1, CallCounts DEF Command
<1>6. UNCHANGED <<fences, hwIdOf, clients, apiQ, engine, strayed, answered>>
  BY <1>1 DEF Command, maps, engineSide
<1> QED BY <1>1, <1>2, <1>3, <1>4, <1>5, <1>6 DEF Types

LEMMA OtherCommandTypes == Types /\ OtherCommand => Types'
<1> SUFFICES ASSUME Types, OtherCommand PROVE Types'
  OBVIOUS
<1>1. PICK c \in Clients, op \in Commands \ {"add"} :
        \E n \in 1..MaxItems, opt \in IF op = "modify" THEN ModifyOptions ELSE {NoOptions} :
            \E ids \in [1..n -> OwnIds(c)] :
                /\ \A i, j \in 1..n : i < j => ids[i] < ids[j]
                /\ Command(op, c, ids, opt)
                /\ UNCHANGED owner
  BY DEF OtherCommand
<1>2. PICK n \in 1..MaxItems, opt \in IF op = "modify" THEN ModifyOptions ELSE {NoOptions} :
            \E ids \in [1..n -> OwnIds(c)] :
                /\ \A i, j \in 1..n : i < j => ids[i] < ids[j]
                /\ Command(op, c, ids, opt)
                /\ UNCHANGED owner
  BY <1>1
<1>3. PICK ids \in [1..n -> OwnIds(c)] :
                /\ \A i, j \in 1..n : i < j => ids[i] < ids[j]
                /\ Command(op, c, ids, opt)
                /\ UNCHANGED owner
  BY <1>2
<1>4. batches' \in Seq(Batches) /\ Len(batches') <= used'.calls
      /\ \E m \in AdapterMessages : adapterQ' = Append(adapterQ, m)
  <2>1. op \in Commands /\ opt \in AllOptions /\ n > 0 /\ n <= MaxItems
    BY Numbers DEF AllOptions, Options
  <2>2. ids \in Seq(Ids) /\ Len(ids) = n /\ \A i, j \in 1..Len(ids) : ids[i] = ids[j] => i = j
    BY <1>3, NamedIds
  <2> QED BY <1>3, <2>1, <2>2, CommandAdds DEF NewCommand
<1>5. adapterQ' \in Seq(AdapterMessages)
  BY <1>4, Appended DEF Types
<1>6. used' \in [calls : 0..MaxCalls, breaches : Nat, refusals : Nat, crashes : Nat]
  BY <1>3, CallCounts DEF Command
<1>7. UNCHANGED <<fences, hwIdOf, clients, apiQ, engine, strayed, answered>>
  BY <1>3 DEF Command, maps, engineSide
<1> QED BY <1>3, <1>4, <1>5, <1>6, <1>7 DEF Types

LEMMA RemoveClientTypes == Types /\ RemoveClient => Types'
<1> SUFFICES ASSUME Types, RemoveClient PROVE Types'
  OBVIOUS
<1>1. PICK c \in clients :
        /\ Calls(c)
        /\ adapterQ' = Append(adapterQ, [type |-> "removeClient", client |-> c])
        /\ UNCHANGED <<maps, clients, owner, batches, engineSide, answered>>
  BY DEF RemoveClient
<1>2. [type |-> "removeClient", client |-> c] \in AdapterMessages
  BY DEF Types, AdapterMessages, RemoveMessages
<1>3. adapterQ' \in Seq(AdapterMessages)
  BY <1>1, <1>2, Appended DEF Types
<1>4. used' \in [calls : 0..MaxCalls, breaches : Nat, refusals : Nat, crashes : Nat]
      /\ used'.calls = used.calls + 1 /\ used.calls \in Nat /\ Len(batches) \in Nat
  BY <1>1, CallCounts DEF Types
<1> QED BY <1>1, <1>3, <1>4 DEF Types, maps, engineSide

\* What happens to a command when something is noted of an item, or when an item is done.
Same(batch, was) ==
    batch.op = was.op /\ batch.ids = was.ids /\ batch.opt = was.opt /\ batch.reported = was.reported

LEMMA NotedKeeps ==
    ASSUME Types, NEW b \in 1..Len(batches), ~batches[b].reported,
           NEW i \in 1..Len(batches[b].ids), NEW err \in Errors
    PROVE  /\ Noted(b, i, err) \in Seq(Batches) /\ Len(Noted(b, i, err)) = Len(batches)
           /\ \A c \in 1..Len(batches) : c # b => Noted(b, i, err)[c] = batches[c]
           /\ Same(Noted(b, i, err)[b], batches[b])
<1> DEFINE batch == batches[b]
           new == [batch EXCEPT !.errs[i] = err]
<1>1. batches \in Seq(Batches) /\ batch \in Batches
  BY DEF Types
<1>2. Noted(b, i, err) = [batches EXCEPT ![b] = new]
  BY <1>1 DEF Noted
<1>3. new \in Batches /\ Same(new, batch)
  <2>1. batch.errs \in Seq(Errors) /\ Len(batch.errs) = Len(batch.ids) /\ i \in 1..Len(batch.errs)
    BY <1>1, BatchFields
  <2>2. [batch.errs EXCEPT ![i] = err] \in Seq(Errors)
        /\ Len([batch.errs EXCEPT ![i] = err]) = Len(batch.ids)
    BY <2>1
  <2>3. new = [batch EXCEPT !.errs = [batch.errs EXCEPT ![i] = err]]
    BY <1>1 DEF Batches
  <2>4. /\ new \in [op : Commands \cup {"deleted"}, client : Clients \cup {Nobody}, ids : Seq(Ids),
                    opt : AllOptions, errs : Seq(Errors), reported : BOOLEAN]
        /\ new.op = batch.op /\ new.ids = batch.ids /\ new.opt = batch.opt
        /\ new.reported = batch.reported /\ new.client = batch.client
        /\ new.errs = [batch.errs EXCEPT ![i] = err]
    BY <1>1, <2>2, <2>3 DEF Batches
  <2> QED BY <1>1, <2>2, <2>4 DEF Batches, Same
<1> HIDE DEF new
<1> QED BY <1>1, <1>2, <1>3

LEMMA DeletedIsBatch == Deleted \in Batches /\ Deleted.reported /\ Deleted.ids = <<>> /\ Deleted.op = "deleted"
<1>1. <<>> \in Seq(Ids) /\ <<>> \in Seq(Errors) /\ Len(<<>>) = 0 /\ 0 <= MaxItems
  BY Numbers
<1> QED BY <1>1 DEF Deleted, Batches, AllOptions

LEMMA FinishedKeeps ==
    ASSUME Types, NEW b \in 1..Len(batches), NEW i,
           ~batches[b].reported => i \in 1..Len(batches[b].ids), NEW err \in Errors
    PROVE  LET new == Finished(b, i, err)
           IN  /\ new \in Seq(Batches) /\ Len(new) = Len(batches)
               /\ \A c \in 1..Len(batches) : c # b => new[c] = batches[c]
               /\ ~batches[b].reported /\ i = Len(batches[b].ids) => new[b] = Deleted
               /\ batches[b].reported \/ i # Len(batches[b].ids) => Same(new[b], batches[b])
<1>1. batches \in Seq(Batches) /\ batches[b].reported \in BOOLEAN
  BY BatchFields DEF Types
<1>2. CASE batches[b].reported
  BY <1>1, <1>2 DEF Finished, Same
<1>3. CASE ~batches[b].reported /\ i = Len(batches[b].ids)
  BY <1>1, <1>3, DeletedIsBatch DEF Finished, IsLast
<1>4. CASE ~batches[b].reported /\ i # Len(batches[b].ids)
  <2>1. Finished(b, i, err) = Noted(b, i, err)
    BY <1>4 DEF Finished, IsLast
  <2> QED BY <1>4, <2>1, NotedKeeps
<1> QED BY <1>1, <1>2, <1>3, <1>4

\* The adapter thread takes the first message.
LEMMA Taken ==
    ASSUME Types, adapterQ # <<>>
    PROVE  /\ Head(adapterQ) \in AdapterMessages /\ Head(adapterQ) = adapterQ[1]
           /\ Head(adapterQ) \in Elements(adapterQ)
           /\ 1 \in 1..Len(adapterQ) /\ Len(adapterQ) \in Nat \ {0}
           /\ Tail(adapterQ) \in Seq(AdapterMessages) /\ Len(Tail(adapterQ)) = Len(adapterQ) - 1
           /\ \A k \in 1..Len(Tail(adapterQ)) :
                 k + 1 \in 1..Len(adapterQ) /\ Tail(adapterQ)[k] = adapterQ[k + 1]
<1>1. adapterQ \in Seq(AdapterMessages)
  BY DEF Types
<1>2. Len(adapterQ) \in Nat \ {0}
  BY <1>1, Shortened
<1> QED BY <1>1, <1>2, Shortened, ElementsOfTail

\* The API thread does.
LEMMA ApiTaken ==
    ASSUME Types, apiQ # <<>>
    PROVE  /\ Head(apiQ) \in ApiMessages /\ Head(apiQ) = apiQ[1]
           /\ Head(apiQ) \in Elements(apiQ)
           /\ 1 \in 1..Len(apiQ) /\ Len(apiQ) \in Nat \ {0}
           /\ Tail(apiQ) \in Seq(ApiMessages) /\ Len(Tail(apiQ)) = Len(apiQ) - 1
           /\ \A k \in 1..Len(Tail(apiQ)) : k + 1 \in 1..Len(apiQ) /\ Tail(apiQ)[k] = apiQ[k + 1]
<1>1. apiQ \in Seq(ApiMessages)
  BY DEF Types
<1>2. Len(apiQ) \in Nat \ {0}
  BY <1>1, Shortened
<1> QED BY <1>1, <1>2, Shortened, ElementsOfTail

\* The turns of a command's items, all at once.
LEMMA CommandHandled ==
    ASSUME Types, Lives, HandleCommand
    PROVE  \E b \in 1..Len(batches), turns \in Seq(ApiMessages) :
              /\ Head(adapterQ).type = "command" /\ Head(adapterQ).batch = b
              /\ ~batches[b].reported /\ batches[b] \in Batches
              /\ adapterQ # <<>> /\ adapterQ' = Tail(adapterQ)
              /\ apiQ' = apiQ \o turns
              /\ \A k \in 1..Len(turns) :
                    turns[k] = Turn(b, k) /\ turns[k].op = "turn" /\ turns[k].batch = b /\ turns[k].item = k
              /\ Acceptable(batches[b]) => Len(turns) = Len(batches[b].ids)
              /\ ~Acceptable(batches[b]) => turns = <<>>
              /\ Len(turns) <= Len(batches[b].ids)
<1> DEFINE b == Head(adapterQ).batch
           turns == IF Acceptable(batches[b]) THEN [i \in 1..Len(batches[b].ids) |-> Turn(b, i)] ELSE <<>>
<1>1. adapterQ # <<>> /\ Head(adapterQ).type = "command" /\ adapterQ' = Tail(adapterQ)
  BY DEF HandleCommand, Take
<1>2. b \in 1..Len(batches) /\ ~batches[b].reported /\ b \in 0..MaxCalls
  BY <1>1, Taken, AdapterFields DEF Lives, LivesOf, CommandsFit
<1>3. batches[b] \in Batches /\ Len(batches[b].ids) <= MaxItems /\ Len(batches[b].ids) \in Nat
  BY <1>2, BatchFields DEF Types
<1>4. \A i \in 1..Len(batches[b].ids) : Turn(b, i) \in ApiMessages
  BY <1>2, <1>3, Numbers DEF Turn, ApiMessages, Turns
<1>5. apiQ' = apiQ \o turns
  <2>1. apiQ \in Seq(ApiMessages)
    BY DEF Types
  <2>2. apiQ \o <<>> = apiQ
    BY <2>1
  <2> QED BY <2>2 DEF HandleCommand
<1>6. turns \in Seq(ApiMessages) /\ Len(turns) <= Len(batches[b].ids)
      /\ (\A k \in 1..Len(turns) : turns[k] = Turn(b, k))
      /\ (Acceptable(batches[b]) => Len(turns) = Len(batches[b].ids))
      /\ (~Acceptable(batches[b]) => turns = <<>>)
  BY <1>3, <1>4
<1>7. \A k : Turn(b, k).op = "turn" /\ Turn(b, k).batch = b /\ Turn(b, k).item = k
  BY DEF Turn
<1>8. Head(adapterQ).batch = b
  OBVIOUS
<1> HIDE DEF b, turns
<1>9. \A k \in 1..Len(turns) :
          turns[k] = Turn(b, k) /\ turns[k].op = "turn" /\ turns[k].batch = b /\ turns[k].item = k
  BY <1>6, <1>7
<1> QED BY <1>1, <1>2, <1>3, <1>5, <1>6, <1>8, <1>9

LEMMA HandleCommandTypes == Types /\ Lives /\ HandleCommand => Types'
<1> SUFFICES ASSUME Types, Lives, HandleCommand PROVE Types'
  OBVIOUS
<1>1. adapterQ' \in Seq(AdapterMessages) /\ apiQ' \in Seq(ApiMessages)
  <2>1. PICK turns \in Seq(ApiMessages) :
           adapterQ # <<>> /\ adapterQ' = Tail(adapterQ) /\ apiQ' = apiQ \o turns
    BY CommandHandled
  <2> QED BY <2>1, Taken, Joined DEF Types
<1> QED BY <1>1 DEF Types, HandleCommand, maps

\* An item's turn: its request is sent, or there is nothing to ask the engine.
LEMMA TurnHandled ==
    ASSUME Types, Lives, HandleTurn
    PROVE  \E b \in 1..Len(batches), i \in 1..MaxItems :
              /\ Head(adapterQ).type = "turn" /\ Head(adapterQ).batch = b /\ Head(adapterQ).item = i
              /\ IsTurnOf(batches, b, i) /\ batches[b] \in Batches /\ batches[b].ids[i] \in Ids
              /\ batches' \in Seq(Batches) /\ Len(batches') = Len(batches)
              /\ \A c \in 1..Len(batches) : c # b => batches'[c] = batches[c]
              /\ adapterQ # <<>> /\ adapterQ' = Tail(adapterQ)
              /\ UNCHANGED <<maps, clients, owner, engine, strayed, answered, used>>
              /\ \/ \E r \in Requests :
                       /\ r \in ApiMessages /\ apiQ' = Append(apiQ, r)
                       /\ r.op = batches[b].op /\ r.id = batches[b].ids[i] /\ r.then = ForItem(b, i)
                       /\ r.op # "add" => r.hwId = hwIdOf[r.id]
                       /\ Same(batches'[b], batches[b])
                 \/ /\ batches[b].op # "add" /\ apiQ' = apiQ
                    /\ i # Len(batches[b].ids) => Same(batches'[b], batches[b])
                    /\ i = Len(batches[b].ids) => batches'[b] = Deleted
<1> DEFINE b == Head(adapterQ).batch
           i == Head(adapterQ).item
           batch == batches[b]
           id == batch.ids[i]
<1>1. adapterQ # <<>> /\ Head(adapterQ).type = "turn" /\ adapterQ' = Tail(adapterQ)
      /\ UNCHANGED <<maps, clients, owner, engine, strayed, answered, used>>
  BY DEF HandleTurn, Take
<1>2. b \in 0..MaxCalls /\ i \in 1..MaxItems /\ IsTurnOf(batches, b, i)
  BY <1>1, Taken, AdapterFields DEF Lives, LivesOf, TurnsFit
<1>3. /\ b \in 1..Len(batches) /\ batch \in Batches /\ id \in Ids /\ i \in 1..Len(batch.ids)
      /\ batch.op \in Commands /\ ~batch.reported /\ batch.opt \in AllOptions
      /\ (batch.op \in {"add", "modify"} => batch.opt \in Options)
  <2>1. b \in 1..Len(batches) /\ ~batch.reported /\ i \in 1..Len(batch.ids) /\ Acceptable(batch)
    BY <1>2 DEF IsTurnOf
  <2>2. batch \in Batches
    BY <2>1 DEF Types
  <2> QED BY <2>1, <2>2, BatchFields DEF Acceptable, AllOptions
<1>4. ForItem(b, i) \in Thens /\ ForItem(b, i).for = "item"
  BY <1>2, Purposes
<1>5. batches \in Seq(Batches) /\ hwIdOf[id] \in {0} \cup HwIds
  BY <1>3 DEF Types
<1>6. \/ /\ batch.op = "add"
         /\ apiQ' = Append(apiQ, Request("add", 0, id, batch.opt, ForItem(b, i)))
         /\ batches' = batches
      \/ /\ batch.op # "add" /\ hwIdOf[id] # 0
         /\ apiQ' = Append(apiQ, Request(batch.op, hwIdOf[id], id, batch.opt, ForItem(b, i)))
         /\ batches' = Noted(b, i, "success")
      \/ /\ batch.op # "add" /\ hwIdOf[id] = 0
         /\ batches' = Finished(b, i, "unknown")
         /\ apiQ' = apiQ
  BY DEF HandleTurn
<1>7. Head(adapterQ).batch = b /\ Head(adapterQ).item = i /\ batch = batches[b] /\ id = batches[b].ids[i]
  OBVIOUS
<1> HIDE DEF b, i, batch, id
<1>8. CASE /\ batch.op = "add"
           /\ apiQ' = Append(apiQ, Request("add", 0, id, batch.opt, ForItem(b, i)))
           /\ batches' = batches
  <2> DEFINE r == Request("add", 0, id, batch.opt, ForItem(b, i))
  <2>1. r \in Requests /\ r \in ApiMessages /\ r.op = "add" /\ r.id = id /\ r.then = ForItem(b, i)
    <3>1. /\ "add" \in Commands /\ 0 \in {0} \cup HwIds /\ id \in Ids
          /\ batch.opt \in AllOptions /\ batch.opt \in Options
          /\ ForItem(b, i) \in Thens /\ ForItem(b, i).for = "item"
      BY <1>3, <1>4, <1>8 DEF Commands
    <3>2. LET q == Request("add", 0, id, batch.opt, ForItem(b, i))
          IN  q \in Requests /\ q \in ApiMessages /\ q.op = "add" /\ q.id = id /\ q.then = ForItem(b, i)
      BY <3>1, RequestsMade, SMTT(20)
    <3> QED BY <3>2
  <2>2. Same(batches'[b], batches[b]) /\ apiQ' = Append(apiQ, r)
    BY <1>8 DEF Same
  <2> HIDE DEF r
  <2>3. \E q \in Requests :
            /\ q \in ApiMessages /\ apiQ' = Append(apiQ, q)
            /\ q.op = batches[b].op /\ q.id = batches[b].ids[i] /\ q.then = ForItem(b, i)
            /\ q.op # "add" => q.hwId = hwIdOf[q.id]
            /\ Same(batches'[b], batches[b])
    BY <1>7, <1>8, <2>1, <2>2
  <2> QED BY <1>1, <1>2, <1>3, <1>5, <1>7, <1>8, <2>3
<1>9. CASE /\ batch.op # "add" /\ hwIdOf[id] # 0
           /\ apiQ' = Append(apiQ, Request(batch.op, hwIdOf[id], id, batch.opt, ForItem(b, i)))
           /\ batches' = Noted(b, i, "success")
  <2> DEFINE r == Request(batch.op, hwIdOf[id], id, batch.opt, ForItem(b, i))
  <2>1. /\ r \in Requests /\ r \in ApiMessages /\ r.op = batch.op /\ r.id = id
        /\ r.then = ForItem(b, i) /\ r.hwId = hwIdOf[id]
    <3>1. /\ batch.op \in Commands /\ batch.op # "add" /\ hwIdOf[id] \in HwIds /\ id \in Ids
          /\ batch.opt \in AllOptions /\ (batch.op \in {"add", "modify"} => batch.opt \in Options)
          /\ ForItem(b, i) \in Thens /\ ForItem(b, i).for = "item"
      BY <1>3, <1>4, <1>5, <1>9
    <3>2. LET q == Request(batch.op, hwIdOf[id], id, batch.opt, ForItem(b, i))
          IN  q \in Requests /\ q \in ApiMessages /\ q.op = batch.op /\ q.id = id
              /\ q.then = ForItem(b, i) /\ q.hwId = hwIdOf[id]
      BY <3>1, RequestsMade, SMTT(20)
    <3> QED BY <3>2
  <2>2. apiQ' = Append(apiQ, r)
    BY <1>9
  <2>3. /\ batches' \in Seq(Batches) /\ Len(batches') = Len(batches)
        /\ \A c \in 1..Len(batches) : c # b => batches'[c] = batches[c]
        /\ Same(batches'[b], batches[b])
    BY <1>3, <1>7, <1>9, NotedKeeps DEF Errors
  <2> HIDE DEF r
  <2>4. \E q \in Requests :
            /\ q \in ApiMessages /\ apiQ' = Append(apiQ, q)
            /\ q.op = batches[b].op /\ q.id = batches[b].ids[i] /\ q.then = ForItem(b, i)
            /\ q.op # "add" => q.hwId = hwIdOf[q.id]
            /\ Same(batches'[b], batches[b])
    BY <1>7, <2>1, <2>2, <2>3
  <2> QED BY <1>1, <1>2, <1>3, <1>7, <2>3, <2>4
<1>10. CASE /\ batch.op # "add" /\ hwIdOf[id] = 0
            /\ batches' = Finished(b, i, "unknown")
            /\ apiQ' = apiQ
  <2>1. /\ batches' \in Seq(Batches) /\ Len(batches') = Len(batches)
        /\ \A c \in 1..Len(batches) : c # b => batches'[c] = batches[c]
        /\ i # Len(batches[b].ids) => Same(batches'[b], batches[b])
        /\ i = Len(batches[b].ids) => batches'[b] = Deleted
    <3>1. /\ b \in 1..Len(batches) /\ i \in 1..Len(batches[b].ids) /\ ~batches[b].reported
          /\ "unknown" \in Errors
      BY <1>3, <1>7 DEF Errors
    <3> QED BY <1>3, <1>7, <1>10, <3>1, FinishedKeeps
  <2> QED BY <1>1, <1>2, <1>3, <1>7, <1>10, <2>1
<1> QED BY <1>6, <1>8, <1>9, <1>10

LEMMA HandleTurnTypes == Types /\ Lives /\ HandleTurn => Types'
<1> SUFFICES ASSUME Types, Lives, HandleTurn PROVE Types'
  OBVIOUS
<1>1. /\ batches' \in Seq(Batches) /\ Len(batches') = Len(batches)
      /\ adapterQ # <<>> /\ adapterQ' = Tail(adapterQ)
      /\ UNCHANGED <<maps, clients, owner, engine, strayed, answered, used>>
      /\ \/ \E r \in ApiMessages : apiQ' = Append(apiQ, r)
         \/ apiQ' = apiQ
  BY TurnHandled
<1>2. adapterQ' \in Seq(AdapterMessages)
  BY <1>1, Taken
<1>3. apiQ' \in Seq(ApiMessages)
  <2>1. apiQ \in Seq(ApiMessages)
    BY DEF Types
  <2> QED BY <1>1, <2>1, Appended
<1> QED BY <1>1, <1>2, <1>3 DEF Types, maps

\* The maps after an answer that the engine agreed: what is kept under a hardware id, and
\* what an id is called.
LEMMA SaveTypes ==
    ASSUME Types, NEW id \in Ids, NEW h \in HwIds, NEW opt \in Options, SaveItem(id, h, opt)
    PROVE  /\ fences' \in [HwIds -> Fence \cup {NoFence}] /\ hwIdOf' \in [Ids -> {0} \cup HwIds]
           /\ fences'[h].id = id /\ fences'[h].opt = opt /\ hwIdOf'[id] = h
           /\ \A g \in HwIds : g # h => fences'[g] = fences[g]
           /\ \A x \in Ids : x # id => hwIdOf'[x] = hwIdOf[x]
<1>1. [id |-> id, opt |-> opt, paused |-> FALSE] \in Fence
  BY DEF Fence
<1> QED BY <1>1 DEF SaveItem, Types

LEMMA RemoveTypes ==
    ASSUME Types, NEW h \in HwIds, RemoveItem(h)
    PROVE  /\ fences' \in [HwIds -> Fence \cup {NoFence}] /\ hwIdOf' \in [Ids -> {0} \cup HwIds]
           /\ \A g \in HwIds : g # h => fences'[g] = fences[g]
           /\ IF fences[h] # NoFence /\ hwIdOf[fences[h].id] # 0
              THEN /\ fences'[h] = NoFence /\ hwIdOf'[fences[h].id] = 0
                   /\ \A x \in Ids : x # fences[h].id => hwIdOf'[x] = hwIdOf[x]
              ELSE UNCHANGED maps
<1>1. fences[h] # NoFence => fences[h].id \in Ids
  BY FenceFields DEF Types
<1> QED BY <1>1 DEF RemoveItem, Types, maps

LEMMA ChangeTypes ==
    ASSUME Types, NEW h \in HwIds, NEW fence, ChangeItem(h, fence),
           fences[h] # NoFence => fence \in Fence /\ fence.id = fences[h].id
    PROVE  /\ fences' \in [HwIds -> Fence \cup {NoFence}] /\ hwIdOf' = hwIdOf
           /\ \A g \in HwIds : fences'[g].id = fences[g].id
           /\ \A g \in HwIds : fences'[g] = NoFence <=> fences[g] = NoFence
           /\ \A g \in HwIds : g # h => fences'[g] = fences[g]
           /\ fences[h] # NoFence => fences'[h] = fence
           /\ fences[h] = NoFence => fences'[h] = NoFence
<1>1. fence \in Fence => fence # NoFence
  BY Numbers
<1> QED BY <1>1 DEF ChangeItem, Types

\* The answer for an item: what it does in the maps, and to the command.
AnswerEffect(m, ok, h, b) ==
    /\ m \in Requests /\ ok \in BOOLEAN /\ h \in {0} \cup HwIds /\ b \in 1..Len(batches)
    /\ Head(adapterQ).type = "answer" /\ Head(adapterQ).to = m
    /\ Head(adapterQ).ok = ok /\ Head(adapterQ).hwId = h
    /\ m.then.for = "item" /\ m.then.batch = b /\ batches[b] \in Batches
    /\ ~batches[b].reported =>
          m.op = batches[b].op /\ m.then.item \in 1..Len(batches[b].ids)
    /\ adapterQ # <<>> /\ adapterQ' = Tail(adapterQ)
    /\ UNCHANGED <<clients, owner, apiQ, engine, strayed, used>>
    /\ batches' \in Seq(Batches) /\ Len(batches') = Len(batches)
    /\ \A c \in 1..Len(batches) : c # b => batches'[c] = batches[c]
    /\ Same(batches'[b], batches[b]) \/ batches'[b] = Deleted
    /\ m.then.item # Len(batches[b].ids) => Same(batches'[b], batches[b])
    /\ m.op # "resume" /\ m.then.item = Len(batches[b].ids) => batches'[b] = Deleted
    /\ ok => h \in HwIds
    /\ \/ ~ok /\ UNCHANGED maps
       \/ ok /\ m.op = "add" /\ m.opt \in Options /\ SaveItem(m.id, h, m.opt)
       \/ ok /\ m.op = "remove" /\ RemoveItem(h)
       \/ /\ ok /\ m.op \in {"pause", "resume", "modify"}
          /\ \E fence :
                /\ ChangeItem(h, fence)
                /\ fences[h] # NoFence =>
                      /\ fence \in Fence /\ fence.id = fences[h].id
                      /\ fence.opt = IF m.op = "modify" THEN m.opt ELSE fences[h].opt
    /\ answered' = IF ok /\ m.op # "modify"
                   THEN [answered EXCEPT ![m.id] = Agreed(m.op)] ELSE answered

LEMMA AnswerHandled ==
    ASSUME Types, Lives, HandleAnswer
    PROVE  \E m, ok, h, b : AnswerEffect(m, ok, h, b)
<1> DEFINE head == Head(adapterQ)
           m == head.to
           ok == head.ok
           h == head.hwId
           b == m.then.batch
           i == m.then.item
<1>1. adapterQ # <<>> /\ head.type = "answer" /\ adapterQ' = Tail(adapterQ)
      /\ UNCHANGED <<clients, owner, apiQ, engine, strayed, used>>
      /\ m.then.for = "item"
  BY DEF HandleAnswer, Take, TakeAnswer, engineSide
<1>2. /\ m \in Requests /\ ok \in BOOLEAN /\ h \in {0} \cup HwIds /\ (ok => h \in HwIds)
      /\ head = adapterQ[1] /\ 1 \in 1..Len(adapterQ)
  BY <1>1, Taken, AdapterFields
<1>3. /\ b \in 1..Len(batches)
      /\ ~batches[b].reported => m.op = batches[b].op /\ i \in 1..Len(batches[b].ids)
      /\ m.op \in Commands
  <2>1. m.op \in Commands
    BY <1>2, RequestFields
  <2>2. head \in Elements(adapterQ)
    BY <1>1, Taken
  <2>3. ItemFits(batches, adapterQ, apiQ, m)
    BY <1>1, <2>2 DEF Lives, LivesOf, ItemsFit
  <2> QED BY <1>1, <2>1, <2>3 DEF ItemFits
<1>4. batches[b] \in Batches /\ batches \in Seq(Batches)
  BY <1>3 DEF Types
<1>5. /\ Applied(m, ok, h)
      /\ batches' = IF ~ok /\ m.op = "resume" THEN batches
                    ELSE Finished(b, i, IF ok \/ m.op = "modify" THEN "success" ELSE "failure")
      /\ answered' = IF ok /\ m.op # "modify"
                     THEN [answered EXCEPT ![m.id] = Agreed(m.op)] ELSE answered
  BY DEF HandleAnswer
<1>6. head = Head(adapterQ) /\ m = head.to /\ ok = head.ok /\ h = head.hwId
      /\ b = m.then.batch /\ i = m.then.item
  OBVIOUS
<1> HIDE DEF head, m, ok, h, b, i
<1>7. /\ batches' \in Seq(Batches) /\ Len(batches') = Len(batches)
      /\ \A c \in 1..Len(batches) : c # b => batches'[c] = batches[c]
      /\ Same(batches'[b], batches[b]) \/ batches'[b] = Deleted
      /\ i # Len(batches[b].ids) => Same(batches'[b], batches[b])
      /\ m.op # "resume" /\ i = Len(batches[b].ids) => batches'[b] = Deleted
  <2>1. CASE ~ok /\ m.op = "resume"
    BY <1>4, <1>5, <2>1 DEF Same
  <2>2. CASE ~(~ok /\ m.op = "resume")
    <3>1. PICK err \in Errors : batches' = Finished(b, i, err)
      BY <1>5, <2>2 DEF Errors
    <3>2. batches[b].reported => batches[b] = Deleted /\ Same(batches[b], batches[b])
      BY <1>4, BatchFields DEF Same
    <3>3. CASE batches[b].reported
      <4>1. batches' = batches
        BY <3>1, <3>3 DEF Finished
      <4> QED BY <1>4, <3>2, <3>3, <4>1
    <3>4. CASE ~batches[b].reported
      BY <1>3, <3>1, <3>4, FinishedKeeps
    <3> QED BY <3>3, <3>4
  <2> QED BY <2>1, <2>2
<1>8. \/ ~ok /\ UNCHANGED maps
      \/ ok /\ m.op = "add" /\ m.opt \in Options /\ SaveItem(m.id, h, m.opt)
      \/ ok /\ m.op = "remove" /\ RemoveItem(h)
      \/ /\ ok /\ m.op \in {"pause", "resume", "modify"}
         /\ \E fence :
               /\ ChangeItem(h, fence)
               /\ fences[h] # NoFence =>
                     /\ fence \in Fence /\ fence.id = fences[h].id
                     /\ fence.opt = IF m.op = "modify" THEN m.opt ELSE fences[h].opt
  <2>1. CASE ~ok
    BY <1>5, <2>1 DEF Applied
  <2>2. CASE ok
    <3>1. Done(m, h) /\ h \in HwIds
      BY <1>2, <1>5, <2>2 DEF Applied
    <3>2. fences[h] \in Fence \cup {NoFence}
      BY <3>1 DEF Types
    <3>3. m.op = "add" => m.opt \in Options /\ SaveItem(m.id, h, m.opt)
      BY <1>2, <3>1, RequestFields DEF Done
    <3>4. m.op = "remove" => RemoveItem(h)
      BY <3>1 DEF Done
    <3>5. m.op = "pause" => ChangeItem(h, [fences[h] EXCEPT !.paused = TRUE])
      BY <3>1 DEF Done
    <3>6. m.op = "resume" => ChangeItem(h, [fences[h] EXCEPT !.paused = FALSE])
      BY <3>1 DEF Done
    <3>7. m.op = "modify" => m.opt \in Options /\ ChangeItem(h, [fences[h] EXCEPT !.opt = m.opt])
      BY <1>2, <3>1, RequestFields DEF Done
    <3>8. m.op \in {"add", "remove", "pause", "resume", "modify"}
      BY <1>3 DEF Commands
    <3>9. \A opt \in Options : fences[h] # NoFence =>
             /\ [fences[h] EXCEPT !.opt = opt] \in Fence
             /\ [fences[h] EXCEPT !.opt = opt].id = fences[h].id
             /\ [fences[h] EXCEPT !.opt = opt].opt = opt
      BY <3>2, FenceFields
    <3>10. fences[h] # NoFence =>
             /\ [fences[h] EXCEPT !.paused = TRUE] \in Fence
             /\ [fences[h] EXCEPT !.paused = TRUE].id = fences[h].id
             /\ [fences[h] EXCEPT !.paused = TRUE].opt = fences[h].opt
             /\ [fences[h] EXCEPT !.paused = FALSE] \in Fence
             /\ [fences[h] EXCEPT !.paused = FALSE].id = fences[h].id
             /\ [fences[h] EXCEPT !.paused = FALSE].opt = fences[h].opt
      BY <3>2, FenceFields
    <3>11. CASE m.op \in {"add", "remove"}
      BY <2>2, <3>3, <3>4, <3>11
    <3>12. CASE m.op = "pause"
      BY <2>2, <3>5, <3>10, <3>12
    <3>13. CASE m.op = "resume"
      BY <2>2, <3>6, <3>10, <3>13
    <3>14. CASE m.op = "modify"
      BY <2>2, <3>7, <3>9, <3>14
    <3> QED BY <3>8, <3>11, <3>12, <3>13, <3>14
  <2> QED BY <1>2, <2>1, <2>2
<1>9. /\ Head(adapterQ).type = "answer" /\ Head(adapterQ).to = m
      /\ Head(adapterQ).ok = ok /\ Head(adapterQ).hwId = h
      /\ m.then.for = "item" /\ m.then.batch = b /\ m.then.item = i
  BY <1>1, <1>6
<1>10. /\ ~batches[b].reported => m.op = batches[b].op /\ m.then.item \in 1..Len(batches[b].ids)
       /\ m.then.item # Len(batches[b].ids) => Same(batches'[b], batches[b])
       /\ m.op # "resume" /\ m.then.item = Len(batches[b].ids) => batches'[b] = Deleted
  BY <1>3, <1>7, <1>9
<1>11. answered' = IF ok /\ m.op # "modify"
                   THEN [answered EXCEPT ![m.id] = Agreed(m.op)] ELSE answered
  BY <1>5
<1>12. AnswerEffect(m, ok, h, b)
  BY <1>1, <1>2, <1>3, <1>4, <1>7, <1>8, <1>9, <1>10, <1>11 DEF AnswerEffect
<1> QED BY <1>12

LEMMA HandleAnswerTypes == Types /\ Lives /\ HandleAnswer => Types'
<1> SUFFICES ASSUME Types, Lives, HandleAnswer PROVE Types'
  OBVIOUS
<1>0. PICK m, ok, h, b : AnswerEffect(m, ok, h, b)
  BY AnswerHandled
<1>1. /\ m \in Requests /\ adapterQ # <<>> /\ adapterQ' = Tail(adapterQ)
      /\ UNCHANGED <<clients, owner, apiQ, engine, strayed, used>>
      /\ batches' \in Seq(Batches) /\ Len(batches') = Len(batches)
      /\ ok => h \in HwIds
      /\ \/ ~ok /\ UNCHANGED maps
         \/ ok /\ m.op = "add" /\ m.opt \in Options /\ SaveItem(m.id, h, m.opt)
         \/ ok /\ m.op = "remove" /\ RemoveItem(h)
         \/ /\ ok /\ m.op \in {"pause", "resume", "modify"}
            /\ \E fence :
                  /\ ChangeItem(h, fence)
                  /\ fences[h] # NoFence => fence \in Fence /\ fence.id = fences[h].id
      /\ answered' = IF ok /\ m.op # "modify"
                     THEN [answered EXCEPT ![m.id] = Agreed(m.op)] ELSE answered
  BY <1>0 DEF AnswerEffect
<1>2. fences' \in [HwIds -> Fence \cup {NoFence}] /\ hwIdOf' \in [Ids -> {0} \cup HwIds]
  <2>1. CASE UNCHANGED maps
    BY <2>1 DEF Types, maps
  <2>2. CASE ok /\ m.op = "add" /\ m.opt \in Options /\ SaveItem(m.id, h, m.opt)
    BY <1>1, <2>2, SaveTypes, RequestFields
  <2>3. CASE ok /\ RemoveItem(h)
    BY <1>1, <2>3, RemoveTypes
  <2>4. CASE ok /\ \E fence :
                ChangeItem(h, fence) /\ (fences[h] # NoFence => fence \in Fence /\ fence.id = fences[h].id)
    <3>1. hwIdOf' = hwIdOf /\ fences' \in [HwIds -> Fence \cup {NoFence}]
      BY <1>1, <2>4, ChangeTypes
    <3> QED BY <3>1 DEF Types
  <2> QED BY <1>1, <2>1, <2>2, <2>3, <2>4
<1>3. answered' \in [Ids -> {"running", "paused", "removed"}]
  BY <1>1 DEF Types, Agreed
<1>4. adapterQ' \in Seq(AdapterMessages)
  BY <1>1, Taken
<1> QED BY <1>1, <1>2, <1>3, <1>4 DEF Types

\* A client goes: what it has is taken from the engine.
GoneEffect(c, requests) ==
    /\ c \in Clients /\ requests \in Seq(Requests) /\ requests \in Seq(ApiMessages)
    /\ Head(adapterQ) = [type |-> "removeClient", client |-> c]
    /\ adapterQ # <<>> /\ adapterQ' = Tail(adapterQ)
    /\ apiQ' = apiQ \o requests
    /\ \A k \in 1..Len(requests) :
          LET r == requests[k]
          IN  /\ r.op = "remove" /\ r.then = ForGone /\ r.then.for = "gone"
              /\ r.id \in OwnIds(c) /\ r.id \in Ids /\ hwIdOf[r.id] # 0 /\ r.hwId = hwIdOf[r.id]
    /\ \A id \in OwnIds(c) : hwIdOf[id] # 0 =>
          \E k \in 1..Len(requests) : requests[k].id = id
    /\ hwIdOf' \in [Ids -> {0} \cup HwIds]
    /\ \A id \in Ids : hwIdOf'[id] = IF id \in OwnIds(c) THEN 0 ELSE hwIdOf[id]
    /\ clients' = clients \ {c}
    /\ UNCHANGED <<fences, owner, batches, engine, strayed, answered, used>>

LEMMA OwnIdsAreIds ==
    ASSUME Types, NEW c
    PROVE  OwnIds(c) \subseteq Ids /\ OwnIds(c) \subseteq 1..Len(owner)
<1>1. Len(owner) \in Nat /\ Len(owner) <= MaxFences /\ MaxFences \in Nat
  BY Numbers DEF Types
<1> QED BY <1>1 DEF OwnIds, Ids

LEMMA RemoveClientHandled ==
    ASSUME Types, HandleRemoveClient
    PROVE  \E c, requests : GoneEffect(c, requests)
<1> DEFINE c == Head(adapterQ).client
           mine == {id \in OwnIds(c) : hwIdOf[id] # 0}
           N == Cardinality(mine)
           requests == [k \in 1..N |->
                           Request("remove", hwIdOf[Ascending(mine)[k]], Ascending(mine)[k], NoOptions, ForGone)]
<1>1. /\ adapterQ # <<>> /\ Head(adapterQ).type = "removeClient" /\ adapterQ' = Tail(adapterQ)
      /\ apiQ' = apiQ \o requests
      /\ hwIdOf' = [id \in Ids |-> IF id \in mine THEN 0 ELSE hwIdOf[id]]
      /\ clients' = clients \ {c}
      /\ UNCHANGED <<fences, owner, batches, engine, strayed, answered, used>>
  BY DEF HandleRemoveClient, Take
<1>2. Head(adapterQ) = [type |-> "removeClient", client |-> c] /\ c \in Clients
  <2>1. Head(adapterQ) \in AdapterMessages
    BY <1>1, Taken
  <2>2. Head(adapterQ) \in RemoveMessages
    BY <1>1, <2>1
       DEF AdapterMessages, CommandMessages, TurnMessages, Answers, UpMessages, BreachMessages
  <2> QED BY <2>2 DEF RemoveMessages
<1>3. mine \subseteq Ids /\ mine \in SUBSET Nat /\ IsFiniteSet(mine)
  BY OwnIdsAreIds, Numbers, FS_Subset
<1>4. /\ \A k \in 1..N : Ascending(mine)[k] \in mine
      /\ \A id \in mine : \E k \in 1..N : Ascending(mine)[k] = id
      /\ N \in Nat
  BY <1>3, AscendingLists, FS_CardinalityType
<1>5. \A id \in mine : LET r == Request("remove", hwIdOf[id], id, NoOptions, ForGone)
                       IN  /\ r \in Requests /\ r \in ApiMessages /\ r.op = "remove" /\ r.then = ForGone
                           /\ r.then.for = "gone"
                           /\ r.id = id /\ r.hwId = hwIdOf[id]
  <2> TAKE id \in mine
  <2>1. id \in Ids /\ hwIdOf[id] \in HwIds
    BY <1>3 DEF Types
  <2>2. "remove" \in Commands /\ NoOptions \in AllOptions /\ ForGone \in Thens /\ ForGone.for = "gone"
    BY Purposes DEF Commands, AllOptions
  <2>3. PICK h \in HwIds : h = hwIdOf[id]
    BY <2>1
  <2>4. LET r == Request("remove", h, id, NoOptions, ForGone)
        IN  r \in Requests /\ r \in ApiMessages /\ r.op = "remove" /\ r.then = ForGone
            /\ r.id = id /\ r.hwId = h
    <3>1. h \in {0} \cup HwIds
      OBVIOUS
    <3>2. /\ "remove" \in {"add", "modify"} => NoOptions \in Options
          /\ "remove" # "add" => h \in HwIds
          /\ ForGone.for = "restore" =>
                "remove" = "add" /\ ForGone.fence \in Fence /\ ForGone.fence.id = id /\ ForGone.fence.opt = NoOptions
          /\ ForGone.for = "gone" => "remove" = "remove"
          /\ ForGone.for = "nobody" => "remove" = "pause"
      BY <2>2
    <3>3. /\ Request("remove", h, id, NoOptions, ForGone) \in Requests
          /\ Request("remove", h, id, NoOptions, ForGone) \in ApiMessages
          /\ Request("remove", h, id, NoOptions, ForGone).op = "remove"
          /\ Request("remove", h, id, NoOptions, ForGone).id = id
          /\ Request("remove", h, id, NoOptions, ForGone).hwId = h
          /\ Request("remove", h, id, NoOptions, ForGone).then = ForGone
      BY <2>1, <2>2, <3>1, <3>2, RequestsMade
    <3> QED BY <3>3
  <2> QED BY <2>2, <2>3, <2>4
<1>6. hwIdOf' \in [Ids -> {0} \cup HwIds]
      /\ \A id \in Ids : hwIdOf'[id] = IF id \in OwnIds(c) THEN 0 ELSE hwIdOf[id]
  BY <1>1 DEF Types
<1>7. \A id \in OwnIds(c) : hwIdOf[id] # 0 <=> id \in mine
  OBVIOUS
<1>8. /\ Len(requests) = N /\ requests \in Seq(Requests) /\ requests \in Seq(ApiMessages)
      /\ \A k \in 1..N : requests[k] = Request("remove", hwIdOf[Ascending(mine)[k]],
                                               Ascending(mine)[k], NoOptions, ForGone)
  <2> HIDE DEF mine, N
  <2> QED BY <1>4, <1>5
<1> HIDE DEF requests, N
<1>9. \A k \in 1..Len(requests) :
          LET r == requests[k]
          IN  /\ r.op = "remove" /\ r.then = ForGone /\ r.then.for = "gone"
              /\ r.id \in OwnIds(c) /\ r.id \in Ids /\ hwIdOf[r.id] # 0 /\ r.hwId = hwIdOf[r.id]
  <2> TAKE k \in 1..Len(requests)
  <2>1. Ascending(mine)[k] \in mine
    BY <1>4, <1>8
  <2> HIDE DEF mine
  <2>2. LET r == requests[k]
        IN  r.op = "remove" /\ r.then = ForGone /\ r.then.for = "gone" /\ r.id = Ascending(mine)[k] /\ r.hwId = hwIdOf[r.id]
    BY <1>5, <1>8, <2>1
  <2> QED BY <1>3, <1>7, <2>1, <2>2 DEF mine
<1>10. \A id \in OwnIds(c) : hwIdOf[id] # 0 => \E k \in 1..Len(requests) : requests[k].id = id
  <2> HIDE DEF mine
  <2> QED BY <1>4, <1>5, <1>7, <1>8
<1>11. GoneEffect(c, requests)
  <2> HIDE DEF c, mine
  <2> QED BY <1>1, <1>2, <1>6, <1>8, <1>9, <1>10 DEF GoneEffect
<1> QED BY <1>11

LEMMA HandleRemoveClientTypes == Types /\ HandleRemoveClient => Types'
<1> SUFFICES ASSUME Types, HandleRemoveClient PROVE Types'
  OBVIOUS
<1>1. PICK c, requests : GoneEffect(c, requests)
  BY RemoveClientHandled
<1>2. adapterQ' \in Seq(AdapterMessages)
  BY <1>1, Taken DEF GoneEffect
<1>3. apiQ' \in Seq(ApiMessages)
  <2>1. apiQ \in Seq(ApiMessages)
    BY DEF Types
  <2> QED BY <1>1, <2>1, Joined DEF GoneEffect
<1> QED BY <1>1, <1>2, <1>3 DEF GoneEffect, Types

\* The engine is up again: the adapter starts over, and adds what it kept.
RestartEffect(old, requests) ==
    /\ adapterQ # <<>> /\ Head(adapterQ).type = "engineUp" /\ adapterQ' = Tail(adapterQ)
    /\ requests \in Seq(Requests) /\ requests \in Seq(ApiMessages)
    /\ apiQ' = apiQ \o requests
    /\ \A k \in 1..Len(requests) :
          LET r == requests[k]
              fence == fences[old[k]]
          IN  /\ old[k] \in HwIds /\ fence \in Fence
              /\ r.op = "add" /\ r.id = fence.id /\ r.opt = fence.opt
              /\ r.then = ForRestore(fence) /\ r.then.for = "restore"
    /\ \A k, l \in 1..Len(requests) : old[k] = old[l] => k = l
    /\ \A h \in HwIds : fences[h] # NoFence => \E k \in 1..Len(requests) : old[k] = h
    /\ fences' \in [HwIds -> Fence \cup {NoFence}]
    /\ \A h \in HwIds : fences'[h] = NoFence
    /\ hwIdOf' \in [Ids -> {0} \cup HwIds]
    /\ IF \E h \in HwIds : fences[h] # NoFence THEN \A id \in Ids : hwIdOf'[id] = 0 ELSE hwIdOf' = hwIdOf
    /\ UNCHANGED <<clients, owner, batches, engine, strayed, answered, used>>

LEMMA EngineUpHandled ==
    ASSUME Types, HandleEngineUp
    PROVE  \E old, requests : RestartEffect(old, requests)
<1> DEFINE kept == {h \in HwIds : fences[h] # NoFence}
           N == Cardinality(kept)
           old == Ascending(kept)
           Again(fence) == Request("add", 0, fence.id, fence.opt, ForRestore(fence))
           requests == [k \in 1..Len(old) |-> Again(fences[old[k]])]
<1>1. /\ adapterQ # <<>> /\ Head(adapterQ).type = "engineUp" /\ adapterQ' = Tail(adapterQ)
      /\ apiQ' = apiQ \o requests
      /\ fences' = [h \in HwIds |-> NoFence]
      /\ hwIdOf' = IF \E h \in HwIds : fences[h] # NoFence THEN [id \in Ids |-> 0] ELSE hwIdOf
      /\ UNCHANGED <<clients, owner, batches, engine, strayed, answered, used>>
  BY DEF HandleEngineUp, Take, StartOver
<1>2. kept \in SUBSET Nat /\ IsFiniteSet(kept)
  BY Numbers, FS_Subset
<1>3. /\ \A k \in 1..N : old[k] \in kept
      /\ \A k, l \in 1..N : old[k] = old[l] => k = l
      /\ \A h \in kept : \E k \in 1..N : old[k] = h
      /\ N \in Nat /\ Len(old) = N
  BY <1>2, AscendingLists, FS_CardinalityType
<1>4. \A h \in kept : fences[h] \in Fence
  BY DEF Types
<1>5. \A fence \in Fence :
          /\ Again(fence) \in Requests /\ Again(fence) \in ApiMessages /\ Again(fence).op = "add"
          /\ Again(fence).id = fence.id /\ Again(fence).opt = fence.opt
          /\ Again(fence).then = ForRestore(fence) /\ Again(fence).then.for = "restore"
  <2> TAKE fence \in Fence
  <2>1. fence.id \in Ids /\ fence.opt \in Options
    BY DEF Fence
  <2>2. "add" \in Commands /\ fence.opt \in AllOptions /\ ForRestore(fence) \in Thens
        /\ ForRestore(fence).for = "restore" /\ ForRestore(fence).fence = fence
    BY <2>1, Purposes DEF Commands, AllOptions
  <2> QED BY <2>1, <2>2, RequestsMade
<1>6. \A h \in HwIds : fences[h] # NoFence <=> h \in kept
  OBVIOUS
<1>7. fences' \in [HwIds -> Fence \cup {NoFence}] /\ \A h \in HwIds : fences'[h] = NoFence
  BY <1>1
<1>8. /\ hwIdOf' \in [Ids -> {0} \cup HwIds]
      /\ IF \E h \in HwIds : fences[h] # NoFence THEN \A id \in Ids : hwIdOf'[id] = 0 ELSE hwIdOf' = hwIdOf
  BY <1>1 DEF Types
<1>9. kept \subseteq HwIds
  OBVIOUS
<1> HIDE DEF kept, old, N, Again
<1>10. /\ Len(requests) = N /\ requests \in Seq(Requests) /\ requests \in Seq(ApiMessages)
       /\ \A k \in 1..N : requests[k] = Again(fences[old[k]])
  <2>1. \A k \in 1..Len(old) : Again(fences[old[k]]) \in Requests /\ Again(fences[old[k]]) \in ApiMessages
    BY <1>3, <1>4, <1>5
  <2> QED BY <1>3, <2>1
<1> HIDE DEF requests
<1>11. \A k \in 1..Len(requests) :
          LET r == requests[k]
              fence == fences[old[k]]
          IN  /\ old[k] \in HwIds /\ fence \in Fence
              /\ r.op = "add" /\ r.id = fence.id /\ r.opt = fence.opt
              /\ r.then = ForRestore(fence) /\ r.then.for = "restore"
  <2> TAKE k \in 1..Len(requests)
  <2>1. old[k] \in HwIds /\ fences[old[k]] \in Fence /\ requests[k] = Again(fences[old[k]])
    BY <1>3, <1>4, <1>9, <1>10
  <2> QED BY <1>5, <2>1
<1>12. RestartEffect(old, requests)
  BY <1>1, <1>3, <1>6, <1>7, <1>8, <1>10, <1>11 DEF RestartEffect
<1> QED BY <1>12

LEMMA HandleEngineUpTypes == Types /\ HandleEngineUp => Types'
<1> SUFFICES ASSUME Types, HandleEngineUp PROVE Types'
  OBVIOUS
<1>1. PICK old, requests : RestartEffect(old, requests)
  BY EngineUpHandled
<1>2. adapterQ' \in Seq(AdapterMessages)
  BY <1>1, Taken DEF RestartEffect
<1>3. apiQ' \in Seq(ApiMessages)
  <2>1. apiQ \in Seq(ApiMessages)
    BY DEF Types
  <2> QED BY <1>1, <2>1, Joined DEF RestartEffect
<1> QED BY <1>1, <1>2, <1>3 DEF RestartEffect, Types

\* The answers that are no item's.
LEMMA HandleGoneTypes == Types /\ HandleGone => Types'
<1> SUFFICES ASSUME Types, HandleGone PROVE Types'
  OBVIOUS
<1>1. adapterQ # <<>> /\ Head(adapterQ).type = "answer" /\ adapterQ' = Tail(adapterQ)
      /\ UNCHANGED <<hwIdOf, clients, owner, batches, apiQ, engine, strayed, answered, used>>
      /\ fences' = IF Head(adapterQ).ok THEN [fences EXCEPT ![Head(adapterQ).hwId] = NoFence] ELSE fences
  BY DEF HandleGone, Take, TakeAnswer, engineSide
<1>2. adapterQ' \in Seq(AdapterMessages) /\ fences' \in [HwIds -> Fence \cup {NoFence}]
  BY <1>1, Taken DEF Types
<1> QED BY <1>1, <1>2 DEF Types

\* A fence was added again, and is paused again if it was paused.
RestoredEffect(m, ok, h) ==
    /\ m \in Requests /\ ok \in BOOLEAN /\ h \in {0} \cup HwIds /\ (ok => h \in HwIds)
    /\ Head(adapterQ).type = "answer" /\ Head(adapterQ).to = m
    /\ Head(adapterQ).ok = ok /\ Head(adapterQ).hwId = h
    /\ m.then.for = "restore" /\ m.op = "add" /\ m.id \in Ids /\ m.opt \in Options
    /\ adapterQ # <<>> /\ adapterQ' = Tail(adapterQ)
    /\ UNCHANGED <<clients, owner, batches, engine, strayed, answered, used>>
    /\ ok => SaveItem(m.id, h, m.opt)
    /\ ~ok => UNCHANGED maps
    /\ \/ apiQ' = apiQ
       \/ \E r \in Requests :
             /\ r \in ApiMessages /\ apiQ' = Append(apiQ, r)
             /\ r.op = "pause" /\ r.then.for = "nobody" /\ r.id = m.id

LEMMA RestoredHandled ==
    ASSUME Types, HandleRestored
    PROVE  \E m, ok, h : RestoredEffect(m, ok, h)
<1> DEFINE m == Head(adapterQ).to
           ok == Head(adapterQ).ok
           h == Head(adapterQ).hwId
           fence == m.then.fence
<1>1. /\ adapterQ # <<>> /\ Head(adapterQ).type = "answer" /\ adapterQ' = Tail(adapterQ)
      /\ m.then.for = "restore"
      /\ UNCHANGED <<clients, owner, batches, engine, strayed, answered, used>>
      /\ IF ok THEN SaveItem(fence.id, h, fence.opt) /\ apiQ' = Restored(fence, h)
         ELSE UNCHANGED <<maps, apiQ>>
  BY DEF HandleRestored, Take, TakeAnswer
<1>2. m \in Requests /\ ok \in BOOLEAN /\ h \in {0} \cup HwIds /\ (ok => h \in HwIds)
  BY <1>1, Taken, AdapterFields
<1>3. m.op = "add" /\ fence \in Fence /\ fence.id = m.id /\ fence.opt = m.opt /\ m.id \in Ids
      /\ m.opt \in Options
  BY <1>1, <1>2, RequestFields
<1>4. Head(adapterQ).to = m /\ Head(adapterQ).ok = ok /\ Head(adapterQ).hwId = h
  OBVIOUS
<1> HIDE DEF m, ok, h, fence
<1>5. \/ apiQ' = apiQ
      \/ \E r \in Requests :
            /\ r \in ApiMessages /\ apiQ' = Append(apiQ, r)
            /\ r.op = "pause" /\ r.then.for = "nobody" /\ r.id = m.id
  <2>1. CASE ok /\ fence.paused
    <3> DEFINE r == Request("pause", h, fence.id, NoOptions, ForNobody)
    <3>1. apiQ' = Append(apiQ, r)
      BY <1>1, <2>1 DEF Restored
    <3>2. "pause" \in Commands /\ NoOptions \in AllOptions /\ ForNobody \in Thens /\ ForNobody.for = "nobody"
      BY Purposes DEF Commands, AllOptions
    <3>3. r \in Requests /\ r \in ApiMessages /\ r.op = "pause" /\ r.then = ForNobody /\ r.id = m.id
      BY <1>2, <1>3, <2>1, <3>2, RequestsMade
    <3> HIDE DEF r
    <3> QED BY <3>1, <3>2, <3>3
  <2>2. CASE ~(ok /\ fence.paused)
    BY <1>1, <2>2 DEF Restored
  <2> QED BY <2>1, <2>2
<1>6. RestoredEffect(m, ok, h)
  BY <1>1, <1>2, <1>3, <1>4, <1>5 DEF RestoredEffect
<1> QED BY <1>6

LEMMA HandleRestoredTypes == Types /\ HandleRestored => Types'
<1> SUFFICES ASSUME Types, HandleRestored PROVE Types'
  OBVIOUS
<1>1. PICK m, ok, h : RestoredEffect(m, ok, h)
  BY RestoredHandled
<1>2. adapterQ' \in Seq(AdapterMessages)
  BY <1>1, Taken DEF RestoredEffect
<1>3. apiQ' \in Seq(ApiMessages)
  <2>1. apiQ \in Seq(ApiMessages)
    BY DEF Types
  <2>2. CASE apiQ' = apiQ
    BY <2>1, <2>2
  <2>3. CASE \E r \in ApiMessages : apiQ' = Append(apiQ, r)
    BY <2>1, <2>3, Appended
  <2> QED BY <1>1, <2>2, <2>3 DEF RestoredEffect
<1>4. fences' \in [HwIds -> Fence \cup {NoFence}] /\ hwIdOf' \in [Ids -> {0} \cup HwIds]
  <2>1. CASE ok
    <3>1. h \in HwIds /\ m.id \in Ids /\ m.opt \in Options /\ SaveItem(m.id, h, m.opt)
      BY <1>1, <2>1 DEF RestoredEffect
    <3> QED BY <3>1, SaveTypes
  <2>2. CASE ~ok
    BY <1>1, <2>2 DEF RestoredEffect, Types, maps
  <2> QED BY <2>1, <2>2
<1> QED BY <1>1, <1>2, <1>3, <1>4 DEF RestoredEffect, Types

LEMMA HandleBreachTypes == Types /\ HandleBreach => Types'
<1> SUFFICES ASSUME Types, HandleBreach PROVE Types'
  OBVIOUS
<1>1. adapterQ' \in Seq(AdapterMessages)
  BY Taken DEF HandleBreach, Take
<1> QED BY <1>1 DEF Types, HandleBreach, maps, engineSide

-----------------------------------------------------------------------------
(* The API thread.                                                          *)

LEMMA TurnReturns ==
    ASSUME Types, ReturnTurn
    PROVE  \E m \in TurnMessages :
              /\ m \in AdapterMessages /\ m.type = "turn"
              /\ apiQ # <<>> /\ Head(apiQ).op = "turn" /\ apiQ' = Tail(apiQ)
              /\ m.batch = Head(apiQ).batch /\ m.item = Head(apiQ).item
              /\ adapterQ' = Append(adapterQ, m)
              /\ UNCHANGED <<maps, clients, owner, batches, engine, strayed, answered, used>>
<1> DEFINE m == [type |-> "turn", batch |-> Head(apiQ).batch, item |-> Head(apiQ).item]
<1>1. /\ apiQ # <<>> /\ Head(apiQ).op = "turn" /\ apiQ' = Tail(apiQ)
      /\ adapterQ' = Append(adapterQ, m)
      /\ UNCHANGED <<maps, clients, owner, batches, engine, strayed, answered, used>>
  BY DEF ReturnTurn
<1>2. Head(apiQ).batch \in 0..MaxCalls /\ Head(apiQ).item \in 1..MaxItems
  BY <1>1, ApiTaken, ApiFields
<1>3. m \in TurnMessages
  BY <1>2 DEF TurnMessages
<1> QED BY <1>1, <1>3 DEF AdapterMessages

\* Whoever waits for it is sent the answer.
Replies(m, ok, h) ==
    \/ m.then.for = "nobody" /\ adapterQ' = adapterQ
    \/ /\ m.then.for # "nobody"
       /\ \E a \in Answers :
             /\ a \in AdapterMessages /\ adapterQ' = Append(adapterQ, a)
             /\ a.type = "answer" /\ a.ok = ok /\ a.hwId = h /\ a.to = m

LEMMA Replied ==
    ASSUME NEW m \in Requests, NEW ok \in BOOLEAN, NEW h \in {0} \cup HwIds,
           ok => h \in HwIds, m.op # "add" => h = m.hwId, adapterQ' = Answer(m, ok, h)
    PROVE  Replies(m, ok, h)
<1>1. CASE m.then.for = "nobody"
  BY <1>1 DEF Answer, Replies
<1>2. CASE m.then.for # "nobody"
  <2> DEFINE a == [type |-> "answer", ok |-> ok, hwId |-> h, to |-> m]
  <2>1. a \in Answers /\ a \in AdapterMessages
    BY <1>2, AnswersMade
  <2>2. adapterQ' = Append(adapterQ, a) /\ a.type = "answer" /\ a.ok = ok /\ a.hwId = h /\ a.to = m
    BY <1>2 DEF Answer
  <2> QED BY <1>2, <2>1, <2>2 DEF Replies
<1> QED BY <1>1, <1>2

LEMMA RepliesTypes ==
    ASSUME Types, NEW m, NEW ok, NEW h, Replies(m, ok, h)
    PROVE  adapterQ' \in Seq(AdapterMessages)
<1>1. adapterQ \in Seq(AdapterMessages)
  BY DEF Types
<1> QED BY <1>1, Appended DEF Replies

ServeEffect(m, h) ==
    /\ m \in Requests /\ h \in HwIds /\ apiQ # <<>> /\ Head(apiQ) = m /\ apiQ' = Tail(apiQ)
    /\ engine.up /\ engine'.up
    /\ engine' \in [up : BOOLEAN, fences : [HwIds -> Fence \cup {NoFence}]]
    /\ \A g \in HwIds : g # h => engine'.fences[g] = engine.fences[g]
    /\ m.op = "add" => engine.fences[h] = NoFence /\ engine'.fences[h].id = m.id /\ engine'.fences[h].opt = m.opt
    /\ m.op # "add" => engine.fences[h] # NoFence /\ h = m.hwId
    /\ m.op = "remove" => engine'.fences[h] = NoFence
    /\ m.op \in {"pause", "resume", "modify"} =>
          /\ engine'.fences[h].id = engine.fences[h].id
          /\ engine'.fences[h].opt = IF m.op = "modify" THEN m.opt ELSE engine.fences[h].opt
    /\ m.op # "remove" => engine'.fences[h] # NoFence
    /\ engine'.fences[h] = Served(m, h)
    /\ strayed' = (strayed \/ (m.op # "add" /\ engine.fences[h].id # m.id))
    /\ Replies(m, TRUE, h)
    /\ UNCHANGED <<maps, clients, owner, batches, answered, used>>

LEMMA Serves ==
    ASSUME Types, Serve
    PROVE  \E m, h : ServeEffect(m, h)
<1> DEFINE m == Head(apiQ)
<1>1. apiQ # <<>> /\ m.op \in Commands /\ engine.up /\ apiQ' = Tail(apiQ)
      /\ UNCHANGED <<maps, clients, owner, batches, answered, used>>
  BY DEF Serve
<1>2. m \in Requests
  BY <1>1, ApiTaken, ApiFields
<1>3. PICK h \in IF m.op = "add" THEN Free ELSE {h \in {m.hwId} : Held(h)} :
          /\ engine' = [engine EXCEPT !.fences[h] = Served(m, h)]
          /\ strayed' = (strayed \/ (m.op # "add" /\ engine.fences[h].id # m.id))
          /\ adapterQ' = Answer(m, TRUE, h)
  BY DEF Serve
<1>4. m = Head(apiQ)
  OBVIOUS
<1> HIDE DEF m
<1>5. /\ h \in HwIds
      /\ m.op = "add" => engine.fences[h] = NoFence
      /\ m.op # "add" => engine.fences[h] # NoFence /\ h = m.hwId
  <2>1. m.op # "add" => m.hwId \in HwIds
    BY <1>2, RequestFields
  <2> QED BY <1>3, <2>1 DEF Free, Held
<1>6. engine.fences[h] \in Fence \cup {NoFence} /\ engine \in [up : BOOLEAN, fences : [HwIds -> Fence \cup {NoFence}]]
  BY <1>5 DEF Types
<1>7. m.op \in {"add", "remove", "pause", "resume", "modify"} /\ m.id \in Ids
      /\ (m.op \in {"add", "modify"} => m.opt \in Options)
  BY <1>2, RequestFields DEF Commands
<1> DEFINE new == Served(m, h)
           old == engine.fences[h]
<1>9. new = Served(m, h) /\ old = engine.fences[h]
  OBVIOUS
<1> HIDE DEF new, old
<1>8. /\ new \in Fence \cup {NoFence}
      /\ m.op = "add" => new.id = m.id /\ new.opt = m.opt
      /\ m.op = "remove" => new = NoFence
      /\ m.op \in {"pause", "resume", "modify"} =>
            /\ new.id = old.id
            /\ new.opt = IF m.op = "modify" THEN m.opt ELSE old.opt
      /\ m.op # "remove" => new # NoFence
  <2>0. m.op # "add" => old \in Fence
    BY <1>5, <1>6, <1>9
  <2>1. CASE m.op = "add"
    <3>1. new = [id |-> m.id, opt |-> m.opt, paused |-> FALSE]
      BY <1>9, <2>1 DEF Served
    <3>2. new \in Fence /\ new.id = m.id /\ new.opt = m.opt
      BY <1>7, <2>1, <3>1 DEF Fence
    <3>3. new # NoFence
      BY <3>2, Numbers
    <3> QED BY <2>1, <3>2, <3>3
  <2>2. CASE m.op = "remove"
    BY <1>9, <2>2 DEF Served
  <2>3. CASE m.op = "pause"
    <3>1. new = [old EXCEPT !.paused = TRUE]
      BY <1>9, <2>3 DEF Served
    <3>2. new \in Fence /\ new.id = old.id /\ new.opt = old.opt
      BY <2>0, <2>3, <3>1 DEF Fence
    <3>3. new # NoFence
      BY <3>2, Numbers
    <3> QED BY <2>3, <3>2, <3>3
  <2>4. CASE m.op = "resume"
    <3>1. new = [old EXCEPT !.paused = FALSE]
      BY <1>9, <2>4 DEF Served
    <3>2. new \in Fence /\ new.id = old.id /\ new.opt = old.opt
      BY <2>0, <2>4, <3>1 DEF Fence
    <3>3. new # NoFence
      BY <3>2, Numbers
    <3> QED BY <2>4, <3>2, <3>3
  <2>5. CASE m.op = "modify"
    <3>1. new = [old EXCEPT !.opt = m.opt]
      BY <1>9, <2>5 DEF Served
    <3>2. new \in Fence /\ new.id = old.id /\ new.opt = m.opt
      BY <1>7, <2>0, <2>5, <3>1 DEF Fence
    <3>3. new # NoFence
      BY <3>2, Numbers
    <3> QED BY <2>5, <3>2, <3>3
  <2> QED BY <1>7, <2>1, <2>2, <2>3, <2>4, <2>5
<1>10. /\ engine'.up = engine.up /\ engine'.fences[h] = new
       /\ engine' \in [up : BOOLEAN, fences : [HwIds -> Fence \cup {NoFence}]]
       /\ \A g \in HwIds : g # h => engine'.fences[g] = engine.fences[g]
  BY <1>3, <1>5, <1>6, <1>8, <1>9
<1>11. Replies(m, TRUE, h)
  BY <1>2, <1>3, <1>5, Replied
<1>12. ServeEffect(m, h)
  BY <1>1, <1>2, <1>3, <1>4, <1>5, <1>8, <1>9, <1>10, <1>11 DEF ServeEffect
<1> QED BY <1>12

FailEffect(m) ==
    /\ m \in Requests /\ apiQ # <<>> /\ Head(apiQ) = m /\ apiQ' = Tail(apiQ)
    /\ Replies(m, FALSE, m.hwId)
    /\ used' \in [calls : 0..MaxCalls, breaches : Nat, refusals : Nat, crashes : Nat]
    /\ used'.calls = used.calls /\ used'.crashes = used.crashes
    /\ MustFail(m) \/ used'.refusals = used.refusals + 1
    /\ UNCHANGED <<maps, clients, owner, batches, engine, strayed, answered>>

LEMMA Fails ==
    ASSUME Types, Fail
    PROVE  \E m : FailEffect(m)
<1> DEFINE m == Head(apiQ)
<1>1. apiQ # <<>> /\ m.op \in Commands /\ apiQ' = Tail(apiQ)
      /\ adapterQ' = Answer(m, FALSE, m.hwId)
      /\ UNCHANGED <<maps, clients, owner, batches, engine, strayed, answered>>
      /\ \/ MustFail(m) /\ UNCHANGED used
         \/ ~MustFail(m) /\ used' = [used EXCEPT !.refusals = @ + 1]
  BY DEF Fail
<1>2. m \in Requests /\ m.hwId \in {0} \cup HwIds
  BY <1>1, ApiTaken, ApiFields, RequestFields
<1>3. m = Head(apiQ)
  OBVIOUS
<1> HIDE DEF m
<1>4. Replies(m, FALSE, m.hwId)
  BY <1>1, <1>2, Replied
<1>5. used' \in [calls : 0..MaxCalls, breaches : Nat, refusals : Nat, crashes : Nat]
      /\ used'.calls = used.calls /\ used'.crashes = used.crashes
      /\ (MustFail(m) \/ used'.refusals = used.refusals + 1)
  <2>1. used \in [calls : 0..MaxCalls, breaches : Nat, refusals : Nat, crashes : Nat]
    BY DEF Types
  <2>2. CASE MustFail(m) /\ UNCHANGED used
    BY <2>1, <2>2
  <2>3. CASE used' = [used EXCEPT !.refusals = @ + 1]
    <3>1. used.refusals + 1 \in Nat
      BY <2>1
    <3> QED BY <2>1, <2>3, <3>1
  <2> QED BY <1>1, <2>2, <2>3
<1>6. FailEffect(m)
  BY <1>1, <1>2, <1>3, <1>4, <1>5 DEF FailEffect
<1> QED BY <1>6

LEMMA ApiThreadTypes == Types /\ ApiThread => Types'
<1> SUFFICES ASSUME Types, ApiThread PROVE Types'
  OBVIOUS
<1>1. CASE ReturnTurn
  <2>1. adapterQ' \in Seq(AdapterMessages) /\ apiQ' \in Seq(ApiMessages)
    <3>1. adapterQ \in Seq(AdapterMessages)
      BY DEF Types
    <3>2. PICK m \in TurnMessages :
             m \in AdapterMessages /\ adapterQ' = Append(adapterQ, m) /\ apiQ # <<>> /\ apiQ' = Tail(apiQ)
      BY <1>1, TurnReturns
    <3>3. adapterQ' \in Seq(AdapterMessages)
      BY <3>1, <3>2, Appended
    <3>4. apiQ' \in Seq(ApiMessages)
      BY <3>2, ApiTaken
    <3> QED BY <3>3, <3>4
  <2> QED BY <1>1, <2>1 DEF ReturnTurn, Types, maps
<1>2. CASE Serve
  <2>1. PICK m, h : ServeEffect(m, h)
    BY <1>2, Serves
  <2>2. adapterQ' \in Seq(AdapterMessages) /\ apiQ' \in Seq(ApiMessages) /\ strayed' \in BOOLEAN
    BY <2>1, RepliesTypes, ApiTaken DEF ServeEffect, Types
  <2> QED BY <2>1, <2>2 DEF ServeEffect, Types, maps
<1>3. CASE Fail
  <2>1. PICK m : FailEffect(m)
    BY <1>3, Fails
  <2>2. adapterQ' \in Seq(AdapterMessages) /\ apiQ' \in Seq(ApiMessages)
    BY <2>1, RepliesTypes, ApiTaken DEF FailEffect
  <2> QED BY <2>1, <2>2 DEF FailEffect, Types, maps
<1>4. CASE Reopen
  <2>1. [type |-> "engineUp"] \in AdapterMessages
    BY DEF AdapterMessages, UpMessages
  <2>2. adapterQ' \in Seq(AdapterMessages)
    <3>1. adapterQ \in Seq(AdapterMessages)
      BY DEF Types
    <3> QED BY <1>4, <2>1, <3>1, Appended DEF Reopen
  <2>3. apiQ' \in Seq(ApiMessages)
    BY <1>4, ApiTaken DEF Reopen
  <2>4. engine' \in [up : BOOLEAN, fences : [HwIds -> Fence \cup {NoFence}]]
    BY <1>4 DEF Reopen, Types
  <2> QED BY <1>4, <2>2, <2>3, <2>4 DEF Reopen, Types, maps
<1> QED BY <1>1, <1>2, <1>3, <1>4 DEF ApiThread

LEMMA BreachSent ==
    ASSUME Types, Breach
    PROVE  \E m \in AdapterMessages :
              /\ m.type = "breach" /\ adapterQ' = Append(adapterQ, m)
              /\ m.hwIds \subseteq HwIds /\ m.of = {engine.fences[h].id : h \in m.hwIds}
              /\ \A h \in m.hwIds : Held(h) /\ engine.fences[h] \in Fence
              /\ UNCHANGED <<maps, clients, owner, batches, engineSide, answered>>
<1>1. PICK hwIds \in SUBSET {h \in HwIds : Held(h) /\ ~engine.fences[h].paused} :
         adapterQ' = Append(adapterQ, [type |-> "breach", hwIds |-> hwIds,
                                       of |-> {engine.fences[h].id : h \in hwIds}])
  BY DEF Breach
<1>2. \A h \in hwIds : h \in HwIds /\ Held(h) /\ engine.fences[h] \in Fence
  BY DEF Held, Types
<1>3. {engine.fences[h].id : h \in hwIds} \subseteq Ids
  BY <1>2 DEF Fence
<1> DEFINE m == [type |-> "breach", hwIds |-> hwIds, of |-> {engine.fences[h].id : h \in hwIds}]
<1>4. m \in AdapterMessages /\ m.type = "breach" /\ m.hwIds = hwIds
      /\ m.of = {engine.fences[h].id : h \in hwIds} /\ adapterQ' = Append(adapterQ, m)
  BY <1>1, <1>3 DEF AdapterMessages, BreachMessages
<1> HIDE DEF m
<1>5. UNCHANGED <<maps, clients, owner, batches, engineSide, answered>>
  BY DEF Breach
<1> QED BY <1>2, <1>4, <1>5

LEMMA EngineTypes == Types /\ (EngineCrash \/ Breach) => Types'
<1> SUFFICES ASSUME Types, EngineCrash \/ Breach PROVE Types'
  OBVIOUS
<1>1. CASE EngineCrash
  <2>1. apiQ' \in Seq(ApiMessages)
    <3>1. [op |-> "ssr"] \in ApiMessages
      BY DEF ApiMessages
    <3>2. apiQ \in Seq(ApiMessages)
      BY DEF Types
    <3> QED BY <1>1, <3>1, <3>2, Appended DEF EngineCrash
  <2>2. engine' \in [up : BOOLEAN, fences : [HwIds -> Fence \cup {NoFence}]]
    BY <1>1 DEF EngineCrash
  <2>3. used' \in [calls : 0..MaxCalls, breaches : Nat, refusals : Nat, crashes : Nat]
        /\ used'.calls = used.calls
    <3>1. used \in [calls : 0..MaxCalls, breaches : Nat, refusals : Nat, crashes : Nat]
      BY DEF Types
    <3>2. used' = [used EXCEPT !.crashes = @ + 1]
      BY <1>1 DEF EngineCrash
    <3> QED BY <3>1, <3>2
  <2> QED BY <1>1, <2>1, <2>2, <2>3 DEF EngineCrash, Types, maps
<1>2. CASE Breach
  <2>1. PICK m \in AdapterMessages : adapterQ' = Append(adapterQ, m)
    BY <1>2, BreachSent
  <2>4. adapterQ' \in Seq(AdapterMessages)
    <3>1. adapterQ \in Seq(AdapterMessages)
      BY DEF Types
    <3> QED BY <2>1, <3>1, Appended
  <2>5. used' \in [calls : 0..MaxCalls, breaches : Nat, refusals : Nat, crashes : Nat]
        /\ used'.calls = used.calls
    <3>1. used \in [calls : 0..MaxCalls, breaches : Nat, refusals : Nat, crashes : Nat]
      BY DEF Types
    <3>2. used' = [used EXCEPT !.breaches = @ + 1]
      BY <1>2 DEF Breach
    <3> QED BY <3>1, <3>2
  <2> QED BY <1>2, <2>4, <2>5 DEF Breach, Types, maps, engineSide
<1> QED BY <1>1, <1>2

LEMMA NextTypes == Types /\ Lives /\ [Next]_vars => Types'
<1> SUFFICES ASSUME Types, Lives, [Next]_vars PROVE Types'
  OBVIOUS
<1>1. CASE UNCHANGED vars
  BY <1>1 DEF vars, maps, engineSide, Types
<1> QED BY <1>1, AddGeofencesTypes, OtherCommandTypes, RemoveClientTypes, HandleCommandTypes,
           HandleTurnTypes, HandleAnswerTypes, HandleRemoveClientTypes, HandleGoneTypes,
           HandleEngineUpTypes, HandleRestoredTypes, HandleBreachTypes, ApiThreadTypes, EngineTypes
        DEF Next, AdapterThread

-----------------------------------------------------------------------------
(* Every step keeps the lives of the commands: what can be done to the      *)
(* queues and to the commands, one thing at a time.                         *)

LEMMA TailInOrder ==
    ASSUME NEW S, NEW q \in Seq(S), q # <<>>
    PROVE  /\ BackInOrder(q) => BackInOrder(Tail(q))
           /\ OutInOrder(q) => OutInOrder(Tail(q))
           /\ CommandsOnce(q) => CommandsOnce(Tail(q))
<1>1. Len(q) \in Nat \ {0} /\ Len(Tail(q)) = Len(q) - 1
      /\ \A k \in 1..Len(Tail(q)) : k + 1 \in 1..Len(q) /\ Tail(q)[k] = q[k + 1]
  BY Shortened
<1>2. ASSUME NEW k \in 1..Len(Tail(q)), NEW l \in 1..Len(Tail(q))
      PROVE  /\ k < l => k + 1 < l + 1
             /\ k + 1 = l + 1 => k = l
  BY <1>1
<1>3. BackInOrder(q) => BackInOrder(Tail(q))
  BY <1>1, <1>2 DEF BackInOrder
<1>4. OutInOrder(q) => OutInOrder(Tail(q))
  BY <1>1, <1>2 DEF OutInOrder
<1>5. CommandsOnce(q) => CommandsOnce(Tail(q))
  BY <1>1, <1>2 DEF CommandsOnce
<1> QED BY <1>3, <1>4, <1>5

\* The adapter thread has taken a message.
LEMMA AdapterDrops ==
    ASSUME NEW bs, NEW aq \in Seq(AdapterMessages), NEW pq \in Seq(ApiMessages), aq # <<>>,
           LivesOf(bs, aq, pq)
    PROVE  LivesOf(bs, Tail(aq), pq)
<1>1. Elements(Tail(aq)) \subseteq Elements(aq)
  BY ElementsOfTail
<1>2. \A b : /\ HasTurn(Tail(aq), pq, b) => HasTurn(aq, pq, b)
             /\ HasItem(Tail(aq), pq, b) => HasItem(aq, pq, b)
  BY <1>1 DEF HasTurn, HasItem, TurnBackIn, AnswerIn
<1>3. CommandsFit(bs, Tail(aq), pq)
  BY <1>1, <1>2 DEF LivesOf, CommandsFit
<1>4. CommandsOnce(Tail(aq)) /\ BackInOrder(Tail(aq)) /\ OutInOrder(pq)
  BY TailInOrder DEF LivesOf, TurnsInOrder
<1>5. TurnsFit(bs, Tail(aq), pq) /\ BackBeforeOut(Tail(aq), pq)
  BY <1>1 DEF LivesOf, TurnsFit, TurnsInOrder, BackBeforeOut
<1>6. \A m : ItemFits(bs, aq, pq, m) => ItemFits(bs, Tail(aq), pq, m)
  BY <1>2 DEF ItemFits
<1>7. ItemsFit(bs, Tail(aq), pq)
  BY <1>1, <1>6 DEF LivesOf, ItemsFit
<1> QED BY <1>3, <1>4, <1>5, <1>7 DEF LivesOf, TurnsInOrder

\* The API thread has.
LEMMA ApiDrops ==
    ASSUME NEW bs, NEW aq \in Seq(AdapterMessages), NEW pq \in Seq(ApiMessages), pq # <<>>,
           LivesOf(bs, aq, pq)
    PROVE  LivesOf(bs, aq, Tail(pq))
<1>1. Elements(Tail(pq)) \subseteq Elements(pq)
  BY ElementsOfTail
<1>2. \A b : /\ HasTurn(aq, Tail(pq), b) => HasTurn(aq, pq, b)
             /\ HasItem(aq, Tail(pq), b) => HasItem(aq, pq, b)
  BY <1>1 DEF HasTurn, HasItem, TurnIn, RequestIn
<1>3. CommandsFit(bs, aq, Tail(pq))
  BY <1>2 DEF LivesOf, CommandsFit
<1>4. CommandsOnce(aq) /\ BackInOrder(aq) /\ OutInOrder(Tail(pq))
  BY TailInOrder DEF LivesOf, TurnsInOrder
<1>5. TurnsFit(bs, aq, Tail(pq)) /\ BackBeforeOut(aq, Tail(pq))
  BY <1>1 DEF LivesOf, TurnsFit, TurnsInOrder, BackBeforeOut
<1>6. \A m : ItemFits(bs, aq, pq, m) => ItemFits(bs, aq, Tail(pq), m)
  BY <1>2 DEF ItemFits
<1>7. ItemsFit(bs, aq, Tail(pq))
  BY <1>1, <1>6 DEF LivesOf, ItemsFit
<1> QED BY <1>3, <1>4, <1>5, <1>7 DEF LivesOf, TurnsInOrder

\* The adapter is sent a message that is no command and no turn.
LEMMA AdapterAdds ==
    ASSUME NEW bs, NEW aq \in Seq(AdapterMessages), NEW pq \in Seq(ApiMessages),
           NEW m \in AdapterMessages, m.type \notin {"command", "turn"},
           m.type = "answer" =>
              /\ ItemFits(bs, aq, pq, m.to)
              /\ \A b : IsItem(m.to, b) => \A c \in Elements(aq) : ~IsCommand(c, b),
           LivesOf(bs, aq, pq)
    PROVE  LivesOf(bs, Append(aq, m), pq)
<1> DEFINE aq2 == Append(aq, m)
<1>1. Elements(aq2) = Elements(aq) \cup {m}
  BY ElementsOfAppend
<1>2. /\ Len(aq2) = Len(aq) + 1 /\ Len(aq) \in Nat
      /\ \A k \in 1..Len(aq) : aq2[k] = aq[k]
      /\ aq2[Len(aq) + 1] = m
  BY Appended
<1> HIDE DEF aq2
<1>3. \A b : /\ HasTurn(aq2, pq, b) => HasTurn(aq, pq, b)
             /\ HasItem(aq2, pq, b) => HasItem(aq, pq, b) \/ (m.type = "answer" /\ IsItem(m.to, b))
  BY <1>1 DEF HasTurn, HasItem, TurnBackIn, AnswerIn
<1>4. CommandsFit(bs, aq2, pq)
  BY <1>1, <1>3 DEF LivesOf, CommandsFit, IsCommand
<1>5. \A k \in 1..Len(aq2) : aq2[k].type \in {"command", "turn"} => k \in 1..Len(aq) /\ aq2[k] = aq[k]
  BY <1>2
<1>6. CommandsOnce(aq2) /\ BackInOrder(aq2)
  BY <1>5 DEF LivesOf, TurnsInOrder, CommandsOnce, BackInOrder
<1>7. TurnsFit(bs, aq2, pq) /\ BackBeforeOut(aq2, pq) /\ OutInOrder(pq)
  BY <1>1 DEF LivesOf, TurnsFit, TurnsInOrder, BackBeforeOut
<1>8. \A r : ItemFits(bs, aq, pq, r) => ItemFits(bs, aq2, pq, r)
  BY <1>3 DEF ItemFits
<1>9. ItemsFit(bs, aq2, pq)
  BY <1>1, <1>8 DEF LivesOf, ItemsFit
<1> QED BY <1>4, <1>6, <1>7, <1>9 DEF LivesOf, TurnsInOrder, aq2

\* The API thread is sent requests.
LEMMA ApiAdds ==
    ASSUME NEW bs, NEW aq \in Seq(AdapterMessages), NEW pq \in Seq(ApiMessages),
           NEW s \in Seq(ApiMessages),
           \A m \in Elements(s) :
              /\ m.op # "turn" /\ ItemFits(bs, aq, pq, m)
              /\ \A b : IsItem(m, b) => \A c \in Elements(aq) : ~IsCommand(c, b),
           LivesOf(bs, aq, pq)
    PROVE  LivesOf(bs, aq, pq \o s)
<1> DEFINE pq2 == pq \o s
<1>1. Elements(pq2) = Elements(pq) \cup Elements(s)
  BY ElementsOfJoin
<1>2. \A k \in 1..Len(pq2) : pq2[k].op = "turn" => k \in 1..Len(pq) /\ pq2[k] = pq[k]
  <2> TAKE k \in 1..Len(pq2)
  <2>1. CASE k \in 1..Len(pq)
    BY <2>1, Joined
  <2>2. CASE k \notin 1..Len(pq)
    <3>1. k - Len(pq) \in 1..Len(s) /\ pq2[k] = s[k - Len(pq)]
      BY <2>2, Joined
    <3> QED BY <3>1 DEF Elements
  <2> QED BY <2>1, <2>2
<1> HIDE DEF pq2
<1>3. \A b : /\ HasTurn(aq, pq2, b) => HasTurn(aq, pq, b)
             /\ HasItem(aq, pq2, b) => HasItem(aq, pq, b) \/ \E m \in Elements(s) : IsItem(m, b)
  BY <1>1 DEF HasTurn, HasItem, TurnIn, RequestIn
<1>4. CommandsFit(bs, aq, pq2)
  BY <1>3 DEF LivesOf, CommandsFit, IsCommand
<1>5. CommandsOnce(aq) /\ BackInOrder(aq) /\ OutInOrder(pq2)
  BY <1>2 DEF LivesOf, TurnsInOrder, OutInOrder
<1>6. TurnsFit(bs, aq, pq2) /\ BackBeforeOut(aq, pq2)
  BY <1>1 DEF LivesOf, TurnsFit, TurnsInOrder, BackBeforeOut
<1>7. \A r : ItemFits(bs, aq, pq, r) => ItemFits(bs, aq, pq2, r)
  BY <1>3 DEF ItemFits
<1>8. ItemsFit(bs, aq, pq2)
  BY <1>1, <1>7 DEF LivesOf, ItemsFit
<1> QED BY <1>4, <1>5, <1>6, <1>8 DEF LivesOf, TurnsInOrder, pq2

\* A turn comes back.
LEMMA TurnComesBack ==
    ASSUME NEW bs, NEW aq \in Seq(AdapterMessages), NEW pq \in Seq(ApiMessages), pq # <<>>,
           NEW m \in AdapterMessages, m.type = "turn", Head(pq).op = "turn",
           m.batch = Head(pq).batch, m.item = Head(pq).item,
           LivesOf(bs, aq, pq)
    PROVE  LivesOf(bs, Append(aq, m), Tail(pq))
<1> DEFINE aq2 == Append(aq, m)
           pq2 == Tail(pq)
<1>1. Elements(aq2) = Elements(aq) \cup {m}
  BY ElementsOfAppend
<1>2. /\ Len(aq2) = Len(aq) + 1 /\ Len(aq) \in Nat
      /\ \A k \in 1..Len(aq) : aq2[k] = aq[k]
      /\ aq2[Len(aq) + 1] = m
  BY Appended
<1>3. Elements(pq2) \subseteq Elements(pq) /\ Head(pq) \in Elements(pq)
  BY ElementsOfTail
<1>4. OutInOrder(pq2)
  BY TailInOrder DEF LivesOf, TurnsInOrder
<1>5. \A n \in Elements(pq2) : n.op = "turn" /\ n.batch = m.batch => m.item < n.item
  <2>1. Head(pq) = pq[1] /\ 1 \in 1..Len(pq)
        /\ \A k \in 1..Len(pq2) : k + 1 \in 1..Len(pq) /\ 1 < k + 1 /\ pq2[k] = pq[k + 1]
    BY Shortened
  <2> QED BY <2>1 DEF LivesOf, TurnsInOrder, OutInOrder, Elements
<1> HIDE DEF aq2, pq2
<1>6. \A b : /\ HasTurn(aq2, pq2, b) => HasTurn(aq, pq, b)
             /\ HasItem(aq2, pq2, b) => HasItem(aq, pq, b)
  BY <1>1, <1>3 DEF HasTurn, HasItem, TurnIn, TurnBackIn, RequestIn, AnswerIn
<1>7. CommandsFit(bs, aq2, pq2)
  BY <1>1, <1>6 DEF LivesOf, CommandsFit
<1>8. \A k \in 1..Len(aq2) : (k \in 1..Len(aq) /\ aq2[k] = aq[k]) \/ (k = Len(aq) + 1 /\ aq2[k] = m)
  BY <1>2
<1>9. CommandsOnce(aq2)
  <2>1. \A k \in 1..Len(aq2) : aq2[k].type = "command" => k \in 1..Len(aq) /\ aq2[k] = aq[k]
    BY <1>8
  <2> QED BY <2>1 DEF LivesOf, CommandsOnce
<1>10. BackInOrder(aq2)
  <2> SUFFICES ASSUME NEW k \in 1..Len(aq2), NEW l \in 1..Len(aq2), k < l,
                      aq2[k].type = "turn", aq2[l].type = "turn", aq2[k].batch = aq2[l].batch
               PROVE  aq2[k].item < aq2[l].item
    BY DEF BackInOrder
  <2>1. k \in 1..Len(aq) /\ aq2[k] = aq[k]
    BY <1>2
  <2>2. CASE l \in 1..Len(aq) /\ aq2[l] = aq[l]
    BY <2>1, <2>2 DEF LivesOf, TurnsInOrder, BackInOrder
  <2>3. CASE aq2[l] = m
    <3>1. aq[k] \in Elements(aq)
      BY <2>1 DEF Elements
    <3> QED BY <1>3, <2>1, <2>3, <3>1 DEF LivesOf, TurnsInOrder, BackBeforeOut
  <2> QED BY <1>8, <2>2, <2>3
<1>11. BackBeforeOut(aq2, pq2)
  BY <1>1, <1>3, <1>5 DEF LivesOf, TurnsInOrder, BackBeforeOut
<1>12. TurnsFit(bs, aq2, pq2)
  BY <1>1, <1>3 DEF LivesOf, TurnsFit
<1>13. \A r : ItemFits(bs, aq, pq, r) => ItemFits(bs, aq2, pq2, r)
  BY <1>6 DEF ItemFits
<1>14. ItemsFit(bs, aq2, pq2)
  BY <1>1, <1>3, <1>13 DEF LivesOf, ItemsFit
<1> QED BY <1>4, <1>7, <1>9, <1>10, <1>11, <1>12, <1>14 DEF LivesOf, TurnsInOrder, aq2, pq2

\* The turns of a command go out.
LEMMA TurnsGoOut ==
    ASSUME NEW bs, NEW aq \in Seq(AdapterMessages), NEW pq \in Seq(ApiMessages),
           NEW b \in 1..Len(bs), NEW s \in Seq(ApiMessages),
           \A k \in 1..Len(s) :
              s[k].op = "turn" /\ s[k].batch = b /\ s[k].item = k /\ IsTurnOf(bs, b, k),
           ~HasTurn(aq, pq, b), ~HasItem(aq, pq, b),
           \A c \in Elements(aq) : ~IsCommand(c, b),
           LivesOf(bs, aq, pq)
    PROVE  LivesOf(bs, aq, pq \o s)
<1> DEFINE pq2 == pq \o s
<1>1. Elements(pq2) = Elements(pq) \cup Elements(s)
  BY ElementsOfJoin
<1>2. \A k \in 1..Len(pq2) : \/ k \in 1..Len(pq) /\ pq2[k] = pq[k] /\ pq[k] \in Elements(pq)
                             \/ /\ k - Len(pq) \in 1..Len(s) /\ pq2[k] = s[k - Len(pq)]
                                /\ k \notin 1..Len(pq)
  BY Joined DEF Elements
<1>3. Len(pq) \in Nat /\ Len(pq2) \in Nat
  BY Joined
<1>4. \A m \in Elements(s) : m.op = "turn" /\ m.batch = b /\ IsTurnOf(bs, m.batch, m.item)
  BY DEF Elements
<1> HIDE DEF pq2
<1>5. \A c : c # b => (HasTurn(aq, pq2, c) => HasTurn(aq, pq, c))
  BY <1>1, <1>4 DEF HasTurn, TurnIn
<1>6. \A c : HasItem(aq, pq2, c) => HasItem(aq, pq, c)
  BY <1>1, <1>4 DEF HasItem, RequestIn, IsItem, Commands
<1>7. CommandsFit(bs, aq, pq2)
  BY <1>5, <1>6 DEF LivesOf, CommandsFit, IsCommand
<1>8. OutInOrder(pq2)
  <2> SUFFICES ASSUME NEW k \in 1..Len(pq2), NEW l \in 1..Len(pq2), k < l,
                      pq2[k].op = "turn", pq2[l].op = "turn", pq2[k].batch = pq2[l].batch
               PROVE  pq2[k].item < pq2[l].item
    BY DEF OutInOrder
  <2>1. CASE k \in 1..Len(pq) /\ l \in 1..Len(pq)
    <3>1. pq2[k] = pq[k] /\ pq2[l] = pq[l]
      BY <1>2, <2>1
    <3>2. OutInOrder(pq)
      BY DEF LivesOf, TurnsInOrder
    <3> QED BY <2>1, <3>1, <3>2 DEF OutInOrder
  <2>2. CASE k \notin 1..Len(pq)
    <3>1. k - Len(pq) \in 1..Len(s) /\ pq2[k] = s[k - Len(pq)]
      BY <1>2, <2>2
    <3>2. l - Len(pq) \in 1..Len(s) /\ pq2[l] = s[l - Len(pq)]
      <4>1. l \notin 1..Len(pq)
        BY <1>3, <2>2
      <4> QED BY <1>2, <4>1
    <3>3. k - Len(pq) < l - Len(pq)
      BY <1>3
    <3>4. s[k - Len(pq)].item = k - Len(pq) /\ s[l - Len(pq)].item = l - Len(pq)
      BY <3>1, <3>2
    <3> QED BY <3>1, <3>2, <3>3, <3>4
  <2>3. CASE k \in 1..Len(pq) /\ l \notin 1..Len(pq)
    <3>1. pq2[k] = pq[k] /\ pq[k] \in Elements(pq)
      BY <1>2, <2>3
    <3>2. pq2[l].batch = b
      BY <1>2, <2>3
    <3> QED BY <3>1, <3>2 DEF HasTurn, TurnIn
  <2> QED BY <2>1, <2>2, <2>3
<1>9. BackBeforeOut(aq, pq2)
  <2>1. \A m \in Elements(aq) : m.type = "turn" => m.batch # b
    BY DEF HasTurn, TurnBackIn
  <2> QED BY <1>1, <1>4, <2>1 DEF LivesOf, TurnsInOrder, BackBeforeOut
<1>10. TurnsFit(bs, aq, pq2)
  BY <1>1, <1>4 DEF LivesOf, TurnsFit
<1>11. ItemsFit(bs, aq, pq2)
  <2>1. \A m \in Elements(aq) : m.type = "answer" => ItemFits(bs, aq, pq2, m.to)
    <3> SUFFICES ASSUME NEW m \in Elements(aq), m.type = "answer", m.to.op \in Commands, m.to.then.for = "item"
                 PROVE  ItemFits(bs, aq, pq2, m.to)
      BY DEF ItemFits
    <3>1. m.to.then.batch # b
      BY DEF HasItem, AnswerIn, IsItem
    <3>2. ItemFits(bs, aq, pq, m.to)
      BY DEF LivesOf, ItemsFit
    <3> QED BY <1>5, <3>1, <3>2 DEF ItemFits
  <2>2. \A m \in Elements(pq2) : ItemFits(bs, aq, pq2, m)
    <3> SUFFICES ASSUME NEW m \in Elements(pq2), m.op \in Commands, m.then.for = "item"
                 PROVE  ItemFits(bs, aq, pq2, m)
      BY DEF ItemFits
    <3>1. m \in Elements(pq)
      BY <1>1, <1>4 DEF Commands
    <3>2. m.then.batch # b
      BY <3>1 DEF HasItem, RequestIn, IsItem
    <3>3. ItemFits(bs, aq, pq, m)
      BY <3>1 DEF LivesOf, ItemsFit
    <3> QED BY <1>5, <3>2, <3>3 DEF ItemFits
  <2> QED BY <2>1, <2>2 DEF ItemsFit
<1>12. CommandsOnce(aq) /\ BackInOrder(aq)
  BY DEF LivesOf, TurnsInOrder
<1> QED BY <1>7, <1>8, <1>9, <1>10, <1>11, <1>12 DEF LivesOf, TurnsInOrder, pq2

\* Commands change: a command that is deleted has neither a turn left nor waits.
LEMMA CommandsChange ==
    ASSUME NEW bs, NEW bs2, NEW aq, NEW pq, Len(bs) \in Nat, Len(bs2) \in Nat, Len(bs) <= Len(bs2),
           \A b \in 1..Len(bs) :
              \/ Same(bs2[b], bs[b])
              \/ bs2[b].reported /\ ~HasTurn(aq, pq, b) /\ \A c \in Elements(aq) : ~IsCommand(c, b),
           LivesOf(bs, aq, pq)
    PROVE  LivesOf(bs2, aq, pq)
<1>1. \A b \in 1..Len(bs) : b \in 1..Len(bs2)
  OBVIOUS
<1>2. \A b \in 1..Len(bs) : Same(bs2[b], bs[b]) =>
         /\ bs2[b].reported = bs[b].reported /\ bs2[b].ids = bs[b].ids /\ bs2[b].op = bs[b].op
         /\ Acceptable(bs2[b]) = Acceptable(bs[b])
  BY DEF Same, Acceptable
<1>3. \A m \in Elements(aq) : m.type = "command" /\ m.batch \in 1..Len(bs) => Same(bs2[m.batch], bs[m.batch])
  BY DEF IsCommand
<1>4. CommandsFit(bs2, aq, pq)
  BY <1>1, <1>2, <1>3 DEF LivesOf, CommandsFit
<1>5. TurnsFit(bs2, aq, pq)
  <2>1. \A m \in Elements(aq) : m.type = "turn" /\ m.batch \in 1..Len(bs) => Same(bs2[m.batch], bs[m.batch])
    BY DEF HasTurn, TurnBackIn
  <2>2. \A m \in Elements(pq) : m.op = "turn" /\ m.batch \in 1..Len(bs) => Same(bs2[m.batch], bs[m.batch])
    BY DEF HasTurn, TurnIn
  <2>3. \A b, i : IsTurnOf(bs, b, i) /\ Same(bs2[b], bs[b]) => IsTurnOf(bs2, b, i)
    BY <1>1, <1>2 DEF IsTurnOf
  <2>4. \A b, i : IsTurnOf(bs, b, i) => b \in 1..Len(bs)
    BY DEF IsTurnOf
  <2> QED BY <2>1, <2>2, <2>3, <2>4 DEF LivesOf, TurnsFit
<1>6. \A m : ItemFits(bs, aq, pq, m) => ItemFits(bs2, aq, pq, m)
  BY <1>1, <1>2 DEF ItemFits
<1>7. ItemsFit(bs2, aq, pq)
  BY <1>6 DEF LivesOf, ItemsFit
<1> QED BY <1>4, <1>5, <1>7 DEF LivesOf

\* A command is new.
LEMMA CommandWaits ==
    ASSUME NEW bs, NEW aq \in Seq(AdapterMessages), NEW pq \in Seq(ApiMessages),
           NEW m \in AdapterMessages, m.type = "command",
           m.batch \in 1..Len(bs), ~bs[m.batch].reported,
           ~HasTurn(aq, pq, m.batch), ~HasItem(aq, pq, m.batch),
           \A c \in Elements(aq) : ~IsCommand(c, m.batch),
           LivesOf(bs, aq, pq)
    PROVE  LivesOf(bs, Append(aq, m), pq)
<1> DEFINE aq2 == Append(aq, m)
<1>1. Elements(aq2) = Elements(aq) \cup {m}
  BY ElementsOfAppend
<1>2. /\ Len(aq2) = Len(aq) + 1 /\ Len(aq) \in Nat
      /\ \A k \in 1..Len(aq) : aq2[k] = aq[k] /\ aq[k] \in Elements(aq)
      /\ aq2[Len(aq) + 1] = m
  BY Appended DEF Elements
<1>3. \A k \in 1..Len(aq2) : (k \in 1..Len(aq) /\ aq2[k] = aq[k]) \/ (k = Len(aq) + 1 /\ aq2[k] = m)
  BY <1>2
<1> HIDE DEF aq2
<1>4. \A b : /\ HasTurn(aq2, pq, b) <=> HasTurn(aq, pq, b)
             /\ HasItem(aq2, pq, b) <=> HasItem(aq, pq, b)
  BY <1>1 DEF HasTurn, HasItem, TurnBackIn, AnswerIn
<1>5. CommandsFit(bs, aq2, pq)
  BY <1>1, <1>4 DEF LivesOf, CommandsFit
<1>6. CommandsOnce(aq2)
  <2>1. \A k \in 1..Len(aq) : aq[k].type = "command" => aq[k].batch # m.batch
    BY <1>2 DEF IsCommand
  <2> QED BY <1>3, <2>1 DEF LivesOf, CommandsOnce
<1>7. BackInOrder(aq2)
  <2>1. \A k \in 1..Len(aq2) : aq2[k].type = "turn" => k \in 1..Len(aq) /\ aq2[k] = aq[k]
    BY <1>3
  <2> QED BY <2>1 DEF LivesOf, TurnsInOrder, BackInOrder
<1>8. TurnsFit(bs, aq2, pq) /\ BackBeforeOut(aq2, pq) /\ OutInOrder(pq)
  BY <1>1 DEF LivesOf, TurnsFit, TurnsInOrder, BackBeforeOut
<1>9. \A r : ItemFits(bs, aq, pq, r) => ItemFits(bs, aq2, pq, r)
  BY <1>4 DEF ItemFits
<1>10. ItemsFit(bs, aq2, pq)
  BY <1>1, <1>9 DEF LivesOf, ItemsFit
<1> QED BY <1>5, <1>6, <1>7, <1>8, <1>10 DEF LivesOf, TurnsInOrder, aq2

-----------------------------------------------------------------------------
(* ... and the steps, put together of these.                                *)

CommandEffect(batch) ==
    /\ batch \in Batches /\ ~batch.reported /\ Len(batches) \in Nat
    /\ batches' \in Seq(Batches) /\ Len(batches') = Len(batches) + 1
    /\ \A b \in 1..Len(batches) : batches'[b] = batches[b]
    /\ batches'[Len(batches) + 1] = batch
    /\ [type |-> "command", batch |-> Len(batches) + 1] \in AdapterMessages
    /\ adapterQ' = Append(adapterQ, [type |-> "command", batch |-> Len(batches) + 1])
    /\ UNCHANGED <<fences, hwIdOf, clients, apiQ, engine, strayed, answered>>

AddEffect(n, batch) ==
    /\ n \in Nat /\ Len(owner) \in Nat /\ Len(owner) + n <= MaxFences
    /\ owner' \in Seq(Clients) /\ Len(owner') = Len(owner) + n
    /\ \A id \in 1..Len(owner) : owner'[id] = owner[id]
    /\ batch.op = "add" /\ Len(batch.ids) = n /\ batch.opt \in AllOptions
    /\ \A i \in 1..n : batch.ids[i] = Len(owner) + i
    /\ CommandEffect(batch)

LEMMA Adds ==
    ASSUME Types, AddGeofences
    PROVE  \E n, batch : AddEffect(n, batch)
<1>1. PICK c \in Clients, n \in 1..MaxItems, opt \in AddOptions :
        /\ Len(owner) + n <= MaxFences
        /\ owner' = owner \o [i \in 1..n |-> c]
        /\ Command("add", c, [i \in 1..n |-> Len(owner) + i], opt)
  BY DEF AddGeofences
<1>2. owner' \in Seq(Clients) /\ Len(owner') = Len(owner) + n /\ n \in Nat /\ Len(owner) \in Nat
      /\ \A id \in 1..Len(owner) : owner'[id] = owner[id]
  <2>1. owner \in Seq(Clients) /\ [i \in 1..n |-> c] \in Seq(Clients) /\ Len([i \in 1..n |-> c]) = n
    BY DEF Types
  <2> QED BY <1>1, <2>1, Joined
<1> DEFINE ids == [i \in 1..n |-> Len(owner) + i]
<1>3. "add" \in Commands /\ opt \in AllOptions /\ n > 0 /\ n <= MaxItems
  BY Numbers DEF Commands, AllOptions, Options
<1>4. /\ ids \in Seq(Ids) /\ Len(ids) = n /\ \A i, j \in 1..Len(ids) : ids[i] = ids[j] => i = j
      /\ \A i \in 1..n : ids[i] = Len(owner) + i
  BY <1>1, AddedIds
<1>5. Command("add", c, ids, opt)
  BY <1>1
<1> HIDE DEF ids
<1>6. PICK batch : NewCommand("add", ids, opt, batch)
  BY <1>3, <1>4, <1>5, CommandAdds
<1>7. UNCHANGED <<fences, hwIdOf, clients, apiQ, engine, strayed, answered>> /\ Len(batches) \in Nat
  BY <1>5 DEF Command, maps, engineSide, Types
<1>8. CommandEffect(batch)
  BY <1>6, <1>7 DEF CommandEffect, NewCommand
<1>9. AddEffect(n, batch)
  BY <1>1, <1>2, <1>3, <1>4, <1>6, <1>8 DEF AddEffect, NewCommand
<1> QED BY <1>9

OtherEffect(batch) ==
    /\ batch.op # "add" /\ CommandEffect(batch) /\ UNCHANGED owner
    /\ \A i \in 1..Len(batch.ids) : batch.ids[i] \in 1..Len(owner)

LEMMA Others ==
    ASSUME Types, OtherCommand
    PROVE  \E batch : OtherEffect(batch)
<1>1. PICK c \in Clients, op \in Commands \ {"add"} :
        \E n \in 1..MaxItems, opt \in IF op = "modify" THEN ModifyOptions ELSE {NoOptions} :
            \E ids \in [1..n -> OwnIds(c)] :
                /\ \A i, j \in 1..n : i < j => ids[i] < ids[j]
                /\ Command(op, c, ids, opt)
                /\ UNCHANGED owner
  BY DEF OtherCommand
<1>2. PICK n \in 1..MaxItems, opt \in IF op = "modify" THEN ModifyOptions ELSE {NoOptions} :
            \E ids \in [1..n -> OwnIds(c)] :
                /\ \A i, j \in 1..n : i < j => ids[i] < ids[j]
                /\ Command(op, c, ids, opt)
                /\ UNCHANGED owner
  BY <1>1
<1>3. PICK ids \in [1..n -> OwnIds(c)] :
                /\ \A i, j \in 1..n : i < j => ids[i] < ids[j]
                /\ Command(op, c, ids, opt)
                /\ UNCHANGED owner
  BY <1>2
<1>4. op \in Commands /\ opt \in AllOptions /\ n > 0 /\ n <= MaxItems
  BY Numbers DEF AllOptions, Options
<1>5. /\ ids \in Seq(Ids) /\ Len(ids) = n /\ \A i, j \in 1..Len(ids) : ids[i] = ids[j] => i = j
      /\ \A i \in 1..n : ids[i] \in 1..Len(owner)
  BY <1>3, NamedIds
<1>6. PICK batch : NewCommand(op, ids, opt, batch)
  BY <1>3, <1>4, <1>5, CommandAdds
<1>7. UNCHANGED <<fences, hwIdOf, clients, apiQ, engine, strayed, answered>> /\ Len(batches) \in Nat
  BY <1>3 DEF Command, maps, engineSide, Types
<1>8. CommandEffect(batch)
  BY <1>6, <1>7 DEF CommandEffect, NewCommand
<1>9. OtherEffect(batch)
  BY <1>3, <1>5, <1>6, <1>8 DEF OtherEffect, NewCommand
<1> QED BY <1>9

LEMMA CommandLives ==
    ASSUME Types, Lives, NEW batch, CommandEffect(batch)
    PROVE  Lives'
<1> DEFINE m == [type |-> "command", batch |-> Len(batches) + 1]
<1>1. /\ m \in AdapterMessages /\ m.type = "command" /\ m.batch = Len(batches) + 1
      /\ adapterQ' = Append(adapterQ, m) /\ apiQ' = apiQ
      /\ m.batch \in 1..Len(batches') /\ batches'[m.batch] = batch /\ ~batches'[m.batch].reported
      /\ m.batch \notin 1..Len(batches)
  BY DEF CommandEffect
<1> HIDE DEF m
<1>2. adapterQ \in Seq(AdapterMessages) /\ apiQ \in Seq(ApiMessages)
  BY DEF Types
<1>3. LivesOf(batches', adapterQ, apiQ)
  <2>1. \A b \in 1..Len(batches) : Same(batches'[b], batches[b])
    BY DEF CommandEffect, Same
  <2>2. Len(batches) \in Nat /\ Len(batches') \in Nat /\ Len(batches) <= Len(batches')
    BY DEF CommandEffect
  <2>3. LivesOf(batches, adapterQ, apiQ)
    BY DEF Lives
  <2> QED BY <2>1, <2>2, <2>3, CommandsChange
<1>4. /\ ~HasTurn(adapterQ, apiQ, m.batch) /\ ~HasItem(adapterQ, apiQ, m.batch)
      /\ \A c \in Elements(adapterQ) : ~IsCommand(c, m.batch)
  BY <1>1 DEF Lives, LivesOf, TurnsFit, HasTurn, TurnBackIn, TurnIn, IsTurnOf, HasItem, AnswerIn,
              RequestIn, IsItem, ItemsFit, ItemFits, CommandsFit, IsCommand
<1>5. LivesOf(batches', Append(adapterQ, m), apiQ)
  BY <1>1, <1>2, <1>3, <1>4, CommandWaits
<1> QED BY <1>1, <1>5 DEF Lives

\* A message that is for no command, sent to the adapter.
LEMMA MessageLives ==
    ASSUME Types, Lives, NEW m \in AdapterMessages, m.type \in {"removeClient", "engineUp", "breach"},
           adapterQ' = Append(adapterQ, m), batches' = batches,
           apiQ' = apiQ \/ (apiQ # <<>> /\ apiQ' = Tail(apiQ))
    PROVE  Lives'
<1>1. adapterQ \in Seq(AdapterMessages) /\ apiQ \in Seq(ApiMessages) /\ apiQ' \in Seq(ApiMessages)
  BY ApiTaken DEF Types
<1>2. LivesOf(batches, adapterQ, apiQ')
  BY <1>1, ApiDrops DEF Lives
<1>3. LivesOf(batches, Append(adapterQ, m), apiQ')
  BY <1>1, <1>2, AdapterAdds
<1> QED BY <1>3 DEF Lives

LEMMA CallsLive ==
    ASSUME Types, Lives, AddGeofences \/ OtherCommand \/ RemoveClient \/ EngineCrash \/ Breach
    PROVE  Lives'
<1>1. CASE AddGeofences
  BY <1>1, Adds, CommandLives DEF AddEffect
<1>2. CASE OtherCommand
  BY <1>2, Others, CommandLives DEF OtherEffect
<1>3. CASE RemoveClient
  <2>1. PICK c \in clients :
          /\ adapterQ' = Append(adapterQ, [type |-> "removeClient", client |-> c])
          /\ UNCHANGED <<batches, engineSide>>
    BY <1>3 DEF RemoveClient
  <2>2. [type |-> "removeClient", client |-> c] \in AdapterMessages
    BY DEF Types, AdapterMessages, RemoveMessages
  <2> QED BY <2>1, <2>2, MessageLives DEF engineSide
<1>4. CASE EngineCrash
  <2> DEFINE m == [op |-> "ssr"]
             s == <<m>>
  <2>1. m \in ApiMessages /\ m.op = "ssr"
    BY DEF ApiMessages
  <2>2. s \in Seq(ApiMessages) /\ Elements(s) = {m}
    BY <2>1 DEF Elements
  <2>3. apiQ' = apiQ \o s /\ adapterQ' = adapterQ /\ batches' = batches
    <3>1. apiQ \in Seq(ApiMessages)
      BY DEF Types
    <3>2. apiQ' = Append(apiQ, m) /\ adapterQ' = adapterQ /\ batches' = batches
      BY <1>4 DEF EngineCrash
    <3> QED BY <2>1, <3>1, <3>2
  <2> HIDE DEF m, s
  <2>4. \A r \in Elements(s) : r.op = "ssr"
    BY <2>1, <2>2
  <2>5. \A r \in Elements(s) :
           /\ r.op # "turn" /\ ItemFits(batches, adapterQ, apiQ, r)
           /\ \A b : IsItem(r, b) => \A c \in Elements(adapterQ) : ~IsCommand(c, b)
    BY <2>4 DEF Commands, ItemFits, IsItem
  <2>6. LivesOf(batches, adapterQ, apiQ \o s)
    BY <2>2, <2>5, ApiAdds DEF Types, Lives
  <2> QED BY <2>3, <2>6 DEF Lives
<1>5. CASE Breach
  <2>1. PICK m \in AdapterMessages :
           m.type = "breach" /\ adapterQ' = Append(adapterQ, m) /\ UNCHANGED <<batches, engineSide>>
    BY <1>5, BreachSent
  <2> QED BY <2>1, MessageLives DEF engineSide
<1> QED BY <1>1, <1>2, <1>3, <1>4, <1>5

LEMMA HandleCommandLives ==
    ASSUME Types, Lives, HandleCommand
    PROVE  Lives'
<1>1. PICK b \in 1..Len(batches), turns \in Seq(ApiMessages) :
         /\ Head(adapterQ).type = "command" /\ Head(adapterQ).batch = b
         /\ ~batches[b].reported /\ batches[b] \in Batches
         /\ adapterQ # <<>> /\ adapterQ' = Tail(adapterQ)
         /\ apiQ' = apiQ \o turns
         /\ \A k \in 1..Len(turns) :
               turns[k] = Turn(b, k) /\ turns[k].op = "turn" /\ turns[k].batch = b /\ turns[k].item = k
         /\ Acceptable(batches[b]) => Len(turns) = Len(batches[b].ids)
         /\ ~Acceptable(batches[b]) => turns = <<>>
  BY CommandHandled
<1>2. batches' = batches
  BY DEF HandleCommand
<1> DEFINE aq == Tail(adapterQ)
<1>3. /\ adapterQ \in Seq(AdapterMessages) /\ apiQ \in Seq(ApiMessages) /\ aq \in Seq(AdapterMessages)
      /\ Elements(aq) \subseteq Elements(adapterQ) /\ Head(adapterQ) \in Elements(adapterQ)
  BY <1>1, ElementsOfTail, Shortened DEF Types
<1>4. LivesOf(batches, aq, apiQ)
  BY <1>1, <1>3, AdapterDrops DEF Lives
<1>5. ~HasTurn(aq, apiQ, b) /\ ~HasItem(aq, apiQ, b)
  <2>1. ~HasTurn(adapterQ, apiQ, b) /\ ~HasItem(adapterQ, apiQ, b)
    BY <1>1, <1>3 DEF Lives, LivesOf, CommandsFit
  <2> HIDE DEF aq
  <2> QED BY <1>3, <2>1 DEF HasTurn, HasItem, TurnBackIn, AnswerIn
<1>6. \A c \in Elements(aq) : ~IsCommand(c, b)
  <2>1. /\ Head(adapterQ) = adapterQ[1] /\ 1 \in 1..Len(adapterQ)
        /\ \A k \in 1..Len(aq) : k + 1 \in 1..Len(adapterQ) /\ k + 1 # 1 /\ aq[k] = adapterQ[k + 1]
    BY <1>1, <1>3, Shortened
  <2> HIDE DEF aq
  <2>2. CommandsOnce(adapterQ)
    BY DEF Lives, LivesOf
  <2>3. ASSUME NEW k \in 1..Len(aq), IsCommand(aq[k], b) PROVE FALSE
    <3>1. k + 1 \in 1..Len(adapterQ) /\ k + 1 # 1 /\ adapterQ[k + 1].type = "command" /\ adapterQ[k + 1].batch = b
      BY <2>1, <2>3 DEF IsCommand
    <3>2. adapterQ[1].type = "command" /\ adapterQ[1].batch = b
      BY <1>1, <2>1
    <3> QED BY <2>1, <2>2, <3>1, <3>2 DEF CommandsOnce
  <2> QED BY <2>3 DEF Elements
<1> HIDE DEF aq
<1>7. \A k \in 1..Len(turns) :
         turns[k].op = "turn" /\ turns[k].batch = b /\ turns[k].item = k /\ IsTurnOf(batches, b, k)
  <2>1. turns # <<>> => Acceptable(batches[b]) /\ Len(turns) = Len(batches[b].ids)
    BY <1>1
  <2>2. \A k \in 1..Len(turns) : turns # <<>>
    OBVIOUS
  <2> QED BY <1>1, <2>1, <2>2 DEF IsTurnOf
<1>8. LivesOf(batches, aq, apiQ \o turns)
  BY <1>3, <1>4, <1>5, <1>6, <1>7, TurnsGoOut
<1> QED BY <1>1, <1>2, <1>8 DEF Lives, aq

\* One request for an item goes out.
LEMMA RequestGoesOut ==
    ASSUME NEW bs, NEW aq \in Seq(AdapterMessages), NEW pq \in Seq(ApiMessages),
           NEW r \in ApiMessages, r.op # "turn", ItemFits(bs, aq, pq, r),
           \A b : IsItem(r, b) => \A c \in Elements(aq) : ~IsCommand(c, b),
           LivesOf(bs, aq, pq)
    PROVE  LivesOf(bs, aq, Append(pq, r))
<1> DEFINE s == <<r>>
<1>1. s \in Seq(ApiMessages) /\ Elements(s) = {r} /\ Append(pq, r) = pq \o s
  BY DEF Elements
<1> HIDE DEF s
<1> QED BY <1>1, ApiAdds

LEMMA HandleTurnLives ==
    ASSUME Types, Lives, HandleTurn
    PROVE  Lives'
<1>1. PICK b \in 1..Len(batches), i \in 1..MaxItems :
         /\ Head(adapterQ).type = "turn" /\ Head(adapterQ).batch = b /\ Head(adapterQ).item = i
         /\ IsTurnOf(batches, b, i) /\ batches[b] \in Batches /\ batches[b].ids[i] \in Ids
         /\ batches' \in Seq(Batches) /\ Len(batches') = Len(batches)
         /\ \A c \in 1..Len(batches) : c # b => batches'[c] = batches[c]
         /\ adapterQ # <<>> /\ adapterQ' = Tail(adapterQ)
         /\ \/ \E r \in Requests :
                  /\ r \in ApiMessages /\ apiQ' = Append(apiQ, r)
                  /\ r.op = batches[b].op /\ r.id = batches[b].ids[i] /\ r.then = ForItem(b, i)
                  /\ r.op # "add" => r.hwId = hwIdOf[r.id]
                  /\ Same(batches'[b], batches[b])
            \/ /\ batches[b].op # "add" /\ apiQ' = apiQ
               /\ i # Len(batches[b].ids) => Same(batches'[b], batches[b])
               /\ i = Len(batches[b].ids) => batches'[b] = Deleted
  BY TurnHandled
<1> DEFINE aq == Tail(adapterQ)
<1>2. /\ adapterQ \in Seq(AdapterMessages) /\ apiQ \in Seq(ApiMessages) /\ aq \in Seq(AdapterMessages)
      /\ Elements(aq) \subseteq Elements(adapterQ) /\ Head(adapterQ) \in Elements(adapterQ)
  BY <1>1, ElementsOfTail, Shortened DEF Types
<1>3. LivesOf(batches, aq, apiQ)
  BY <1>1, <1>2, AdapterDrops DEF Lives
<1>4. \A c \in Elements(aq) : ~IsCommand(c, b)
  <2>1. HasTurn(adapterQ, apiQ, b)
    BY <1>1, <1>2 DEF HasTurn, TurnBackIn
  <2> HIDE DEF aq
  <2> QED BY <1>2, <2>1 DEF Lives, LivesOf, CommandsFit, IsCommand
<1>5. i = Len(batches[b].ids) => ~HasTurn(aq, apiQ, b)
  <2> SUFFICES ASSUME i = Len(batches[b].ids), HasTurn(aq, apiQ, b) PROVE FALSE
    OBVIOUS
  <2>0. Len(batches[b].ids) \in Nat
    BY <1>1, BatchFields
  <2>1. CASE TurnBackIn(aq, b)
    <3>1. PICK k \in 1..Len(aq) : aq[k].type = "turn" /\ aq[k].batch = b
      BY <2>1 DEF TurnBackIn, Elements
    <3>2. /\ Head(adapterQ) = adapterQ[1] /\ 1 \in 1..Len(adapterQ)
          /\ k + 1 \in 1..Len(adapterQ) /\ 1 < k + 1 /\ aq[k] = adapterQ[k + 1]
      BY <1>1, <1>2, <3>1, Shortened
    <3> HIDE DEF aq
    <3>3. i < adapterQ[k + 1].item
      BY <1>1, <3>1, <3>2 DEF Lives, LivesOf, TurnsInOrder, BackInOrder
    <3>4. adapterQ[k + 1] \in Elements(adapterQ)
      BY <3>2 DEF Elements
    <3>5. IsTurnOf(batches, b, adapterQ[k + 1].item)
      BY <3>1, <3>2, <3>4 DEF Lives, LivesOf, TurnsFit
    <3> QED BY <2>0, <3>3, <3>5 DEF IsTurnOf
  <2>2. CASE TurnIn(apiQ, b)
    <3>1. PICK m \in Elements(apiQ) : m.op = "turn" /\ m.batch = b
      BY <2>2 DEF TurnIn
    <3>2. i < m.item
      BY <1>1, <1>2, <3>1 DEF Lives, LivesOf, TurnsInOrder, BackBeforeOut
    <3>3. IsTurnOf(batches, b, m.item)
      BY <3>1 DEF Lives, LivesOf, TurnsFit
    <3> QED BY <2>0, <3>2, <3>3 DEF IsTurnOf
  <2> QED BY <2>1, <2>2 DEF HasTurn
<1> HIDE DEF aq
<1>6. b \in 0..MaxCalls /\ i \in 0..MaxItems /\ Len(batches) \in Nat
  <2>1. Head(adapterQ) \in AdapterMessages
    BY <1>1, Taken
  <2> QED BY <1>1, <2>1, AdapterFields DEF Types
<1>7. ForItem(b, i).for = "item" /\ ForItem(b, i).batch = b /\ ForItem(b, i).item = i
  BY <1>6, Purposes
<1>8. LivesOf(batches, aq, apiQ')
  <2>1. CASE apiQ' = apiQ
    BY <1>3, <2>1
  <2>2. CASE \E r \in Requests :
                /\ r \in ApiMessages /\ apiQ' = Append(apiQ, r)
                /\ r.op = batches[b].op /\ r.then = ForItem(b, i)
    <3>1. PICK r \in Requests :
                /\ r \in ApiMessages /\ apiQ' = Append(apiQ, r)
                /\ r.op = batches[b].op /\ r.then = ForItem(b, i)
      BY <2>2
    <3>2. r.op # "turn"
      BY RequestFields DEF Commands
    <3>3. ItemFits(batches, aq, apiQ, r)
      BY <1>1, <1>5, <1>7, <3>1 DEF ItemFits, IsTurnOf
    <3>4. \A c : IsItem(r, c) => c = b
      BY <1>7, <3>1 DEF IsItem
    <3> QED BY <1>2, <1>3, <1>4, <3>1, <3>2, <3>3, <3>4, RequestGoesOut
  <2> QED BY <1>1, <2>1, <2>2
<1>9. Same(batches'[b], batches[b]) \/ (batches'[b].reported /\ ~HasTurn(aq, apiQ', b))
  <2>1. CASE Same(batches'[b], batches[b])
    BY <2>1
  <2>2. CASE apiQ' = apiQ /\ i = Len(batches[b].ids) /\ batches'[b] = Deleted
    BY <1>5, <2>2, DeletedIsBatch
  <2> QED BY <1>1, <2>1, <2>2
<1>10. \A c \in 1..Len(batches) :
          \/ Same(batches'[c], batches[c])
          \/ batches'[c].reported /\ ~HasTurn(aq, apiQ', c) /\ \A m \in Elements(aq) : ~IsCommand(m, c)
  <2>1. \A c : Same(batches[c], batches[c])
    BY DEF Same
  <2> QED BY <1>1, <1>4, <1>9, <2>1
<1>11. LivesOf(batches', aq, apiQ')
  BY <1>1, <1>6, <1>8, <1>10, CommandsChange
<1> QED BY <1>1, <1>11 DEF Lives, aq

LEMMA HandleAnswerLives ==
    ASSUME Types, Lives, HandleAnswer
    PROVE  Lives'
<1>1. PICK m, ok, h, b : AnswerEffect(m, ok, h, b)
  BY AnswerHandled
<1>2. /\ adapterQ # <<>> /\ adapterQ' = Tail(adapterQ) /\ apiQ' = apiQ
      /\ m \in Requests /\ m.then.for = "item" /\ m.then.batch = b /\ b \in 1..Len(batches)
      /\ Head(adapterQ).type = "answer" /\ Head(adapterQ).to = m
      /\ Len(batches') = Len(batches) /\ Len(batches) \in Nat
  BY <1>1 DEF AnswerEffect, Types
<1> DEFINE aq == Tail(adapterQ)
<1>3. /\ adapterQ \in Seq(AdapterMessages) /\ apiQ \in Seq(ApiMessages) /\ aq \in Seq(AdapterMessages)
      /\ Elements(aq) \subseteq Elements(adapterQ) /\ Head(adapterQ) \in Elements(adapterQ)
  BY <1>2, ElementsOfTail, Shortened DEF Types
<1>4. LivesOf(batches, aq, apiQ)
  BY <1>2, <1>3, AdapterDrops DEF Lives
<1> HIDE DEF aq
<1>5. IsItem(m, b) /\ HasItem(adapterQ, apiQ, b)
  <2>1. IsItem(m, b)
    BY <1>2, RequestFields DEF IsItem
  <2> QED BY <1>2, <1>3, <2>1 DEF HasItem, AnswerIn
<1>6. \A c \in Elements(aq) : ~IsCommand(c, b)
  BY <1>3, <1>5 DEF Lives, LivesOf, CommandsFit, IsCommand
<1>7. \/ Same(batches'[b], batches[b])
      \/ batches'[b].reported /\ ~HasTurn(aq, apiQ, b)
  <2>1. CASE batches[b].reported
    <3>1. batches[b] = Deleted
      BY <1>1, <2>1, BatchFields DEF AnswerEffect
    <3> QED BY <1>1, <3>1 DEF AnswerEffect, Same
  <2>2. CASE ~batches[b].reported /\ m.then.item = Len(batches[b].ids)
    <3>1. ItemFits(batches, adapterQ, apiQ, m)
      BY <1>2, <1>3 DEF Lives, LivesOf, ItemsFit
    <3>2. ~HasTurn(adapterQ, apiQ, b)
      BY <1>2, <1>5, <2>2, <3>1 DEF ItemFits, IsItem
    <3>3. ~HasTurn(aq, apiQ, b)
      BY <1>3, <3>2 DEF HasTurn, TurnBackIn
    <3> QED BY <1>1, <3>3, DeletedIsBatch DEF AnswerEffect
  <2>3. CASE ~batches[b].reported /\ m.then.item # Len(batches[b].ids)
    BY <1>1, <2>3 DEF AnswerEffect
  <2> QED BY <2>1, <2>2, <2>3
<1>8. \A c \in 1..Len(batches) :
          \/ Same(batches'[c], batches[c])
          \/ batches'[c].reported /\ ~HasTurn(aq, apiQ, c) /\ \A n \in Elements(aq) : ~IsCommand(n, c)
  <2>1. \A c : Same(batches[c], batches[c])
    BY DEF Same
  <2>2. \A c \in 1..Len(batches) : c # b => batches'[c] = batches[c]
    BY <1>1 DEF AnswerEffect
  <2> QED BY <1>6, <1>7, <2>1, <2>2
<1>9. LivesOf(batches', aq, apiQ)
  BY <1>2, <1>4, <1>8, CommandsChange
<1> QED BY <1>2, <1>9 DEF Lives, aq

\* The adapter thread takes a message that is about no command, and sends requests that are
\* for no command.
LEMMA OtherTakenLives ==
    ASSUME Types, Lives, NEW s \in Seq(ApiMessages), adapterQ # <<>>, adapterQ' = Tail(adapterQ),
           apiQ' = apiQ \o s, batches' = batches,
           \A k \in 1..Len(s) : s[k] \in Requests /\ s[k].then.for # "item"
    PROVE  Lives'
<1> DEFINE aq == Tail(adapterQ)
<1>1. adapterQ \in Seq(AdapterMessages) /\ apiQ \in Seq(ApiMessages) /\ aq \in Seq(AdapterMessages)
  BY Shortened DEF Types
<1>2. LivesOf(batches, aq, apiQ)
  BY <1>1, AdapterDrops DEF Lives
<1> HIDE DEF aq
<1>3. \A m \in Elements(s) :
         /\ m.op # "turn" /\ ItemFits(batches, aq, apiQ, m)
         /\ \A b : IsItem(m, b) => \A c \in Elements(aq) : ~IsCommand(c, b)
  <2> TAKE m \in Elements(s)
  <2>1. m \in Requests /\ m.then.for # "item"
    BY DEF Elements
  <2>2. m.op # "turn"
    BY <2>1, RequestFields DEF Commands
  <2> QED BY <2>1, <2>2 DEF ItemFits, IsItem
<1>4. LivesOf(batches, aq, apiQ \o s)
  BY <1>1, <1>2, <1>3, ApiAdds
<1> QED BY <1>4 DEF Lives, aq

LEMMA OthersHandledLive ==
    ASSUME Types, Lives,
           HandleRemoveClient \/ HandleGone \/ HandleEngineUp \/ HandleRestored \/ HandleBreach
    PROVE  Lives'
<1>0. apiQ \in Seq(ApiMessages) /\ <<>> \in Seq(ApiMessages) /\ apiQ \o <<>> = apiQ
  BY DEF Types
<1>1. CASE HandleRemoveClient
  <2>1. PICK c, requests : GoneEffect(c, requests)
    BY <1>1, RemoveClientHandled
  <2>2. /\ requests \in Seq(ApiMessages) /\ adapterQ # <<>> /\ adapterQ' = Tail(adapterQ)
        /\ apiQ' = apiQ \o requests /\ batches' = batches /\ requests \in Seq(Requests)
        /\ \A k \in 1..Len(requests) : requests[k].then.for = "gone"
    BY <2>1 DEF GoneEffect
  <2>3. \A k \in 1..Len(requests) : requests[k] \in Requests /\ requests[k].then.for # "item"
    BY <2>2
  <2> QED BY <2>2, <2>3, OtherTakenLives
<1>2. CASE HandleEngineUp
  <2>1. PICK old, requests : RestartEffect(old, requests)
    BY <1>2, EngineUpHandled
  <2>2. /\ requests \in Seq(ApiMessages) /\ adapterQ # <<>> /\ adapterQ' = Tail(adapterQ)
        /\ apiQ' = apiQ \o requests /\ batches' = batches /\ requests \in Seq(Requests)
        /\ \A k \in 1..Len(requests) : requests[k].then.for = "restore"
    BY <2>1 DEF RestartEffect
  <2>3. \A k \in 1..Len(requests) : requests[k] \in Requests /\ requests[k].then.for # "item"
    BY <2>2
  <2> QED BY <2>2, <2>3, OtherTakenLives
<1>3. CASE HandleGone \/ HandleBreach
  <2>1. adapterQ # <<>> /\ adapterQ' = Tail(adapterQ) /\ apiQ' = apiQ \o <<>> /\ batches' = batches
    BY <1>0, <1>3 DEF HandleGone, HandleBreach, Take, TakeAnswer, engineSide
  <2>2. \A k \in 1..Len(<<>>) : <<>>[k] \in Requests /\ <<>>[k].then.for # "item"
    OBVIOUS
  <2> QED BY <1>0, <2>1, <2>2, OtherTakenLives
<1>4. CASE HandleRestored
  <2>1. PICK m, ok, h : RestoredEffect(m, ok, h)
    BY <1>4, RestoredHandled
  <2>2. adapterQ # <<>> /\ adapterQ' = Tail(adapterQ) /\ batches' = batches
    BY <2>1 DEF RestoredEffect
  <2>3. CASE apiQ' = apiQ
    <3>1. apiQ' = apiQ \o <<>> /\ \A k \in 1..Len(<<>>) : <<>>[k] \in Requests /\ <<>>[k].then.for # "item"
      BY <1>0, <2>3
    <3> QED BY <1>0, <2>2, <3>1, OtherTakenLives
  <2>4. CASE \E r \in Requests : r \in ApiMessages /\ apiQ' = Append(apiQ, r) /\ r.then.for = "nobody"
    <3>1. PICK r \in Requests : r \in ApiMessages /\ apiQ' = Append(apiQ, r) /\ r.then.for = "nobody"
      BY <2>4
    <3> DEFINE s == <<r>>
    <3>2. s \in Seq(ApiMessages) /\ apiQ' = apiQ \o s /\ Len(s) = 1 /\ s[1] = r
      BY <1>0, <3>1
    <3> HIDE DEF s
    <3>3. \A k \in 1..Len(s) : s[k] \in Requests /\ s[k].then.for # "item"
      BY <3>1, <3>2
    <3> QED BY <2>2, <3>2, <3>3, OtherTakenLives
  <2> QED BY <2>1, <2>3, <2>4 DEF RestoredEffect
<1> QED BY <1>1, <1>2, <1>3, <1>4

\* A request is answered, or nobody waits for the answer.
LEMMA RepliesLive ==
    ASSUME Types, Lives, NEW m \in Requests, NEW ok, NEW h, Replies(m, ok, h),
           apiQ # <<>>, Head(apiQ) = m, apiQ' = Tail(apiQ), batches' = batches
    PROVE  Lives'
<1> DEFINE pq == Tail(apiQ)
<1>1. /\ adapterQ \in Seq(AdapterMessages) /\ apiQ \in Seq(ApiMessages) /\ pq \in Seq(ApiMessages)
      /\ Elements(pq) \subseteq Elements(apiQ) /\ m \in Elements(apiQ)
  BY ElementsOfTail, Shortened DEF Types
<1>2. LivesOf(batches, adapterQ, pq)
  BY <1>1, ApiDrops DEF Lives
<1> HIDE DEF pq
<1>3. ItemFits(batches, adapterQ, pq, m)
  <2>1. ItemFits(batches, adapterQ, apiQ, m)
    BY <1>1 DEF Lives, LivesOf, ItemsFit
  <2>2. \A b : HasTurn(adapterQ, pq, b) => HasTurn(adapterQ, apiQ, b)
    BY <1>1 DEF HasTurn, TurnIn
  <2> QED BY <2>1, <2>2 DEF ItemFits
<1>4. \A b : IsItem(m, b) => \A c \in Elements(adapterQ) : ~IsCommand(c, b)
  <2> SUFFICES ASSUME NEW b, IsItem(m, b) PROVE \A c \in Elements(adapterQ) : ~IsCommand(c, b)
    OBVIOUS
  <2>1. HasItem(adapterQ, apiQ, b)
    BY <1>1 DEF HasItem, RequestIn
  <2> QED BY <2>1 DEF Lives, LivesOf, CommandsFit, IsCommand
<1>5. CASE adapterQ' = adapterQ
  BY <1>2, <1>5 DEF Lives, pq
<1>6. CASE \E a \in Answers : a \in AdapterMessages /\ adapterQ' = Append(adapterQ, a)
                              /\ a.type = "answer" /\ a.to = m
  <2>1. PICK a \in AdapterMessages : adapterQ' = Append(adapterQ, a) /\ a.type = "answer" /\ a.to = m
    BY <1>6
  <2>2. LivesOf(batches, Append(adapterQ, a), pq)
    BY <1>1, <1>2, <1>3, <1>4, <2>1, AdapterAdds
  <2> QED BY <2>1, <2>2 DEF Lives, pq
<1> QED BY <1>5, <1>6 DEF Replies

LEMMA ApiThreadLives ==
    ASSUME Types, Lives, ApiThread
    PROVE  Lives'
<1>1. CASE ReturnTurn
  <2>1. PICK m \in TurnMessages :
          /\ m \in AdapterMessages /\ m.type = "turn"
          /\ apiQ # <<>> /\ Head(apiQ).op = "turn" /\ apiQ' = Tail(apiQ)
          /\ m.batch = Head(apiQ).batch /\ m.item = Head(apiQ).item
          /\ adapterQ' = Append(adapterQ, m)
          /\ UNCHANGED batches
    BY <1>1, TurnReturns
  <2>2. adapterQ \in Seq(AdapterMessages) /\ apiQ \in Seq(ApiMessages)
    BY DEF Types
  <2>3. LivesOf(batches, Append(adapterQ, m), Tail(apiQ))
    BY <2>1, <2>2, TurnComesBack DEF Lives
  <2> QED BY <2>1, <2>3 DEF Lives
<1>2. CASE Serve
  <2>1. PICK m, h : ServeEffect(m, h)
    BY <1>2, Serves
  <2>2. m \in Requests /\ Replies(m, TRUE, h) /\ apiQ # <<>> /\ Head(apiQ) = m /\ apiQ' = Tail(apiQ)
        /\ batches' = batches
    BY <2>1 DEF ServeEffect
  <2> QED BY <2>2, RepliesLive
<1>3. CASE Fail
  <2>1. PICK m : FailEffect(m)
    BY <1>3, Fails
  <2>2. m \in Requests /\ Replies(m, FALSE, m.hwId) /\ apiQ # <<>> /\ Head(apiQ) = m /\ apiQ' = Tail(apiQ)
        /\ batches' = batches
    BY <2>1 DEF FailEffect
  <2> QED BY <2>2, RepliesLive
<1>4. CASE Reopen
  <2>1. [type |-> "engineUp"] \in AdapterMessages
    BY DEF AdapterMessages, UpMessages
  <2>2. adapterQ' = Append(adapterQ, [type |-> "engineUp"]) /\ apiQ # <<>> /\ apiQ' = Tail(apiQ)
        /\ batches' = batches
    BY <1>4 DEF Reopen
  <2> QED BY <2>1, <2>2, MessageLives
<1> QED BY <1>1, <1>2, <1>3, <1>4 DEF ApiThread

LEMMA InitLives == Init => Lives
<1> SUFFICES ASSUME Init PROVE Lives
  OBVIOUS
<1>1. Elements(adapterQ) = {} /\ Elements(apiQ) = {} /\ Len(adapterQ) = 0 /\ Len(apiQ) = 0
  BY DEF Init, Elements
<1> QED BY <1>1 DEF Lives, LivesOf, CommandsFit, CommandsOnce, TurnsFit, TurnsInOrder, BackInOrder,
                    OutInOrder, BackBeforeOut, ItemsFit

LEMMA NextLives == Types /\ Lives /\ [Next]_vars => Lives'
<1> SUFFICES ASSUME Types, Lives, [Next]_vars PROVE Lives'
  OBVIOUS
<1>1. CASE UNCHANGED vars
  <2>1. adapterQ' = adapterQ /\ apiQ' = apiQ /\ batches' = batches
    BY <1>1 DEF vars, engineSide
  <2> QED BY <2>1 DEF Lives
<1> QED BY <1>1, CallsLive, HandleCommandLives, HandleTurnLives, HandleAnswerLives, OthersHandledLive,
           ApiThreadLives
        DEF Next, AdapterThread

\* The variables have their types: the maps hold fences and hardware ids, every command is
\* one that a client gave, with its ids and errors in step, and every message is one of
\* those that GeofenceAdapter and LocApiBase send.
THEOREM GeofenceTypes == Spec => []TypeOK
<1>1. Init => Types /\ Lives
  BY InitTypes, InitLives
<1>2. Types /\ Lives /\ [Next]_vars => (Types /\ Lives)'
  BY NextTypes, NextLives
<1>3. Types => TypeOK
  <2> SUFFICES ASSUME Types PROVE TypeOK
    OBVIOUS
  <2>1. \A b \in 1..Len(batches) :
           /\ batches[b].op \in Commands \cup {"deleted"}
           /\ batches[b].client \in Clients \cup {Nobody}
           /\ batches[b].ids \in Seq(Ids)
           /\ batches[b].errs \in [1..Len(batches[b].ids) -> Errors]
    <3> TAKE b \in 1..Len(batches)
    <3>1. batches[b] \in Batches
      BY DEF Types
    <3>2. batches[b].errs \in Seq(Errors) /\ Len(batches[b].errs) = Len(batches[b].ids)
      BY <3>1, BatchFields
    <3> QED BY <3>1, <3>2, BatchFields
  <2>2. \A k \in 1..Len(adapterQ) : adapterQ[k].type = "answer" => adapterQ[k].to.then \in Thens
    <3>1. \A k \in 1..Len(adapterQ) : adapterQ[k] \in AdapterMessages
      BY DEF Types
    <3> QED BY <3>1, AdapterFields, RequestFields
  <2>3. \A k \in 1..Len(apiQ) : apiQ[k].op \in Commands \cup {"turn", "ssr"}
    <3>1. \A k \in 1..Len(apiQ) : apiQ[k] \in ApiMessages
      BY DEF Types
    <3> QED BY <3>1, ApiFields
  <2> QED BY <2>1, <2>2, <2>3 DEF Types, TypeOK
<1> QED BY <1>1, <1>2, <1>3, PTL DEF Spec

-----------------------------------------------------------------------------
(* Every command is answered: until it is, its last item is on its way.      *)

\* A message to the adapter, and one to the API thread, from which the end of b comes.
EndsBy(bs, m, b) ==
    \/ IsCommand(m, b)
    \/ m.type = "turn" /\ m.batch = b /\ m.item = Len(bs[b].ids)
    \/ m.type = "answer" /\ IsItem(m.to, b) /\ m.to.then.item = Len(bs[b].ids)
EndsOutBy(bs, m, b) ==
    \/ m.op = "turn" /\ m.batch = b /\ m.item = Len(bs[b].ids)
    \/ IsItem(m, b) /\ m.then.item = Len(bs[b].ids)

Ends(bs, aq, pq, b) ==
    \/ \E m \in Elements(aq) : EndsBy(bs, m, b)
    \/ \E m \in Elements(pq) : EndsOutBy(bs, m, b)

Waits(batch) == ~batch.reported /\ Acceptable(batch) /\ batch.op # "resume"

Pending == \A b \in 1..Len(batches) : Waits(batches[b]) => Ends(batches, adapterQ, apiQ, b)

\* What keeps the end of a command, and what the adapter takes of it.
LEMMA EndsStay ==
    ASSUME NEW bs, NEW aq, NEW pq, NEW bs2, NEW aq2, NEW pq2, NEW b, bs2[b].ids = bs[b].ids,
           Elements(aq) \subseteq Elements(aq2), Elements(pq) \subseteq Elements(pq2),
           Ends(bs, aq, pq, b)
    PROVE  Ends(bs2, aq2, pq2, b)
BY DEF Ends, EndsBy, EndsOutBy

LEMMA SameWaits ==
    ASSUME NEW batch, NEW was, Same(batch, was)
    PROVE  (Waits(batch) <=> Waits(was)) /\ batch.ids = was.ids
BY DEF Same, Waits, Acceptable

\* The messages of before are still there, but the first of the adapter.
LEMMA TakenPending ==
    ASSUME Types, Pending, adapterQ # <<>>, adapterQ' = Tail(adapterQ),
           Elements(apiQ) \subseteq Elements(apiQ'), Len(batches') = Len(batches),
           \A b \in 1..Len(batches) :
              /\ Same(batches'[b], batches[b]) \/ ~Waits(batches'[b])
              /\ EndsBy(batches, Head(adapterQ), b) =>
                    ~Waits(batches'[b]) \/ Ends(batches', adapterQ', apiQ', b)
    PROVE  Pending'
<1> SUFFICES ASSUME NEW b \in 1..Len(batches), Waits(batches'[b]) PROVE Ends(batches', adapterQ', apiQ', b)
  BY DEF Pending
<1>1. Waits(batches[b]) /\ batches'[b].ids = batches[b].ids
  BY SameWaits
<1>2. Ends(batches, adapterQ, apiQ, b)
  BY <1>1 DEF Pending
<1>3. Elements(adapterQ) = {Head(adapterQ)} \cup Elements(Tail(adapterQ))
  BY ElementsOfTail DEF Types
<1>4. CASE EndsBy(batches, Head(adapterQ), b)
  BY <1>4
<1>5. CASE Ends(batches, Tail(adapterQ), apiQ, b)
  <2>1. Elements(Tail(adapterQ)) \subseteq Elements(adapterQ') /\ Elements(apiQ) \subseteq Elements(apiQ')
    BY DEF Elements
  <2> QED BY <1>1, <1>5, <2>1, EndsStay
<1> QED BY <1>2, <1>3, <1>4, <1>5 DEF Ends

\* All messages of before are still there, and the commands too.
LEMMA GrowingPending ==
    ASSUME Pending, Elements(adapterQ) \subseteq Elements(adapterQ'), Elements(apiQ) \subseteq Elements(apiQ'),
           UNCHANGED batches
    PROVE  Pending'
<1> SUFFICES ASSUME NEW b \in 1..Len(batches), Waits(batches[b]) PROVE Ends(batches', adapterQ', apiQ', b)
  BY DEF Pending
<1>1. Ends(batches, adapterQ, apiQ, b)
  BY DEF Pending
<1>2. batches'[b].ids = batches[b].ids
  OBVIOUS
<1> QED BY <1>1, <1>2, EndsStay

LEMMA CommandPending ==
    ASSUME Types, Pending, NEW batch, CommandEffect(batch)
    PROVE  Pending'
<1> DEFINE m == [type |-> "command", batch |-> Len(batches) + 1]
<1>1. /\ m \in AdapterMessages /\ IsCommand(m, Len(batches) + 1)
      /\ adapterQ' = Append(adapterQ, m) /\ apiQ' = apiQ
      /\ Len(batches') = Len(batches) + 1 /\ Len(batches) \in Nat
      /\ \A b \in 1..Len(batches) : batches'[b] = batches[b]
  BY DEF CommandEffect, IsCommand
<1> HIDE DEF m
<1>2. Elements(adapterQ') = Elements(adapterQ) \cup {m}
  BY <1>1, ElementsOfAppend DEF Types
<1> SUFFICES ASSUME NEW b \in 1..Len(batches'), Waits(batches'[b]) PROVE Ends(batches', adapterQ', apiQ', b)
  BY DEF Pending
<1>3. CASE b \in 1..Len(batches)
  <2>1. Ends(batches, adapterQ, apiQ, b)
    BY <1>1, <1>3 DEF Pending
  <2> QED BY <1>1, <1>2, <1>3, <2>1, EndsStay
<1>4. CASE b = Len(batches) + 1
  BY <1>1, <1>2, <1>4 DEF Ends, EndsBy
<1> QED BY <1>1, <1>3, <1>4

\* Messages are only added.
LEMMA MessagesAdded ==
    ASSUME Types, NEW m \in AdapterMessages, adapterQ' = Append(adapterQ, m)
    PROVE  Elements(adapterQ') = Elements(adapterQ) \cup {m}
BY ElementsOfAppend DEF Types

LEMMA RequestsAdded ==
    ASSUME Types, NEW s \in Seq(ApiMessages), apiQ' = apiQ \o s
    PROVE  Elements(apiQ') = Elements(apiQ) \cup Elements(s)
BY ElementsOfJoin DEF Types

LEMMA RequestAdded ==
    ASSUME Types, NEW r \in ApiMessages, apiQ' = Append(apiQ, r)
    PROVE  Elements(apiQ') = Elements(apiQ) \cup {r}
BY ElementsOfAppend DEF Types

LEMMA CallsPending ==
    ASSUME Types, Pending, AddGeofences \/ OtherCommand \/ RemoveClient \/ EngineCrash \/ Breach
    PROVE  Pending'
<1>1. CASE AddGeofences
  BY <1>1, Adds, CommandPending DEF AddEffect
<1>2. CASE OtherCommand
  BY <1>2, Others, CommandPending DEF OtherEffect
<1>3. CASE RemoveClient
  <2>1. PICK c \in clients :
          /\ adapterQ' = Append(adapterQ, [type |-> "removeClient", client |-> c])
          /\ UNCHANGED <<batches, engineSide>>
    BY <1>3 DEF RemoveClient
  <2>2. [type |-> "removeClient", client |-> c] \in AdapterMessages
    BY DEF Types, AdapterMessages, RemoveMessages
  <2>3. Elements(adapterQ) \subseteq Elements(adapterQ')
    BY <2>1, <2>2, MessagesAdded
  <2> QED BY <2>1, <2>3, GrowingPending DEF engineSide
<1>4. CASE EngineCrash
  <2>1. [op |-> "ssr"] \in ApiMessages
    BY DEF ApiMessages
  <2>2. Elements(apiQ) \subseteq Elements(apiQ') /\ adapterQ' = adapterQ /\ batches' = batches
    BY <1>4, <2>1, RequestAdded DEF EngineCrash
  <2> QED BY <2>2, GrowingPending
<1>5. CASE Breach
  <2>1. PICK m \in AdapterMessages : adapterQ' = Append(adapterQ, m) /\ UNCHANGED <<batches, engineSide>>
    BY <1>5, BreachSent
  <2>2. Elements(adapterQ) \subseteq Elements(adapterQ')
    BY <2>1, MessagesAdded
  <2> QED BY <2>1, <2>2, GrowingPending DEF engineSide
<1> QED BY <1>1, <1>2, <1>3, <1>4, <1>5

LEMMA HandleCommandPending ==
    ASSUME Types, Lives, Pending, HandleCommand
    PROVE  Pending'
<1>1. PICK c \in 1..Len(batches), turns \in Seq(ApiMessages) :
         /\ Head(adapterQ).type = "command" /\ Head(adapterQ).batch = c
         /\ ~batches[c].reported /\ batches[c] \in Batches
         /\ adapterQ # <<>> /\ adapterQ' = Tail(adapterQ)
         /\ apiQ' = apiQ \o turns
         /\ \A k \in 1..Len(turns) :
               turns[k] = Turn(c, k) /\ turns[k].op = "turn" /\ turns[k].batch = c /\ turns[k].item = k
         /\ Acceptable(batches[c]) => Len(turns) = Len(batches[c].ids)
  BY CommandHandled
<1>2. batches' = batches
  BY DEF HandleCommand
<1>3. Elements(apiQ') = Elements(apiQ) \cup Elements(turns)
  BY <1>1, RequestsAdded
<1>4. \A b \in 1..Len(batches) :
         /\ Same(batches'[b], batches[b]) \/ ~Waits(batches'[b])
         /\ EndsBy(batches, Head(adapterQ), b) => ~Waits(batches'[b]) \/ Ends(batches', adapterQ', apiQ', b)
  <2> TAKE b \in 1..Len(batches)
  <2>1. Same(batches'[b], batches[b])
    BY <1>2 DEF Same
  <2>2. EndsBy(batches, Head(adapterQ), b) => b = c
    BY <1>1 DEF EndsBy, IsCommand
  <2>3. Waits(batches[c]) => Ends(batches', adapterQ', apiQ', c)
    <3> SUFFICES ASSUME Waits(batches[c]) PROVE Ends(batches', adapterQ', apiQ', c)
      OBVIOUS
    <3> DEFINE n == Len(batches[c].ids)
    <3>1. n \in Nat /\ n > 0 /\ Len(turns) = n
      BY <1>1, BatchFields DEF Waits
    <3>2. turns[n] \in Elements(turns) /\ EndsOutBy(batches, turns[n], c)
      BY <1>1, <3>1 DEF Elements, EndsOutBy
    <3> QED BY <1>2, <1>3, <3>2 DEF Ends
  <2> QED BY <1>2, <2>1, <2>2, <2>3
<1> QED BY <1>1, <1>2, <1>3, <1>4, TakenPending

LEMMA HandleTurnPending ==
    ASSUME Types, Lives, Pending, HandleTurn
    PROVE  Pending'
<1>1. PICK c \in 1..Len(batches), i \in 1..MaxItems :
         /\ Head(adapterQ).type = "turn" /\ Head(adapterQ).batch = c /\ Head(adapterQ).item = i
         /\ Len(batches') = Len(batches)
         /\ \A b \in 1..Len(batches) : b # c => batches'[b] = batches[b]
         /\ adapterQ # <<>> /\ adapterQ' = Tail(adapterQ)
         /\ \/ \E r \in Requests :
                  /\ r \in ApiMessages /\ apiQ' = Append(apiQ, r)
                  /\ r.op = batches[c].op /\ r.then = ForItem(c, i)
                  /\ Same(batches'[c], batches[c])
            \/ /\ apiQ' = apiQ
               /\ i # Len(batches[c].ids) => Same(batches'[c], batches[c])
               /\ i = Len(batches[c].ids) => batches'[c] = Deleted
  BY TurnHandled
<1>2. Elements(apiQ) \subseteq Elements(apiQ')
  <2>1. CASE apiQ' = apiQ
    BY <2>1
  <2>2. CASE \E r \in ApiMessages : apiQ' = Append(apiQ, r)
    BY <2>2, RequestAdded
  <2> QED BY <1>1, <2>1, <2>2
<1>3. ForItem(c, i).for = "item" /\ ForItem(c, i).batch = c /\ ForItem(c, i).item = i
  BY DEF ForItem
<1>4. \A b \in 1..Len(batches) : Same(batches'[b], batches[b]) \/ ~Waits(batches'[b])
  <2>1. \A b : Same(batches[b], batches[b])
    BY DEF Same
  <2>2. ~Waits(Deleted)
    BY DeletedIsBatch DEF Waits
  <2> QED BY <1>1, <2>1, <2>2
<1>5. \A b \in 1..Len(batches) :
         EndsBy(batches, Head(adapterQ), b) => b = c /\ i = Len(batches[c].ids)
  BY <1>1 DEF EndsBy, IsCommand
<1>6. i = Len(batches[c].ids) => ~Waits(batches'[c]) \/ Ends(batches', adapterQ', apiQ', c)
  <2>1. CASE \E r \in Requests :
                /\ r \in ApiMessages /\ apiQ' = Append(apiQ, r)
                /\ r.op = batches[c].op /\ r.then = ForItem(c, i)
                /\ Same(batches'[c], batches[c])
    <3>1. PICK r \in Requests :
                /\ r \in ApiMessages /\ apiQ' = Append(apiQ, r)
                /\ r.then = ForItem(c, i) /\ Same(batches'[c], batches[c])
      BY <2>1
    <3>2. IsItem(r, c) /\ r.then.item = i /\ batches'[c].ids = batches[c].ids
      BY <1>3, <3>1, RequestFields DEF IsItem, Same
    <3>3. r \in Elements(apiQ')
      BY <3>1, RequestAdded
    <3> QED BY <3>2, <3>3 DEF Ends, EndsOutBy
  <2>2. CASE i = Len(batches[c].ids) => batches'[c] = Deleted
    BY <2>2, DeletedIsBatch DEF Waits
  <2> QED BY <1>1, <2>1, <2>2
<1> QED BY <1>1, <1>2, <1>4, <1>5, <1>6, TakenPending

LEMMA HandleAnswerPending ==
    ASSUME Types, Lives, Pending, HandleAnswer
    PROVE  Pending'
<1>1. PICK m, ok, h, c : AnswerEffect(m, ok, h, c)
  BY AnswerHandled
<1>2. /\ adapterQ # <<>> /\ adapterQ' = Tail(adapterQ) /\ apiQ' = apiQ
      /\ m \in Requests /\ m.then.for = "item" /\ m.then.batch = c /\ c \in 1..Len(batches)
      /\ Head(adapterQ).type = "answer" /\ Head(adapterQ).to = m
      /\ Len(batches') = Len(batches)
      /\ \A b \in 1..Len(batches) : b # c => batches'[b] = batches[b]
      /\ Same(batches'[c], batches[c]) \/ batches'[c] = Deleted
      /\ m.op # "resume" /\ m.then.item = Len(batches[c].ids) => batches'[c] = Deleted
      /\ ~batches[c].reported => m.op = batches[c].op
  BY <1>1 DEF AnswerEffect
<1>3. \A b \in 1..Len(batches) : Same(batches'[b], batches[b]) \/ ~Waits(batches'[b])
  <2>1. \A b : Same(batches[b], batches[b])
    BY DEF Same
  <2>2. ~Waits(Deleted)
    BY DeletedIsBatch DEF Waits
  <2> QED BY <1>2, <2>1, <2>2
<1>4. \A b \in 1..Len(batches) :
         EndsBy(batches, Head(adapterQ), b) => b = c /\ m.then.item = Len(batches[c].ids)
  BY <1>2 DEF EndsBy, IsCommand, IsItem
<1>5. m.then.item = Len(batches[c].ids) => ~Waits(batches'[c])
  <2>1. CASE batches'[c] = Deleted
    BY <2>1, DeletedIsBatch DEF Waits
  <2>2. CASE m.op = "resume" /\ Same(batches'[c], batches[c])
    <3>1. Waits(batches'[c]) => ~batches[c].reported /\ batches[c].op # "resume"
      BY <2>2, SameWaits DEF Waits
    <3> QED BY <1>2, <2>2, <3>1
  <2> QED BY <1>2, <2>1, <2>2
<1>6. Elements(apiQ) \subseteq Elements(apiQ')
  BY <1>2
<1> QED BY <1>2, <1>3, <1>4, <1>5, <1>6, TakenPending

\* The adapter takes a message that ends no command.
LEMMA OtherTakenPending ==
    ASSUME Types, Pending, adapterQ # <<>>, adapterQ' = Tail(adapterQ), batches' = batches,
           Elements(apiQ) \subseteq Elements(apiQ'),
           Head(adapterQ).type \notin {"command", "turn"},
           Head(adapterQ).type = "answer" => Head(adapterQ).to.then.for # "item"
    PROVE  Pending'
<1>1. \A b \in 1..Len(batches) : Same(batches'[b], batches[b]) /\ ~EndsBy(batches, Head(adapterQ), b)
  BY DEF Same, EndsBy, IsCommand, IsItem
<1> QED BY <1>1, TakenPending

LEMMA OthersHandledPending ==
    ASSUME Types, Pending,
           HandleRemoveClient \/ HandleGone \/ HandleEngineUp \/ HandleRestored \/ HandleBreach
    PROVE  Pending'
<1>1. CASE HandleRemoveClient
  <2>1. PICK c, requests : GoneEffect(c, requests)
    BY <1>1, RemoveClientHandled
  <2>2. Elements(apiQ) \subseteq Elements(apiQ')
    BY <2>1, RequestsAdded DEF GoneEffect
  <2>3. adapterQ # <<>> /\ adapterQ' = Tail(adapterQ) /\ batches' = batches /\ Head(adapterQ).type = "removeClient"
    BY <2>1 DEF GoneEffect
  <2> QED BY <2>2, <2>3, OtherTakenPending
<1>2. CASE HandleEngineUp
  <2>1. PICK old, requests : RestartEffect(old, requests)
    BY <1>2, EngineUpHandled
  <2>2. Elements(apiQ) \subseteq Elements(apiQ')
    BY <2>1, RequestsAdded DEF RestartEffect
  <2>3. adapterQ # <<>> /\ adapterQ' = Tail(adapterQ) /\ batches' = batches /\ Head(adapterQ).type = "engineUp"
    BY <2>1 DEF RestartEffect
  <2> QED BY <2>2, <2>3, OtherTakenPending
<1>3. CASE HandleGone
  <2>1. /\ adapterQ # <<>> /\ adapterQ' = Tail(adapterQ) /\ apiQ' = apiQ /\ batches' = batches
        /\ Head(adapterQ).type = "answer" /\ Head(adapterQ).to.then.for = "gone"
    BY <1>3 DEF HandleGone, Take, TakeAnswer, engineSide
  <2> QED BY <2>1, OtherTakenPending
<1>4. CASE HandleBreach
  <2>1. /\ adapterQ # <<>> /\ adapterQ' = Tail(adapterQ) /\ apiQ' = apiQ /\ batches' = batches
        /\ Head(adapterQ).type = "breach"
    BY <1>4 DEF HandleBreach, Take, engineSide
  <2> QED BY <2>1, OtherTakenPending
<1>5. CASE HandleRestored
  <2>1. PICK m, ok, h : RestoredEffect(m, ok, h)
    BY <1>5, RestoredHandled
  <2>2. Elements(apiQ) \subseteq Elements(apiQ')
    BY <2>1, RequestAdded DEF RestoredEffect
  <2>3. /\ adapterQ # <<>> /\ adapterQ' = Tail(adapterQ) /\ batches' = batches
        /\ Head(adapterQ).type = "answer" /\ Head(adapterQ).to.then.for = "restore"
    BY <2>1 DEF RestoredEffect
  <2> QED BY <2>2, <2>3, OtherTakenPending
<1> QED BY <1>1, <1>2, <1>3, <1>4, <1>5

\* The API thread has taken its first message, and whatever end it was comes back.
LEMMA ApiTakenPending ==
    ASSUME Types, Pending, apiQ # <<>>, apiQ' = Tail(apiQ), batches' = batches,
           Elements(adapterQ) \subseteq Elements(adapterQ'),
           \A b \in 1..Len(batches) : EndsOutBy(batches, Head(apiQ), b) =>
              \E m \in Elements(adapterQ') : EndsBy(batches, m, b)
    PROVE  Pending'
<1> SUFFICES ASSUME NEW b \in 1..Len(batches), Waits(batches[b]) PROVE Ends(batches', adapterQ', apiQ', b)
  BY DEF Pending
<1>1. Ends(batches, adapterQ, apiQ, b)
  BY DEF Pending
<1>2. Elements(apiQ) = {Head(apiQ)} \cup Elements(apiQ')
  BY ElementsOfTail DEF Types
<1> QED BY <1>1, <1>2 DEF Ends

LEMMA RepliesPending ==
    ASSUME Types, Pending, NEW m \in Requests, NEW ok, NEW h, Replies(m, ok, h),
           apiQ # <<>>, Head(apiQ) = m, apiQ' = Tail(apiQ), batches' = batches
    PROVE  Pending'
<1>1. \A b : EndsOutBy(batches, m, b) => m.then.for = "item" /\ IsItem(m, b) /\ m.then.item = Len(batches[b].ids)
  BY RequestFields DEF EndsOutBy, IsItem, Commands
<1>2. CASE m.then.for = "nobody" /\ adapterQ' = adapterQ
  <2>1. \A b : ~EndsOutBy(batches, m, b)
    BY <1>1, <1>2
  <2> QED BY <1>2, <2>1, ApiTakenPending
<1>3. CASE \E a \in Answers : a \in AdapterMessages /\ adapterQ' = Append(adapterQ, a)
                              /\ a.type = "answer" /\ a.to = m
  <2>1. PICK a \in AdapterMessages : adapterQ' = Append(adapterQ, a) /\ a.type = "answer" /\ a.to = m
    BY <1>3
  <2>2. Elements(adapterQ') = Elements(adapterQ) \cup {a}
    BY <2>1, MessagesAdded
  <2>3. \A b : EndsOutBy(batches, m, b) => EndsBy(batches, a, b)
    BY <1>1, <2>1 DEF EndsBy
  <2> QED BY <2>2, <2>3, ApiTakenPending
<1> QED BY <1>2, <1>3 DEF Replies

LEMMA ApiThreadPending ==
    ASSUME Types, Pending, ApiThread
    PROVE  Pending'
<1>1. CASE ReturnTurn
  <2>1. PICK m \in TurnMessages :
          /\ m \in AdapterMessages /\ m.type = "turn"
          /\ apiQ # <<>> /\ Head(apiQ).op = "turn" /\ apiQ' = Tail(apiQ)
          /\ m.batch = Head(apiQ).batch /\ m.item = Head(apiQ).item
          /\ adapterQ' = Append(adapterQ, m)
          /\ UNCHANGED batches
    BY <1>1, TurnReturns
  <2>2. Elements(adapterQ') = Elements(adapterQ) \cup {m}
    BY <2>1, MessagesAdded
  <2>3. \A b : EndsOutBy(batches, Head(apiQ), b) => EndsBy(batches, m, b)
    BY <2>1 DEF EndsBy, EndsOutBy, IsItem, Commands
  <2> QED BY <2>1, <2>2, <2>3, ApiTakenPending
<1>2. CASE Serve
  <2>1. PICK m, h : ServeEffect(m, h)
    BY <1>2, Serves
  <2>2. m \in Requests /\ Replies(m, TRUE, h) /\ apiQ # <<>> /\ Head(apiQ) = m /\ apiQ' = Tail(apiQ)
        /\ batches' = batches
    BY <2>1 DEF ServeEffect
  <2> QED BY <2>2, RepliesPending
<1>3. CASE Fail
  <2>1. PICK m : FailEffect(m)
    BY <1>3, Fails
  <2>2. m \in Requests /\ Replies(m, FALSE, m.hwId) /\ apiQ # <<>> /\ Head(apiQ) = m /\ apiQ' = Tail(apiQ)
        /\ batches' = batches
    BY <2>1 DEF FailEffect
  <2> QED BY <2>2, RepliesPending
<1>4. CASE Reopen
  <2>1. [type |-> "engineUp"] \in AdapterMessages
    BY DEF AdapterMessages, UpMessages
  <2>2. adapterQ' = Append(adapterQ, [type |-> "engineUp"]) /\ apiQ # <<>> /\ apiQ' = Tail(apiQ)
        /\ batches' = batches /\ Head(apiQ).op = "ssr"
    BY <1>4 DEF Reopen
  <2>3. Elements(adapterQ) \subseteq Elements(adapterQ')
    BY <2>1, <2>2, MessagesAdded
  <2>4. \A b : ~EndsOutBy(batches, Head(apiQ), b)
    BY <2>2 DEF EndsOutBy, IsItem, Commands
  <2> QED BY <2>2, <2>3, <2>4, ApiTakenPending
<1> QED BY <1>1, <1>2, <1>3, <1>4 DEF ApiThread

LEMMA NextPending == Types /\ Lives /\ Pending /\ [Next]_vars => Pending'
<1> SUFFICES ASSUME Types, Lives, Pending, [Next]_vars PROVE Pending'
  OBVIOUS
<1>1. CASE UNCHANGED vars
  BY <1>1, GrowingPending DEF vars, engineSide
<1> QED BY <1>1, CallsPending, HandleCommandPending, HandleTurnPending, HandleAnswerPending,
           OthersHandledPending, ApiThreadPending
        DEF Next, AdapterThread

\* At rest every command was answered, one response for all its items, whatever the engine
\* refused, whatever went and whenever the engine was restarted; but a command that lacked
\* its options is never answered, and one to resume is not if the engine refuses.
THEOREM GeofenceAnswers == Spec => []CommandsAnswered
<1>1. Init => Types /\ Lives /\ Pending
  <2>1. Init => Pending
    BY DEF Init, Pending
  <2> QED BY <2>1, InitTypes, InitLives
<1>2. Types /\ Lives /\ Pending /\ [Next]_vars => (Types /\ Lives /\ Pending)'
  BY NextTypes, NextLives, NextPending
<1>3. Types /\ Lives /\ Pending => CommandsAnswered
  <2> SUFFICES ASSUME Types, Pending, AtRest,
                      NEW b \in 1..Len(batches), Acceptable(batches[b]), batches[b].op # "resume"
               PROVE  batches[b].reported
    BY DEF CommandsAnswered
  <2>1. Elements(adapterQ) = {} /\ Elements(apiQ) = {}
    BY DEF AtRest, Elements
  <2>2. ~Ends(batches, adapterQ, apiQ, b)
    BY <2>1 DEF Ends
  <2>3. batches[b] \in Batches
    BY DEF Types
  <2>4. batches[b].reported \in BOOLEAN
    BY <2>3, BatchFields
  <2> QED BY <2>2, <2>4 DEF Pending, Waits
<1> QED BY <1>1, <1>2, <1>3, PTL DEF Spec

-----------------------------------------------------------------------------
(* The ids that are about were handed out.                                  *)

Known == 1..Len(owner)

KnownIds ==
    /\ \A b \in 1..Len(batches) : \A i \in 1..Len(batches[b].ids) : batches[b].ids[i] \in Known
    /\ \A h \in HwIds : fences[h] # NoFence => fences[h].id \in Known
    /\ \A m \in Elements(apiQ) : m.op \in Commands => m.id \in Known
    /\ \A m \in Elements(adapterQ) : m.type = "answer" => m.to.id \in Known

\* The commands of after are those of before, or deleted.
LEMMA KeptCommandsKnown ==
    ASSUME KnownIds, UNCHANGED owner, Len(batches') = Len(batches),
           \A b \in 1..Len(batches) : Same(batches'[b], batches[b]) \/ batches'[b] = Deleted
    PROVE  \A b \in 1..Len(batches') : \A i \in 1..Len(batches'[b].ids) : batches'[b].ids[i] \in Known'
<1> TAKE b \in 1..Len(batches')
<1>1. CASE Same(batches'[b], batches[b])
  BY <1>1 DEF Same, KnownIds, Known
<1>2. CASE batches'[b] = Deleted
  BY <1>2, DeletedIsBatch
<1> QED BY <1>1, <1>2

LEMMA AddsKnown ==
    ASSUME Types, KnownIds, NEW n, NEW batch, AddEffect(n, batch)
    PROVE  KnownIds'
<1>1. /\ n \in Nat /\ Len(owner) \in Nat /\ Len(owner') = Len(owner) + n
      /\ Len(batch.ids) = n /\ \A i \in 1..n : batch.ids[i] = Len(owner) + i
  BY DEF AddEffect
<1>2. Known \subseteq Known'
  BY <1>1 DEF Known
<1>3. CommandEffect(batch)
  BY DEF AddEffect
<1>4. \A b \in 1..Len(batches') : \A i \in 1..Len(batches'[b].ids) : batches'[b].ids[i] \in Known'
  <2> TAKE b \in 1..Len(batches')
  <2>1. CASE b \in 1..Len(batches)
    BY <1>2, <1>3, <2>1 DEF CommandEffect, KnownIds
  <2>2. CASE b = Len(batches) + 1
    <3>1. batches'[b] = batch
      BY <1>3, <2>2 DEF CommandEffect
    <3>2. \A i \in 1..n : Len(owner) + i \in Known'
      BY <1>1 DEF Known
    <3> QED BY <1>1, <3>1, <3>2
  <2> QED BY <1>3, <2>1, <2>2 DEF CommandEffect
<1>5. \A m \in Elements(adapterQ') : m.type = "answer" => m \in Elements(adapterQ)
  BY <1>3, ElementsOfAppend DEF CommandEffect, Types
<1>6. fences' = fences /\ Elements(apiQ') = Elements(apiQ)
  BY <1>3 DEF CommandEffect
<1> QED BY <1>2, <1>4, <1>5, <1>6 DEF KnownIds

LEMMA OthersKnown ==
    ASSUME Types, KnownIds, NEW batch, OtherEffect(batch)
    PROVE  KnownIds'
<1>1. CommandEffect(batch) /\ UNCHANGED owner /\ \A i \in 1..Len(batch.ids) : batch.ids[i] \in Known
  BY DEF OtherEffect, Known
<1>2. Known' = Known
  BY <1>1 DEF Known
<1>4. \A b \in 1..Len(batches') : \A i \in 1..Len(batches'[b].ids) : batches'[b].ids[i] \in Known'
  <2> TAKE b \in 1..Len(batches')
  <2>1. CASE b \in 1..Len(batches)
    BY <1>1, <1>2, <2>1 DEF CommandEffect, KnownIds
  <2>2. CASE b = Len(batches) + 1
    BY <1>1, <1>2, <2>2 DEF CommandEffect
  <2> QED BY <1>1, <2>1, <2>2 DEF CommandEffect
<1>5. \A m \in Elements(adapterQ') : m.type = "answer" => m \in Elements(adapterQ)
  BY <1>1, ElementsOfAppend DEF CommandEffect, Types
<1>6. fences' = fences /\ Elements(apiQ') = Elements(apiQ)
  BY <1>1 DEF CommandEffect
<1> QED BY <1>2, <1>4, <1>5, <1>6 DEF KnownIds

\* A step that makes no ids: what it leaves about was about before.
LEMMA KnownStay ==
    ASSUME KnownIds, UNCHANGED owner, Len(batches') = Len(batches),
           \A b \in 1..Len(batches) : Same(batches'[b], batches[b]) \/ batches'[b] = Deleted,
           \A h \in HwIds : fences'[h] # NoFence => fences'[h].id \in Known,
           \A m \in Elements(apiQ') : m \in Elements(apiQ) \/ (m.op \in Commands => m.id \in Known),
           \A m \in Elements(adapterQ') :
              m \in Elements(adapterQ) \/ (m.type = "answer" => m.to.id \in Known)
    PROVE  KnownIds'
<1>1. Known' = Known
  BY DEF Known
<1>2. \A b \in 1..Len(batches') : \A i \in 1..Len(batches'[b].ids) : batches'[b].ids[i] \in Known'
  BY KeptCommandsKnown
<1> QED BY <1>1, <1>2 DEF KnownIds

LEMMA SameBatches ==
    ASSUME batches' = batches
    PROVE  Len(batches') = Len(batches)
           /\ \A b \in 1..Len(batches) : Same(batches'[b], batches[b]) \/ batches'[b] = Deleted
BY DEF Same

LEMMA TailLess ==
    ASSUME Types
    PROVE  /\ adapterQ # <<>> /\ adapterQ' = Tail(adapterQ) => Elements(adapterQ') \subseteq Elements(adapterQ)
           /\ apiQ # <<>> /\ apiQ' = Tail(apiQ) => Elements(apiQ') \subseteq Elements(apiQ)
<1>1. ASSUME adapterQ # <<>>, adapterQ' = Tail(adapterQ) PROVE Elements(adapterQ') \subseteq Elements(adapterQ)
  BY <1>1, ElementsOfTail DEF Types
<1>2. ASSUME apiQ # <<>>, apiQ' = Tail(apiQ) PROVE Elements(apiQ') \subseteq Elements(apiQ)
  BY <1>2, ElementsOfTail DEF Types
<1> QED BY <1>1, <1>2

LEMMA CallsKnown ==
    ASSUME Types, KnownIds, AddGeofences \/ OtherCommand \/ RemoveClient \/ EngineCrash \/ Breach
    PROVE  KnownIds'
<1>0. \A h \in HwIds : fences[h] # NoFence => fences[h].id \in Known
  BY DEF KnownIds
<1>1. CASE AddGeofences
  BY <1>1, Adds, AddsKnown
<1>2. CASE OtherCommand
  BY <1>2, Others, OthersKnown
<1>3. CASE RemoveClient
  <2>1. PICK c \in clients :
          /\ adapterQ' = Append(adapterQ, [type |-> "removeClient", client |-> c])
          /\ UNCHANGED <<fences, owner, batches, apiQ>>
    BY <1>3 DEF RemoveClient, maps, engineSide
  <2>2. [type |-> "removeClient", client |-> c] \in AdapterMessages
    BY DEF Types, AdapterMessages, RemoveMessages
  <2>3. \A m \in Elements(adapterQ') : m \in Elements(adapterQ) \/ m.type = "removeClient"
    BY <2>1, <2>2, MessagesAdded
  <2> QED BY <1>0, <2>1, <2>3, SameBatches, KnownStay
<1>4. CASE EngineCrash
  <2>1. [op |-> "ssr"] \in ApiMessages
    BY DEF ApiMessages
  <2>2. UNCHANGED <<fences, owner, batches, adapterQ>> /\ apiQ' = Append(apiQ, [op |-> "ssr"])
    BY <1>4 DEF EngineCrash, maps
  <2>3. \A m \in Elements(apiQ') : m \in Elements(apiQ) \/ m.op \notin Commands
    BY <2>1, <2>2, RequestAdded DEF Commands
  <2> QED BY <1>0, <2>2, <2>3, SameBatches, KnownStay
<1>5. CASE Breach
  <2>1. PICK m \in AdapterMessages :
          m.type = "breach" /\ adapterQ' = Append(adapterQ, m) /\ UNCHANGED <<fences, owner, batches, apiQ>>
    BY <1>5, BreachSent DEF maps, engineSide
  <2>2. \A n \in Elements(adapterQ') : n \in Elements(adapterQ) \/ n.type = "breach"
    BY <2>1, MessagesAdded
  <2> QED BY <1>0, <2>1, <2>2, SameBatches, KnownStay
<1> QED BY <1>1, <1>2, <1>3, <1>4, <1>5

\* What is kept after the answer for an item.
LEMMA AnswerKeeps ==
    ASSUME Types, NEW m, NEW ok, NEW h, NEW b, AnswerEffect(m, ok, h, b)
    PROVE  /\ fences' \in [HwIds -> Fence \cup {NoFence}] /\ hwIdOf' \in [Ids -> {0} \cup HwIds]
           /\ \A g \in HwIds : g # h => fences'[g] = fences[g]
           /\ ~ok => UNCHANGED maps
           /\ ok /\ m.op = "add" => fences'[h] # NoFence /\ fences'[h].id = m.id /\ fences'[h].opt = m.opt
                                    /\ hwIdOf'[m.id] = h
                                    /\ \A x \in Ids : x # m.id => hwIdOf'[x] = hwIdOf[x]
           /\ ok /\ m.op = "remove" =>
                 IF fences[h] # NoFence /\ hwIdOf[fences[h].id] # 0
                 THEN /\ fences'[h] = NoFence /\ hwIdOf'[fences[h].id] = 0
                      /\ \A x \in Ids : x # fences[h].id => hwIdOf'[x] = hwIdOf[x]
                 ELSE UNCHANGED maps
           /\ m.op \notin {"add", "remove"} =>
                 /\ hwIdOf' = hwIdOf
                 /\ \A g \in HwIds : fences'[g].id = fences[g].id /\ (fences'[g] = NoFence <=> fences[g] = NoFence)
<1>1. /\ m \in Requests /\ (ok => h \in HwIds)
      /\ \/ ~ok /\ UNCHANGED maps
         \/ ok /\ m.op = "add" /\ m.opt \in Options /\ SaveItem(m.id, h, m.opt)
         \/ ok /\ m.op = "remove" /\ RemoveItem(h)
         \/ /\ ok /\ m.op \in {"pause", "resume", "modify"}
            /\ \E fence :
                  /\ ChangeItem(h, fence)
                  /\ fences[h] # NoFence => fence \in Fence /\ fence.id = fences[h].id
  BY DEF AnswerEffect
<1>2. m.id \in Ids
  BY <1>1, RequestFields
<1>3. CASE ~ok /\ UNCHANGED maps
  BY <1>3 DEF Types, maps
<1>4. CASE ok /\ m.op = "add" /\ m.opt \in Options /\ SaveItem(m.id, h, m.opt)
  <2>1. /\ fences' \in [HwIds -> Fence \cup {NoFence}] /\ hwIdOf' \in [Ids -> {0} \cup HwIds]
        /\ fences'[h].id = m.id /\ fences'[h].opt = m.opt /\ hwIdOf'[m.id] = h
        /\ \A g \in HwIds : g # h => fences'[g] = fences[g]
        /\ \A x \in Ids : x # m.id => hwIdOf'[x] = hwIdOf[x]
    BY <1>1, <1>2, <1>4, SaveTypes
  <2>2. fences'[h] # NoFence
    BY <1>2, <2>1, Numbers DEF NoFence
  <2> QED BY <1>4, <2>1, <2>2
<1>5. CASE ok /\ m.op = "remove" /\ RemoveItem(h)
  BY <1>1, <1>5, RemoveTypes
<1>6. CASE /\ ok /\ m.op \in {"pause", "resume", "modify"}
           /\ \E fence :
                 /\ ChangeItem(h, fence)
                 /\ fences[h] # NoFence => fence \in Fence /\ fence.id = fences[h].id
  <2>1. PICK fence :
           /\ ChangeItem(h, fence)
           /\ fences[h] # NoFence => fence \in Fence /\ fence.id = fences[h].id
    BY <1>6
  <2>2. /\ fences' \in [HwIds -> Fence \cup {NoFence}] /\ hwIdOf' = hwIdOf
        /\ \A g \in HwIds : fences'[g].id = fences[g].id
        /\ \A g \in HwIds : fences'[g] = NoFence <=> fences[g] = NoFence
        /\ \A g \in HwIds : g # h => fences'[g] = fences[g]
    BY <1>1, <1>6, <2>1, ChangeTypes
  <2>3. hwIdOf' \in [Ids -> {0} \cup HwIds]
    BY <2>2 DEF Types
  <2> QED BY <1>6, <2>2, <2>3
<1> QED BY <1>1, <1>3, <1>4, <1>5, <1>6

\* ... and after a fence was added again.
LEMMA RestoreKeeps ==
    ASSUME Types, NEW m, NEW ok, NEW h, RestoredEffect(m, ok, h)
    PROVE  /\ \A g \in HwIds : g # h => fences'[g] = fences[g]
           /\ ~ok => UNCHANGED maps
           /\ ok => /\ h \in HwIds /\ fences'[h] # NoFence /\ fences'[h].id = m.id /\ fences'[h].opt = m.opt
                    /\ hwIdOf'[m.id] = h
                    /\ \A x \in Ids : x # m.id => hwIdOf'[x] = hwIdOf[x]
<1>1. CASE ok
  <2>1. h \in HwIds /\ m.id \in Ids /\ m.opt \in Options /\ SaveItem(m.id, h, m.opt)
    BY <1>1 DEF RestoredEffect
  <2>2. /\ fences'[h].id = m.id /\ fences'[h].opt = m.opt /\ hwIdOf'[m.id] = h
        /\ \A g \in HwIds : g # h => fences'[g] = fences[g]
        /\ \A x \in Ids : x # m.id => hwIdOf'[x] = hwIdOf[x]
    BY <2>1, SaveTypes
  <2>3. fences'[h] # NoFence
    BY <2>1, <2>2, Numbers DEF NoFence
  <2> QED BY <1>1, <2>1, <2>2, <2>3
<1>2. CASE ~ok
  BY <1>2 DEF RestoredEffect, maps
<1> QED BY <1>1, <1>2 DEF RestoredEffect

LEMMA HandleAnswerKnown ==
    ASSUME Types, Lives, KnownIds, HandleAnswer
    PROVE  KnownIds'
<1>1. PICK m, ok, h, b : AnswerEffect(m, ok, h, b)
  BY AnswerHandled
<1>2. /\ adapterQ # <<>> /\ adapterQ' = Tail(adapterQ) /\ apiQ' = apiQ /\ owner' = owner
      /\ Head(adapterQ).type = "answer" /\ Head(adapterQ).to = m
      /\ Len(batches') = Len(batches)
      /\ \A c \in 1..Len(batches) : c # b => batches'[c] = batches[c]
      /\ Same(batches'[b], batches[b]) \/ batches'[b] = Deleted
  BY <1>1 DEF AnswerEffect
<1>3. m.id \in Known
  BY <1>2, Taken DEF KnownIds
<1>k. /\ ok /\ m.op = "add" => fences'[h] # NoFence /\ fences'[h].id = m.id /\ fences'[h].opt = m.opt
                                 /\ hwIdOf'[m.id] = h
                                 /\ \A x \in Ids : x # m.id => hwIdOf'[x] = hwIdOf[x]
      /\ ok /\ m.op = "remove" =>
            IF fences[h] # NoFence /\ hwIdOf[fences[h].id] # 0
            THEN /\ fences'[h] = NoFence /\ hwIdOf'[fences[h].id] = 0
                 /\ \A x \in Ids : x # fences[h].id => hwIdOf'[x] = hwIdOf[x]
            ELSE UNCHANGED maps
  BY <1>1, AnswerKeeps
<1>4. \A g \in HwIds : fences'[g] # NoFence => fences'[g].id \in Known
  <2> SUFFICES ASSUME NEW g \in HwIds, fences'[g] # NoFence PROVE fences'[g].id \in Known
    OBVIOUS
  <2>a. fences'[g] # NoFence
    OBVIOUS
  <2>1. fences[g] # NoFence => fences[g].id \in Known
    BY DEF KnownIds
  <2>2. CASE g # h \/ ~ok \/ m.op # "add"
    <3>1. CASE g # h
      BY <1>1, <2>1, <3>1, AnswerKeeps
    <3>2. CASE ~ok
      BY <1>1, <2>1, <3>2, AnswerKeeps DEF maps
    <3>3. CASE g = h /\ ok /\ m.op = "remove"
      <4>1. CASE fences[h] # NoFence /\ hwIdOf[fences[h].id] # 0
        <5>1. fences'[h] = NoFence
          BY <1>k, <3>3, <4>1
        <5> QED BY <2>a, <3>3, <5>1
      <4>2. CASE ~(fences[h] # NoFence /\ hwIdOf[fences[h].id] # 0)
        <5>1. UNCHANGED maps
          BY <1>1, <3>3, <4>2, AnswerKeeps
        <5> QED BY <2>1, <5>1 DEF maps
      <4> QED BY <4>1, <4>2
    <3>4. CASE g = h /\ m.op \notin {"add", "remove"}
      <4>1. fences'[g].id = fences[g].id /\ (fences'[g] = NoFence <=> fences[g] = NoFence)
        BY <1>1, <3>4, AnswerKeeps
      <4> QED BY <2>1, <4>1
    <3> QED BY <2>2, <3>1, <3>2, <3>3, <3>4
  <2>3. CASE g = h /\ ok /\ m.op = "add"
    <3>1. fences'[h].id = m.id
      BY <1>k, <2>3
    <3> QED BY <1>3, <2>3, <3>1
  <2> QED BY <2>2, <2>3
<1>5. \A c \in 1..Len(batches) : Same(batches'[c], batches[c]) \/ batches'[c] = Deleted
  BY <1>2 DEF Same
<1>6. Elements(adapterQ') \subseteq Elements(adapterQ)
  BY <1>2, TailLess
<1> QED BY <1>2, <1>4, <1>5, <1>6, KnownStay

LEMMA HandleTurnKnown ==
    ASSUME Types, Lives, KnownIds, HandleTurn
    PROVE  KnownIds'
<1>1. PICK c \in 1..Len(batches), i \in 1..MaxItems :
         /\ IsTurnOf(batches, c, i) /\ batches[c] \in Batches
         /\ Len(batches') = Len(batches)
         /\ \A b \in 1..Len(batches) : b # c => batches'[b] = batches[b]
         /\ adapterQ # <<>> /\ adapterQ' = Tail(adapterQ)
         /\ UNCHANGED <<maps, clients, owner, engine, strayed, answered, used>>
         /\ \/ \E r \in Requests :
                  /\ r \in ApiMessages /\ apiQ' = Append(apiQ, r)
                  /\ r.id = batches[c].ids[i]
                  /\ Same(batches'[c], batches[c])
            \/ /\ apiQ' = apiQ
               /\ i # Len(batches[c].ids) => Same(batches'[c], batches[c])
               /\ i = Len(batches[c].ids) => batches'[c] = Deleted
  BY TurnHandled
<1>2. batches[c].ids[i] \in Known
  BY <1>1 DEF IsTurnOf, KnownIds
<1>3. \A m \in Elements(apiQ') : m \in Elements(apiQ) \/ m.id \in Known
  <2>1. CASE apiQ' = apiQ
    BY <2>1
  <2>2. CASE \E r \in ApiMessages : apiQ' = Append(apiQ, r) /\ r.id = batches[c].ids[i]
    BY <1>2, <2>2, RequestAdded
  <2> QED BY <1>1, <2>1, <2>2
<1>4. \A b \in 1..Len(batches) : Same(batches'[b], batches[b]) \/ batches'[b] = Deleted
  BY <1>1 DEF Same
<1>5. Elements(adapterQ') \subseteq Elements(adapterQ)
  BY <1>1, TailLess
<1>6. fences' = fences /\ owner' = owner /\ \A h \in HwIds : fences[h] # NoFence => fences[h].id \in Known
  BY <1>1 DEF maps, KnownIds
<1> QED BY <1>1, <1>3, <1>4, <1>5, <1>6, KnownStay

LEMMA OthersHandledKnown ==
    ASSUME Types, Lives, KnownIds,
           HandleCommand \/ HandleRemoveClient \/ HandleGone \/ HandleEngineUp \/ HandleRestored \/ HandleBreach
    PROVE  KnownIds'
<1>0. \A h \in HwIds : fences[h] # NoFence => fences[h].id \in Known
  BY DEF KnownIds
<1>1. CASE HandleCommand
  <2>1. PICK c \in 1..Len(batches), turns \in Seq(ApiMessages) :
           /\ adapterQ # <<>> /\ adapterQ' = Tail(adapterQ)
           /\ apiQ' = apiQ \o turns
           /\ \A k \in 1..Len(turns) : turns[k].op = "turn"
    BY <1>1, CommandHandled
  <2>2. UNCHANGED <<fences, owner, batches>>
    BY <1>1 DEF HandleCommand, maps
  <2>3. \A m \in Elements(apiQ') : m \in Elements(apiQ) \/ m.op \notin Commands
    <3>1. \A m \in Elements(turns) : m.op \notin Commands
      BY <2>1 DEF Elements, Commands
    <3> QED BY <2>1, <3>1, RequestsAdded
  <2>4. Elements(adapterQ') \subseteq Elements(adapterQ)
    BY <2>1, TailLess
  <2> QED BY <1>0, <2>2, <2>3, <2>4, SameBatches, KnownStay
<1>2. CASE HandleRemoveClient
  <2>1. PICK c, requests : GoneEffect(c, requests)
    BY <1>2, RemoveClientHandled
  <2>2. /\ requests \in Seq(ApiMessages) /\ adapterQ # <<>> /\ adapterQ' = Tail(adapterQ)
        /\ apiQ' = apiQ \o requests /\ UNCHANGED <<fences, owner, batches>>
        /\ \A k \in 1..Len(requests) : requests[k].id \in OwnIds(c)
    BY <2>1 DEF GoneEffect
  <2>3. OwnIds(c) \subseteq Known
    BY DEF OwnIds, Known
  <2>4. \A m \in Elements(apiQ') : m \in Elements(apiQ) \/ m.id \in Known
    <3>1. \A m \in Elements(requests) : m.id \in Known
      BY <2>2, <2>3 DEF Elements
    <3> QED BY <2>2, <3>1, RequestsAdded
  <2>5. Elements(adapterQ') \subseteq Elements(adapterQ)
    BY <2>2, TailLess
  <2> QED BY <1>0, <2>2, <2>4, <2>5, SameBatches, KnownStay
<1>3. CASE HandleEngineUp
  <2>1. PICK old, requests : RestartEffect(old, requests)
    BY <1>3, EngineUpHandled
  <2>2. /\ requests \in Seq(ApiMessages) /\ adapterQ # <<>> /\ adapterQ' = Tail(adapterQ)
        /\ apiQ' = apiQ \o requests /\ UNCHANGED <<owner, batches>>
        /\ \A k \in 1..Len(requests) :
              old[k] \in HwIds /\ fences[old[k]] \in Fence /\ requests[k].id = fences[old[k]].id
        /\ \A h \in HwIds : fences'[h] = NoFence
    BY <2>1 DEF RestartEffect
  <2>3. \A m \in Elements(apiQ') : m \in Elements(apiQ) \/ m.id \in Known
    <3>1. \A m \in Elements(requests) : m.id \in Known
      <4>1. \A k \in 1..Len(requests) : fences[old[k]] # NoFence
        BY <2>2, Numbers DEF Fence, NoFence
      <4>2. \A k \in 1..Len(requests) : requests[k].id \in Known
        BY <1>0, <2>2, <4>1
      <4> QED BY <4>2 DEF Elements
    <3> QED BY <2>2, <3>1, RequestsAdded
  <2>4. Elements(adapterQ') \subseteq Elements(adapterQ)
    BY <2>2, TailLess
  <2> QED BY <2>2, <2>3, <2>4, SameBatches, KnownStay
<1>4. CASE HandleGone
  <2>1. /\ adapterQ # <<>> /\ adapterQ' = Tail(adapterQ) /\ UNCHANGED <<owner, batches, apiQ>>
        /\ fences' = IF Head(adapterQ).ok THEN [fences EXCEPT ![Head(adapterQ).hwId] = NoFence] ELSE fences
    BY <1>4 DEF HandleGone, Take, TakeAnswer, engineSide
  <2>2. \A h \in HwIds : fences'[h] # NoFence => fences'[h] = fences[h]
    BY <2>1 DEF Types
  <2>3. Elements(adapterQ') \subseteq Elements(adapterQ)
    BY <2>1, TailLess
  <2> QED BY <1>0, <2>1, <2>2, <2>3, SameBatches, KnownStay
<1>5. CASE HandleBreach
  <2>1. adapterQ # <<>> /\ adapterQ' = Tail(adapterQ) /\ UNCHANGED <<fences, owner, batches, apiQ>>
    BY <1>5 DEF HandleBreach, Take, maps, engineSide
  <2>2. Elements(adapterQ') \subseteq Elements(adapterQ)
    BY <2>1, TailLess
  <2> QED BY <1>0, <2>1, <2>2, SameBatches, KnownStay
<1>6. CASE HandleRestored
  <2>1. PICK m, ok, h : RestoredEffect(m, ok, h)
    BY <1>6, RestoredHandled
  <2>2. /\ adapterQ # <<>> /\ adapterQ' = Tail(adapterQ) /\ UNCHANGED <<owner, batches>>
        /\ Head(adapterQ).type = "answer" /\ Head(adapterQ).to = m
        /\ \/ apiQ' = apiQ
           \/ \E r \in ApiMessages : apiQ' = Append(apiQ, r) /\ r.id = m.id
    BY <2>1 DEF RestoredEffect
  <2>3. m.id \in Known
    BY <2>2, Taken DEF KnownIds
  <2>4. \A n \in Elements(apiQ') : n \in Elements(apiQ) \/ n.id \in Known
    BY <2>2, <2>3, RequestAdded
  <2>5. \A g \in HwIds : fences'[g] # NoFence => fences'[g].id \in Known
    BY <1>0, <2>1, <2>3, RestoreKeeps DEF maps
  <2>6. Elements(adapterQ') \subseteq Elements(adapterQ)
    BY <2>2, TailLess
  <2> QED BY <2>2, <2>4, <2>5, <2>6, SameBatches, KnownStay
<1> QED BY <1>1, <1>2, <1>3, <1>4, <1>5, <1>6

LEMMA RepliesKnown ==
    ASSUME Types, KnownIds, NEW m \in Requests, NEW ok, NEW h, Replies(m, ok, h),
           apiQ # <<>>, Head(apiQ) = m, apiQ' = Tail(apiQ), UNCHANGED <<fences, owner, batches>>
    PROVE  KnownIds'
<1>1. m.id \in Known
  BY ApiTaken, RequestFields DEF KnownIds
<1>2. \A n \in Elements(adapterQ') : n \in Elements(adapterQ) \/ n.to.id \in Known
  <2>1. CASE adapterQ' = adapterQ
    BY <2>1
  <2>2. CASE \E a \in AdapterMessages : adapterQ' = Append(adapterQ, a) /\ a.to = m
    BY <1>1, <2>2, MessagesAdded
  <2> QED BY <2>1, <2>2 DEF Replies
<1>3. Elements(apiQ') \subseteq Elements(apiQ)
  BY TailLess
<1>4. \A g \in HwIds : fences'[g] # NoFence => fences'[g].id \in Known
  BY DEF KnownIds
<1> QED BY <1>2, <1>3, <1>4, SameBatches, KnownStay

LEMMA ApiThreadKnown ==
    ASSUME Types, KnownIds, ApiThread
    PROVE  KnownIds'
<1>0. \A h \in HwIds : fences[h] # NoFence => fences[h].id \in Known
  BY DEF KnownIds
<1>1. CASE ReturnTurn
  <2>1. PICK m \in TurnMessages :
          /\ m \in AdapterMessages /\ m.type = "turn"
          /\ apiQ # <<>> /\ apiQ' = Tail(apiQ) /\ adapterQ' = Append(adapterQ, m)
          /\ UNCHANGED <<maps, clients, owner, batches, engine, strayed, answered, used>>
    BY <1>1, TurnReturns
  <2>2. \A n \in Elements(adapterQ') : n \in Elements(adapterQ) \/ n.type = "turn"
    BY <2>1, MessagesAdded
  <2>3. Elements(apiQ') \subseteq Elements(apiQ)
    BY <2>1, TailLess
  <2> QED BY <1>0, <2>1, <2>2, <2>3, SameBatches, KnownStay DEF maps
<1>2. CASE Serve
  <2>1. PICK m, h : ServeEffect(m, h)
    BY <1>2, Serves
  <2>2. m \in Requests /\ Replies(m, TRUE, h) /\ apiQ # <<>> /\ Head(apiQ) = m /\ apiQ' = Tail(apiQ)
        /\ UNCHANGED <<fences, owner, batches>>
    BY <2>1 DEF ServeEffect, maps
  <2> QED BY <2>2, RepliesKnown
<1>3. CASE Fail
  <2>1. PICK m : FailEffect(m)
    BY <1>3, Fails
  <2>2. m \in Requests /\ Replies(m, FALSE, m.hwId) /\ apiQ # <<>> /\ Head(apiQ) = m /\ apiQ' = Tail(apiQ)
        /\ UNCHANGED <<fences, owner, batches>>
    BY <2>1 DEF FailEffect, maps
  <2> QED BY <2>2, RepliesKnown
<1>4. CASE Reopen
  <2>1. [type |-> "engineUp"] \in AdapterMessages
    BY DEF AdapterMessages, UpMessages
  <2>2. adapterQ' = Append(adapterQ, [type |-> "engineUp"]) /\ apiQ # <<>> /\ apiQ' = Tail(apiQ)
        /\ UNCHANGED <<fences, owner, batches>>
    BY <1>4 DEF Reopen, maps
  <2>3. \A n \in Elements(adapterQ') : n \in Elements(adapterQ) \/ n.type = "engineUp"
    BY <2>1, <2>2, MessagesAdded
  <2>4. Elements(apiQ') \subseteq Elements(apiQ)
    BY <2>2, TailLess
  <2> QED BY <1>0, <2>2, <2>3, <2>4, SameBatches, KnownStay
<1> QED BY <1>1, <1>2, <1>3, <1>4 DEF ApiThread

LEMMA NextKnown == Types /\ Lives /\ KnownIds /\ [Next]_vars => KnownIds'
<1> SUFFICES ASSUME Types, Lives, KnownIds, [Next]_vars PROVE KnownIds'
  OBVIOUS
<1>1. CASE UNCHANGED vars
  BY <1>1 DEF vars, maps, engineSide, KnownIds, Known
<1> QED BY <1>1, CallsKnown, HandleAnswerKnown, HandleTurnKnown, OthersHandledKnown, ApiThreadKnown
        DEF Next, AdapterThread

LEMMA InitKnown == Init => KnownIds
BY DEF Init, KnownIds, Elements

----------------------------------------------------------------------------
(* A fence is in one place only: in a command to add it, in a turn of that   *)
(* command, in a request to add it, in the engine's agreement, or kept.      *)

\* A message back to the adapter, or out to the engine, that will make a fence of id.
BearsBack(bs, m, id) ==
    \/ m.type = "command" /\ bs[m.batch].op = "add"
       /\ \E i \in 1..Len(bs[m.batch].ids) : bs[m.batch].ids[i] = id
    \/ m.type = "turn" /\ bs[m.batch].op = "add" /\ bs[m.batch].ids[m.item] = id
    \/ m.type = "answer" /\ m.ok /\ m.to.op = "add" /\ m.to.id = id
BearsOut(bs, m, id) ==
    \/ m.op = "turn" /\ bs[m.batch].op = "add" /\ bs[m.batch].ids[m.item] = id
    \/ m.op = "add" /\ m.id = id

IsBack(bs, aq, id) == \E m \in Elements(aq) : BearsBack(bs, m, id)
IsOut(bs, pq, id) == \E m \in Elements(pq) : BearsOut(bs, m, id)
IsKept(fs, id) == \E h \in HwIds : fs[h].id = id
Nowhere(bs, aq, pq, fs, id) == ~IsBack(bs, aq, id) /\ ~IsOut(bs, pq, id) /\ ~IsKept(fs, id)

BackOnce(bs, aq, id) ==
    \A k, l \in 1..Len(aq) : BearsBack(bs, aq[k], id) /\ BearsBack(bs, aq[l], id) => k = l
OutOnce(bs, pq, id) ==
    \A k, l \in 1..Len(pq) : BearsOut(bs, pq[k], id) /\ BearsOut(bs, pq[l], id) => k = l
IsKeptOnce(fs, id) == \A g, h \in HwIds : fs[g].id = id /\ fs[h].id = id => g = h

OnceOf(bs, aq, pq, fs, id) ==
    /\ BackOnce(bs, aq, id) /\ OutOnce(bs, pq, id) /\ IsKeptOnce(fs, id)
    /\ ~(IsBack(bs, aq, id) /\ IsOut(bs, pq, id))
    /\ ~(IsBack(bs, aq, id) /\ IsKept(fs, id))
    /\ ~(IsOut(bs, pq, id) /\ IsKept(fs, id))

Unique == \A id \in Ids : OnceOf(batches, adapterQ, apiQ, fences, id)

\* A message that is taken leaves nothing behind.
LEMMA BackTaken ==
    ASSUME NEW S, NEW bs, NEW aq \in Seq(S), NEW pq, NEW fs, NEW id, aq # <<>>,
           OnceOf(bs, aq, pq, fs, id)
    PROVE  /\ OnceOf(bs, Tail(aq), pq, fs, id)
           /\ BearsBack(bs, Head(aq), id) => Nowhere(bs, Tail(aq), pq, fs, id)
<1>1. /\ Head(aq) = aq[1] /\ Len(aq) \in Nat \ {0} /\ Len(Tail(aq)) = Len(aq) - 1
      /\ \A k \in 1..Len(Tail(aq)) : k + 1 \in 1..Len(aq) /\ Tail(aq)[k] = aq[k + 1]
  BY Shortened
<1>2. Elements(Tail(aq)) \subseteq Elements(aq) /\ Head(aq) \in Elements(aq)
  BY ElementsOfTail
<1>3. BackOnce(bs, aq, id)
  BY DEF OnceOf
<1>4. BackOnce(bs, Tail(aq), id)
  <2> SUFFICES ASSUME NEW k \in 1..Len(Tail(aq)), NEW l \in 1..Len(Tail(aq)),
                      BearsBack(bs, Tail(aq)[k], id), BearsBack(bs, Tail(aq)[l], id)
               PROVE  k = l
    BY DEF BackOnce
  <2>1. k + 1 = l + 1
    BY <1>1, <1>3 DEF BackOnce
  <2> QED BY <1>1, <2>1
<1>5. IsBack(bs, Tail(aq), id) => IsBack(bs, aq, id)
  BY <1>2 DEF IsBack
<1>6. ASSUME BearsBack(bs, Head(aq), id) PROVE ~IsBack(bs, Tail(aq), id) /\ IsBack(bs, aq, id)
  <2>1. IsBack(bs, aq, id)
    BY <1>2, <1>6 DEF IsBack
  <2>2. ASSUME IsBack(bs, Tail(aq), id) PROVE FALSE
    <3>1. PICK k \in 1..Len(Tail(aq)) : BearsBack(bs, Tail(aq)[k], id)
      BY <2>2 DEF IsBack, Elements
    <3>2. k + 1 = 1
      <4>1. k + 1 \in 1..Len(aq) /\ 1 \in 1..Len(aq) /\ BearsBack(bs, aq[k + 1], id) /\ BearsBack(bs, aq[1], id)
        BY <1>1, <1>6, <3>1
      <4> QED BY <1>3, <4>1 DEF BackOnce
    <3> QED BY <1>1, <3>2
  <2> QED BY <2>1, <2>2
<1> QED BY <1>4, <1>5, <1>6 DEF OnceOf, Nowhere

LEMMA OutTaken ==
    ASSUME NEW S, NEW bs, NEW aq, NEW pq \in Seq(S), NEW fs, NEW id, pq # <<>>,
           OnceOf(bs, aq, pq, fs, id)
    PROVE  /\ OnceOf(bs, aq, Tail(pq), fs, id)
           /\ BearsOut(bs, Head(pq), id) => Nowhere(bs, aq, Tail(pq), fs, id)
<1>1. /\ Head(pq) = pq[1] /\ Len(pq) \in Nat \ {0} /\ Len(Tail(pq)) = Len(pq) - 1
      /\ \A k \in 1..Len(Tail(pq)) : k + 1 \in 1..Len(pq) /\ Tail(pq)[k] = pq[k + 1]
  BY Shortened
<1>2. Elements(Tail(pq)) \subseteq Elements(pq) /\ Head(pq) \in Elements(pq)
  BY ElementsOfTail
<1>3. OutOnce(bs, pq, id)
  BY DEF OnceOf
<1>4. OutOnce(bs, Tail(pq), id)
  <2> SUFFICES ASSUME NEW k \in 1..Len(Tail(pq)), NEW l \in 1..Len(Tail(pq)),
                      BearsOut(bs, Tail(pq)[k], id), BearsOut(bs, Tail(pq)[l], id)
               PROVE  k = l
    BY DEF OutOnce
  <2>1. k + 1 = l + 1
    BY <1>1, <1>3 DEF OutOnce
  <2> QED BY <1>1, <2>1
<1>5. IsOut(bs, Tail(pq), id) => IsOut(bs, pq, id)
  BY <1>2 DEF IsOut
<1>6. ASSUME BearsOut(bs, Head(pq), id) PROVE ~IsOut(bs, Tail(pq), id) /\ IsOut(bs, pq, id)
  <2>1. IsOut(bs, pq, id)
    BY <1>2, <1>6 DEF IsOut
  <2>2. ASSUME IsOut(bs, Tail(pq), id) PROVE FALSE
    <3>1. PICK k \in 1..Len(Tail(pq)) : BearsOut(bs, Tail(pq)[k], id)
      BY <2>2 DEF IsOut, Elements
    <3>2. k + 1 = 1
      <4>1. k + 1 \in 1..Len(pq) /\ 1 \in 1..Len(pq) /\ BearsOut(bs, pq[k + 1], id) /\ BearsOut(bs, pq[1], id)
        BY <1>1, <1>6, <3>1
      <4> QED BY <1>3, <4>1 DEF OutOnce
    <3> QED BY <1>1, <3>2
  <2> QED BY <2>1, <2>2
<1> QED BY <1>4, <1>5, <1>6 DEF OnceOf, Nowhere

\* A message that is added bears nothing, or what is nowhere else.
LEMMA BackAdded ==
    ASSUME NEW S, NEW bs, NEW aq \in Seq(S), NEW pq, NEW fs, NEW id, NEW m \in S,
           OnceOf(bs, aq, pq, fs, id),
           BearsBack(bs, m, id) => Nowhere(bs, aq, pq, fs, id)
    PROVE  OnceOf(bs, Append(aq, m), pq, fs, id)
<1>1. /\ Len(Append(aq, m)) = Len(aq) + 1 /\ Len(aq) \in Nat
      /\ \A k \in 1..Len(aq) : Append(aq, m)[k] = aq[k]
      /\ Append(aq, m)[Len(aq) + 1] = m
  BY Appended
<1>2. Elements(Append(aq, m)) = Elements(aq) \cup {m}
  BY ElementsOfAppend
<1>3. BackOnce(bs, Append(aq, m), id)
  <2> SUFFICES ASSUME NEW k \in 1..Len(Append(aq, m)), NEW l \in 1..Len(Append(aq, m)),
                      BearsBack(bs, Append(aq, m)[k], id), BearsBack(bs, Append(aq, m)[l], id)
               PROVE  k = l
    BY DEF BackOnce
  <2>1. CASE BearsBack(bs, m, id)
    <3>1. \A j \in 1..Len(aq) : ~BearsBack(bs, aq[j], id)
      BY <2>1 DEF Nowhere, IsBack, Elements
    <3>2. k \notin 1..Len(aq) /\ l \notin 1..Len(aq)
      BY <1>1, <3>1
    <3> QED BY <1>1, <3>2
  <2>2. CASE ~BearsBack(bs, m, id)
    <3>1. k # Len(aq) + 1 /\ l # Len(aq) + 1
      BY <1>1, <2>2
    <3>2. k \in 1..Len(aq) /\ l \in 1..Len(aq)
      BY <1>1, <3>1
    <3>3. BearsBack(bs, aq[k], id) /\ BearsBack(bs, aq[l], id)
      BY <1>1, <3>2
    <3> QED BY <3>2, <3>3 DEF OnceOf, BackOnce
  <2> QED BY <2>1, <2>2
<1>4. IsBack(bs, Append(aq, m), id) <=> IsBack(bs, aq, id) \/ BearsBack(bs, m, id)
  BY <1>2 DEF IsBack
<1> QED BY <1>3, <1>4 DEF OnceOf, Nowhere

LEMMA OutJoined ==
    ASSUME NEW S, NEW bs, NEW aq, NEW pq \in Seq(S), NEW fs, NEW id, NEW s \in Seq(S),
           OnceOf(bs, aq, pq, fs, id), OutOnce(bs, s, id),
           IsOut(bs, s, id) => Nowhere(bs, aq, pq, fs, id)
    PROVE  OnceOf(bs, aq, pq \o s, fs, id)
<1> DEFINE q == pq \o s
<1>1. /\ Len(q) = Len(pq) + Len(s) /\ Len(pq) \in Nat /\ Len(s) \in Nat
      /\ \A k \in 1..Len(pq) : q[k] = pq[k]
      /\ \A k \in 1..Len(q) : k \notin 1..Len(pq) => k - Len(pq) \in 1..Len(s) /\ q[k] = s[k - Len(pq)]
  BY Joined
<1>2. Elements(q) = Elements(pq) \cup Elements(s)
  BY ElementsOfJoin
<1>q. q = pq \o s
  OBVIOUS
<1> HIDE DEF q
<1>3. OutOnce(bs, q, id)
  <2> SUFFICES ASSUME NEW k \in 1..Len(q), NEW l \in 1..Len(q),
                      BearsOut(bs, q[k], id), BearsOut(bs, q[l], id)
               PROVE  k = l
    BY DEF OutOnce
  <2>1. CASE IsOut(bs, s, id)
    <3>1. \A j \in 1..Len(pq) : ~BearsOut(bs, pq[j], id)
      BY <2>1 DEF Nowhere, IsOut, Elements
    <3>2. k \notin 1..Len(pq) /\ l \notin 1..Len(pq)
      BY <1>1, <3>1
    <3>3. /\ k - Len(pq) \in 1..Len(s) /\ q[k] = s[k - Len(pq)]
          /\ l - Len(pq) \in 1..Len(s) /\ q[l] = s[l - Len(pq)]
      BY <1>1, <3>2
    <3>4. k - Len(pq) = l - Len(pq)
      BY <3>3 DEF OutOnce
    <3> QED BY <1>1, <3>4
  <2>2. CASE ~IsOut(bs, s, id)
    <3>1. \A j \in 1..Len(s) : ~BearsOut(bs, s[j], id)
      BY <2>2 DEF IsOut, Elements
    <3>2. k \in 1..Len(pq) /\ l \in 1..Len(pq)
      BY <1>1, <3>1
    <3>3. BearsOut(bs, pq[k], id) /\ BearsOut(bs, pq[l], id)
      BY <1>1, <3>2
    <3> QED BY <3>2, <3>3 DEF OnceOf, OutOnce
  <2> QED BY <2>1, <2>2
<1>4. IsOut(bs, q, id) <=> IsOut(bs, pq, id) \/ IsOut(bs, s, id)
  BY <1>2 DEF IsOut
<1>5. OnceOf(bs, aq, q, fs, id)
  BY <1>3, <1>4 DEF OnceOf, Nowhere
<1> QED BY <1>5, <1>q

LEMMA OutAdded ==
    ASSUME NEW S, NEW bs, NEW aq, NEW pq \in Seq(S), NEW fs, NEW id, NEW m \in S,
           OnceOf(bs, aq, pq, fs, id),
           BearsOut(bs, m, id) => Nowhere(bs, aq, pq, fs, id)
    PROVE  OnceOf(bs, aq, Append(pq, m), fs, id)
<1>1. <<m>> \in Seq(S) /\ Append(pq, m) = pq \o <<m>> /\ Len(<<m>>) = 1 /\ <<m>>[1] = m
  OBVIOUS
<1>2. OutOnce(bs, <<m>>, id)
  BY <1>1 DEF OutOnce
<1>3. IsOut(bs, <<m>>, id) => BearsOut(bs, m, id)
  BY <1>1 DEF IsOut, Elements
<1>4. OnceOf(bs, aq, pq \o <<m>>, fs, id)
  BY <1>1, <1>2, <1>3, OutJoined
<1> QED BY <1>1, <1>4

\* What is kept changes.
LEMMA KeptChanges ==
    ASSUME NEW bs, NEW aq, NEW pq, NEW fs, NEW fs2, NEW id,
           OnceOf(bs, aq, pq, fs, id), IsKeptOnce(fs2, id),
           IsKept(fs2, id) => IsKept(fs, id) \/ Nowhere(bs, aq, pq, fs, id)
    PROVE  OnceOf(bs, aq, pq, fs2, id)
BY DEF OnceOf, Nowhere

\* The commands change: those that are referred to are the same, or end.
LEMMA CommandsShrink ==
    ASSUME NEW bs, NEW bs2, NEW aq, NEW pq, NEW fs, NEW id,
           OnceOf(bs, aq, pq, fs, id),
           \A m \in Elements(aq) : m.type \in {"command", "turn"} => m.batch \in 1..Len(bs),
           \A m \in Elements(pq) : m.op = "turn" => m.batch \in 1..Len(bs),
           \A b \in 1..Len(bs) : Same(bs2[b], bs[b]) \/ bs2[b].op = "deleted"
    PROVE  OnceOf(bs2, aq, pq, fs, id)
<1>1. \A m \in Elements(aq) : BearsBack(bs2, m, id) => BearsBack(bs, m, id)
  BY DEF BearsBack, Same
<1>2. \A m \in Elements(pq) : BearsOut(bs2, m, id) => BearsOut(bs, m, id)
  BY DEF BearsOut, Same
<1>3. \A k \in 1..Len(aq) : aq[k] \in Elements(aq)
  BY DEF Elements
<1>4. \A k \in 1..Len(pq) : pq[k] \in Elements(pq)
  BY DEF Elements
<1>5. BackOnce(bs2, aq, id) /\ OutOnce(bs2, pq, id)
  BY <1>1, <1>2, <1>3, <1>4 DEF OnceOf, BackOnce, OutOnce
<1>6. (IsBack(bs2, aq, id) => IsBack(bs, aq, id)) /\ (IsOut(bs2, pq, id) => IsOut(bs, pq, id))
  BY <1>1, <1>2 DEF IsBack, IsOut
<1> QED BY <1>5, <1>6 DEF OnceOf

LEMMA RefersToCommands ==
    ASSUME Lives
    PROVE  /\ \A m \in Elements(adapterQ) : m.type \in {"command", "turn"} => m.batch \in 1..Len(batches)
           /\ \A m \in Elements(apiQ) : m.op = "turn" => m.batch \in 1..Len(batches)
BY DEF Lives, LivesOf, CommandsFit, TurnsFit, IsTurnOf

\* An id that was not handed out is nowhere.
LEMMA UnknownNowhere ==
    ASSUME Types, Lives, KnownIds, NEW id \in Ids, id \notin Known
    PROVE  Nowhere(batches, adapterQ, apiQ, fences, id)
<1>1. ~IsBack(batches, adapterQ, id)
  <2> SUFFICES ASSUME NEW m \in Elements(adapterQ), BearsBack(batches, m, id) PROVE FALSE
    BY DEF IsBack
  <2>1. m.type = "command" => m.batch \in 1..Len(batches)
    BY RefersToCommands
  <2>2. m.type = "turn" => IsTurnOf(batches, m.batch, m.item)
    BY DEF Lives, LivesOf, TurnsFit
  <2> QED BY <2>1, <2>2 DEF BearsBack, KnownIds, IsTurnOf
<1>2. ~IsOut(batches, apiQ, id)
  <2> SUFFICES ASSUME NEW m \in Elements(apiQ), BearsOut(batches, m, id) PROVE FALSE
    BY DEF IsOut
  <2>1. m.op = "turn" => IsTurnOf(batches, m.batch, m.item)
    BY DEF Lives, LivesOf, TurnsFit
  <2> QED BY <2>1 DEF BearsOut, KnownIds, IsTurnOf, Commands
<1>3. ~IsKept(fences, id)
  <2> SUFFICES ASSUME NEW h \in HwIds, fences[h].id = id PROVE FALSE
    BY DEF IsKept
  <2>1. fences[h] # NoFence
    BY Numbers DEF NoFence
  <2> QED BY <2>1 DEF KnownIds
<1> QED BY <1>1, <1>2, <1>3 DEF Nowhere

\* A message that bears nothing is added.
LEMMA HarmlessBack ==
    ASSUME Types, Unique, NEW m \in AdapterMessages, adapterQ' = Append(adapterQ, m),
           \A id : ~BearsBack(batches, m, id), UNCHANGED <<batches, fences, apiQ>>
    PROVE  Unique'
<1>1. adapterQ \in Seq(AdapterMessages)
  BY DEF Types
<1> SUFFICES ASSUME NEW id \in Ids PROVE OnceOf(batches', adapterQ', apiQ', fences', id)
  BY DEF Unique
<1>2. OnceOf(batches, adapterQ, apiQ, fences, id)
  BY DEF Unique
<1>3. OnceOf(batches, Append(adapterQ, m), apiQ, fences, id)
  BY <1>1, <1>2, BackAdded
<1> QED BY <1>3

LEMMA CommandUnique ==
    ASSUME Types, Lives, Unique, NEW batch, CommandEffect(batch),
           \A id \in Ids : batch.op = "add" /\ (\E i \in 1..Len(batch.ids) : batch.ids[i] = id)
               => Nowhere(batches, adapterQ, apiQ, fences, id)
    PROVE  Unique'
<1> DEFINE m == [type |-> "command", batch |-> Len(batches) + 1]
<1>1. adapterQ \in Seq(AdapterMessages) /\ m \in AdapterMessages /\ Len(batches) \in Nat
  BY DEF Types, CommandEffect
<1>2. /\ \A b \in 1..Len(batches) : batches'[b] = batches[b]
      /\ batches'[Len(batches) + 1] = batch
      /\ adapterQ' = Append(adapterQ, m) /\ UNCHANGED <<fences, apiQ>>
  BY DEF CommandEffect
<1>3. m.type = "command" /\ m.batch = Len(batches) + 1
  OBVIOUS
<1> HIDE DEF m
<1> SUFFICES ASSUME NEW id \in Ids PROVE OnceOf(batches', adapterQ', apiQ', fences', id)
  BY DEF Unique
<1>4. OnceOf(batches, adapterQ, apiQ, fences, id)
  BY DEF Unique
<1>5. \A b \in 1..Len(batches) : Same(batches'[b], batches[b])
  BY <1>2 DEF Same
<1>6. OnceOf(batches', adapterQ, apiQ, fences, id)
  BY <1>4, <1>5, RefersToCommands, CommandsShrink
<1>7. ASSUME BearsBack(batches', m, id) PROVE Nowhere(batches', adapterQ, apiQ, fences, id)
  <2>1. batch.op = "add" /\ \E i \in 1..Len(batch.ids) : batch.ids[i] = id
    BY <1>2, <1>3, <1>7 DEF BearsBack
  <2>2. Nowhere(batches, adapterQ, apiQ, fences, id)
    BY <2>1
  <2>3. \A n \in Elements(adapterQ) : BearsBack(batches', n, id) => BearsBack(batches, n, id)
    BY <1>2, RefersToCommands DEF BearsBack
  <2>4. \A n \in Elements(apiQ) : BearsOut(batches', n, id) => BearsOut(batches, n, id)
    BY <1>2, RefersToCommands DEF BearsOut
  <2> QED BY <2>2, <2>3, <2>4 DEF Nowhere, IsBack, IsOut
<1>8. OnceOf(batches', Append(adapterQ, m), apiQ, fences, id)
  BY <1>1, <1>6, <1>7, BackAdded
<1> QED BY <1>2, <1>8

LEMMA CallsUnique ==
    ASSUME Types, Lives, KnownIds, Unique, AddGeofences \/ OtherCommand \/ RemoveClient \/ EngineCrash \/ Breach
    PROVE  Unique'
<1>1. CASE AddGeofences
  <2>1. PICK n, batch : AddEffect(n, batch)
    BY <1>1, Adds
  <2>2. /\ n \in Nat /\ Len(owner) \in Nat /\ Len(batch.ids) = n
        /\ \A i \in 1..n : batch.ids[i] = Len(owner) + i
        /\ CommandEffect(batch)
    BY <2>1 DEF AddEffect
  <2>3. \A i \in 1..n : batch.ids[i] \notin Known
    BY <2>2 DEF Known
  <2>4. \A id \in Ids : (\E i \in 1..Len(batch.ids) : batch.ids[i] = id)
            => Nowhere(batches, adapterQ, apiQ, fences, id)
    BY <2>2, <2>3, UnknownNowhere
  <2> QED BY <2>2, <2>4, CommandUnique
<1>2. CASE OtherCommand
  <2>1. PICK batch : OtherEffect(batch)
    BY <1>2, Others
  <2> QED BY <2>1, CommandUnique DEF OtherEffect
<1>3. CASE RemoveClient
  <2>1. PICK c \in clients :
          /\ adapterQ' = Append(adapterQ, [type |-> "removeClient", client |-> c])
          /\ UNCHANGED <<fences, owner, batches, apiQ>>
    BY <1>3 DEF RemoveClient, maps, engineSide
  <2>2. [type |-> "removeClient", client |-> c] \in AdapterMessages
    BY DEF Types, AdapterMessages, RemoveMessages
  <2>3. \A id : ~BearsBack(batches, [type |-> "removeClient", client |-> c], id)
    BY DEF BearsBack
  <2> QED BY <2>1, <2>2, <2>3, HarmlessBack
<1>4. CASE EngineCrash
  <2>1. [op |-> "ssr"] \in ApiMessages /\ apiQ \in Seq(ApiMessages)
    BY DEF ApiMessages, Types
  <2>2. UNCHANGED <<fences, batches, adapterQ>> /\ apiQ' = Append(apiQ, [op |-> "ssr"])
    BY <1>4 DEF EngineCrash, maps
  <2> SUFFICES ASSUME NEW id \in Ids PROVE OnceOf(batches', adapterQ', apiQ', fences', id)
    BY DEF Unique
  <2>3. ~BearsOut(batches, [op |-> "ssr"], id)
    BY DEF BearsOut
  <2>4. OnceOf(batches, adapterQ, apiQ, fences, id)
    BY DEF Unique
  <2>5. OnceOf(batches, adapterQ, Append(apiQ, [op |-> "ssr"]), fences, id)
    BY <2>1, <2>3, <2>4, OutAdded
  <2> QED BY <2>2, <2>5
<1>5. CASE Breach
  <2>1. PICK m \in AdapterMessages :
          m.type = "breach" /\ adapterQ' = Append(adapterQ, m) /\ UNCHANGED <<fences, owner, batches, apiQ>>
    BY <1>5, BreachSent DEF maps, engineSide
  <2>2. \A id : ~BearsBack(batches, m, id)
    BY <2>1 DEF BearsBack
  <2> QED BY <2>1, <2>2, HarmlessBack
<1> QED BY <1>1, <1>2, <1>3, <1>4, <1>5

LEMMA HandleCommandUnique ==
    ASSUME Types, Lives, Unique, HandleCommand
    PROVE  Unique'
<1>1. PICK b \in 1..Len(batches), turns \in Seq(ApiMessages) :
         /\ Head(adapterQ).type = "command" /\ Head(adapterQ).batch = b
         /\ batches[b] \in Batches
         /\ adapterQ # <<>> /\ adapterQ' = Tail(adapterQ)
         /\ apiQ' = apiQ \o turns
         /\ \A k \in 1..Len(turns) :
               turns[k].op = "turn" /\ turns[k].batch = b /\ turns[k].item = k
         /\ Len(turns) <= Len(batches[b].ids)
  BY CommandHandled
<1>2. UNCHANGED <<fences, batches>>
  BY DEF HandleCommand, maps
<1>3. adapterQ \in Seq(AdapterMessages) /\ apiQ \in Seq(ApiMessages)
  BY DEF Types
<1>4. /\ Len(turns) \in Nat /\ Len(batches[b].ids) \in Nat
      /\ \A i, j \in 1..Len(batches[b].ids) : batches[b].ids[i] = batches[b].ids[j] => i = j
  BY <1>1, BatchFields
<1> SUFFICES ASSUME NEW id \in Ids PROVE OnceOf(batches', adapterQ', apiQ', fences', id)
  BY DEF Unique
<1>5. OnceOf(batches, adapterQ, apiQ, fences, id)
  BY DEF Unique
<1>6. /\ OnceOf(batches, Tail(adapterQ), apiQ, fences, id)
      /\ BearsBack(batches, Head(adapterQ), id) => Nowhere(batches, Tail(adapterQ), apiQ, fences, id)
  BY <1>1, <1>3, <1>5, BackTaken
<1>7. \A k \in 1..Len(turns) : BearsOut(batches, turns[k], id) =>
          batches[b].op = "add" /\ k \in 1..Len(batches[b].ids) /\ batches[b].ids[k] = id
  BY <1>1, <1>4 DEF BearsOut
<1>8. OutOnce(batches, turns, id)
  BY <1>4, <1>7 DEF OutOnce
<1>9. IsOut(batches, turns, id) => BearsBack(batches, Head(adapterQ), id)
  BY <1>1, <1>7 DEF IsOut, Elements, BearsBack
<1>10. OnceOf(batches, Tail(adapterQ), apiQ \o turns, fences, id)
  BY <1>3, <1>6, <1>8, <1>9, OutJoined
<1> QED BY <1>1, <1>2, <1>10

LEMMA HandleTurnUnique ==
    ASSUME Types, Lives, Unique, HandleTurn
    PROVE  Unique'
<1>1. PICK c \in 1..Len(batches), i \in 1..MaxItems :
         /\ Head(adapterQ).type = "turn" /\ Head(adapterQ).batch = c /\ Head(adapterQ).item = i
         /\ Len(batches') = Len(batches)
         /\ \A b \in 1..Len(batches) : b # c => batches'[b] = batches[b]
         /\ adapterQ # <<>> /\ adapterQ' = Tail(adapterQ)
         /\ UNCHANGED maps
         /\ \/ \E r \in Requests :
                  /\ r \in ApiMessages /\ apiQ' = Append(apiQ, r)
                  /\ r.id = batches[c].ids[i] /\ r.op = batches[c].op
                  /\ Same(batches'[c], batches[c])
            \/ /\ apiQ' = apiQ
               /\ i # Len(batches[c].ids) => Same(batches'[c], batches[c])
               /\ i = Len(batches[c].ids) => batches'[c] = Deleted
  BY TurnHandled
<1>2. adapterQ \in Seq(AdapterMessages) /\ apiQ \in Seq(ApiMessages)
  BY DEF Types
<1>3. \A b \in 1..Len(batches) : Same(batches'[b], batches[b]) \/ batches'[b].op = "deleted"
  BY <1>1, DeletedIsBatch DEF Same
<1> SUFFICES ASSUME NEW id \in Ids PROVE OnceOf(batches', adapterQ', apiQ', fences', id)
  BY DEF Unique
<1>4. OnceOf(batches, adapterQ, apiQ, fences, id)
  BY DEF Unique
<1>5. /\ OnceOf(batches, Tail(adapterQ), apiQ, fences, id)
      /\ BearsBack(batches, Head(adapterQ), id) => Nowhere(batches, Tail(adapterQ), apiQ, fences, id)
  BY <1>1, <1>2, <1>4, BackTaken
<1>6. Elements(Tail(adapterQ)) \subseteq Elements(adapterQ)
  BY <1>1, <1>2, ElementsOfTail
<1>7. CASE apiQ' = apiQ
  <2>1. OnceOf(batches', Tail(adapterQ), apiQ, fences, id)
    BY <1>3, <1>5, <1>6, RefersToCommands, CommandsShrink
  <2> QED BY <1>1, <1>7, <2>1 DEF maps
<1>8. CASE \E r \in Requests :
              /\ r \in ApiMessages /\ apiQ' = Append(apiQ, r)
              /\ r.id = batches[c].ids[i] /\ r.op = batches[c].op
              /\ Same(batches'[c], batches[c])
  <2>1. PICK r \in Requests :
           /\ r \in ApiMessages /\ apiQ' = Append(apiQ, r)
           /\ r.id = batches[c].ids[i] /\ r.op = batches[c].op
    BY <1>8
  <2>2. BearsOut(batches, r, id) => BearsBack(batches, Head(adapterQ), id)
    BY <1>1, <2>1, RequestFields DEF BearsOut, BearsBack, Commands
  <2>3. OnceOf(batches, Tail(adapterQ), Append(apiQ, r), fences, id)
    BY <1>2, <1>5, <2>1, <2>2, OutAdded
  <2>4. Elements(Append(apiQ, r)) = Elements(apiQ) \cup {r} /\ r.op # "turn"
    BY <1>2, <2>1, ElementsOfAppend, RequestFields DEF Commands
  <2>5. OnceOf(batches', Tail(adapterQ), Append(apiQ, r), fences, id)
    BY <1>3, <1>6, <2>3, <2>4, RefersToCommands, CommandsShrink
  <2> QED BY <1>1, <2>1, <2>5 DEF maps
<1> QED BY <1>1, <1>7, <1>8

\* A fence is kept under hardware id h, under which nothing else is kept any more.
LEMMA SavedOnce ==
    ASSUME NEW bs, NEW aq, NEW pq, NEW fs, NEW fs2, NEW id, NEW h \in HwIds, NEW x,
           OnceOf(bs, aq, pq, fs, id),
           fs2[h].id = x, \A g \in HwIds : g # h => fs2[g] = fs[g],
           id = x => Nowhere(bs, aq, pq, fs, id)
    PROVE  OnceOf(bs, aq, pq, fs2, id)
<1>1. IsKeptOnce(fs, id)
  BY DEF OnceOf
<1>2. CASE id = x
  <2>1. \A g \in HwIds : g # h => fs2[g].id # id
    BY <1>2 DEF Nowhere, IsKept
  <2>2. IsKeptOnce(fs2, id)
    BY <2>1 DEF IsKeptOnce
  <2> QED BY <1>2, <2>2, KeptChanges
<1>3. CASE id # x
  <2>1. \A g \in HwIds : fs2[g].id = id => g # h /\ fs[g].id = id
    BY <1>3
  <2>2. IsKeptOnce(fs2, id)
    BY <1>1, <2>1 DEF IsKeptOnce
  <2>3. IsKept(fs2, id) => IsKept(fs, id)
    BY <2>1 DEF IsKept
  <2> QED BY <2>2, <2>3, KeptChanges
<1> QED BY <1>2, <1>3

\* Fences are kept as before, or no more.
LEMMA DroppedOnce ==
    ASSUME NEW bs, NEW aq, NEW pq, NEW fs, NEW fs2, NEW id \in Ids,
           OnceOf(bs, aq, pq, fs, id),
           \A g \in HwIds : fs2[g].id = fs[g].id \/ fs2[g] = NoFence
    PROVE  OnceOf(bs, aq, pq, fs2, id)
<1>1. \A g \in HwIds : fs2[g].id = id => fs[g].id = id
  BY Numbers DEF NoFence
<1>2. IsKeptOnce(fs2, id)
  BY <1>1 DEF OnceOf, IsKeptOnce
<1>3. IsKept(fs2, id) => IsKept(fs, id)
  BY <1>1 DEF IsKept
<1> QED BY <1>2, <1>3, KeptChanges

\* After the answer for an item: the fence that was added, or those of before.
LEMMA AnswerLeaves ==
    ASSUME Types, NEW m, NEW ok, NEW h, NEW b, AnswerEffect(m, ok, h, b)
    PROVE  \/ /\ ok /\ m.op = "add" /\ h \in HwIds /\ fences'[h].id = m.id
              /\ \A g \in HwIds : g # h => fences'[g] = fences[g]
           \/ \A g \in HwIds : fences'[g].id = fences[g].id \/ fences'[g] = NoFence
<1>0. ok \in BOOLEAN /\ (ok => h \in HwIds)
  BY DEF AnswerEffect
<1>1. /\ \A g \in HwIds : g # h => fences'[g] = fences[g]
      /\ ~ok => UNCHANGED maps
      /\ ok /\ m.op = "add" => fences'[h] # NoFence /\ fences'[h].id = m.id /\ fences'[h].opt = m.opt
                               /\ hwIdOf'[m.id] = h
                               /\ \A x \in Ids : x # m.id => hwIdOf'[x] = hwIdOf[x]
      /\ ok /\ m.op = "remove" =>
            IF fences[h] # NoFence /\ hwIdOf[fences[h].id] # 0
            THEN /\ fences'[h] = NoFence /\ hwIdOf'[fences[h].id] = 0
                 /\ \A x \in Ids : x # fences[h].id => hwIdOf'[x] = hwIdOf[x]
            ELSE UNCHANGED maps
      /\ m.op \notin {"add", "remove"} =>
            /\ hwIdOf' = hwIdOf
            /\ \A g \in HwIds : fences'[g].id = fences[g].id /\ (fences'[g] = NoFence <=> fences[g] = NoFence)
  BY AnswerKeeps
<1>2. CASE ~ok
  BY <1>1, <1>2 DEF maps
<1>3. CASE ok /\ m.op = "add"
  BY <1>0, <1>1, <1>3
<1>4. CASE ok /\ m.op = "remove"
  <2>1. CASE fences[h] # NoFence /\ hwIdOf[fences[h].id] # 0
    <3>1. fences'[h] = NoFence
      BY <1>1, <1>4, <2>1
    <3> QED BY <1>1, <3>1
  <2>2. CASE ~(fences[h] # NoFence /\ hwIdOf[fences[h].id] # 0)
    <3>1. UNCHANGED maps
      BY <1>1, <1>4, <2>2
    <3> QED BY <3>1 DEF maps
  <2> QED BY <2>1, <2>2
<1>5. CASE m.op \notin {"add", "remove"}
  BY <1>1, <1>5
<1> QED BY <1>0, <1>2, <1>3, <1>4, <1>5

LEMMA HandleAnswerUnique ==
    ASSUME Types, Lives, Unique, HandleAnswer
    PROVE  Unique'
<1>1. PICK m, ok, h, b : AnswerEffect(m, ok, h, b)
  BY AnswerHandled
<1>2. /\ adapterQ # <<>> /\ adapterQ' = Tail(adapterQ) /\ apiQ' = apiQ
      /\ Head(adapterQ).type = "answer" /\ Head(adapterQ).to = m /\ Head(adapterQ).ok = ok
      /\ \A c \in 1..Len(batches) : c # b => batches'[c] = batches[c]
      /\ Same(batches'[b], batches[b]) \/ batches'[b] = Deleted
  BY <1>1 DEF AnswerEffect
<1>3. adapterQ \in Seq(AdapterMessages)
  BY DEF Types
<1>4. \A c \in 1..Len(batches) : Same(batches'[c], batches[c]) \/ batches'[c].op = "deleted"
  BY <1>2, DeletedIsBatch DEF Same
<1> SUFFICES ASSUME NEW id \in Ids PROVE OnceOf(batches', adapterQ', apiQ', fences', id)
  BY DEF Unique
<1>5. OnceOf(batches, adapterQ, apiQ, fences, id)
  BY DEF Unique
<1>6. /\ OnceOf(batches, Tail(adapterQ), apiQ, fences, id)
      /\ BearsBack(batches, Head(adapterQ), id) => Nowhere(batches, Tail(adapterQ), apiQ, fences, id)
  BY <1>2, <1>3, <1>5, BackTaken
<1>7. Elements(Tail(adapterQ)) \subseteq Elements(adapterQ)
  BY <1>2, <1>3, ElementsOfTail
<1>8. OnceOf(batches, Tail(adapterQ), apiQ, fences', id)
  <2>1. CASE /\ ok /\ m.op = "add" /\ h \in HwIds /\ fences'[h].id = m.id
             /\ \A g \in HwIds : g # h => fences'[g] = fences[g]
    <3>1. id = m.id => BearsBack(batches, Head(adapterQ), id)
      BY <1>2, <2>1 DEF BearsBack
    <3> QED BY <1>6, <2>1, <3>1, SavedOnce
  <2>2. CASE \A g \in HwIds : fences'[g].id = fences[g].id \/ fences'[g] = NoFence
    BY <1>6, <2>2, DroppedOnce
  <2> QED BY <1>1, <2>1, <2>2, AnswerLeaves
<1>9. OnceOf(batches', Tail(adapterQ), apiQ, fences', id)
  BY <1>4, <1>7, <1>8, RefersToCommands, CommandsShrink
<1> QED BY <1>2, <1>9

LEMMA OthersHandledUnique ==
    ASSUME Types, Lives, Unique,
           HandleRemoveClient \/ HandleGone \/ HandleEngineUp \/ HandleRestored \/ HandleBreach
    PROVE  Unique'
<1>0. adapterQ \in Seq(AdapterMessages) /\ apiQ \in Seq(ApiMessages)
  BY DEF Types
<1> SUFFICES ASSUME NEW id \in Ids PROVE OnceOf(batches', adapterQ', apiQ', fences', id)
  BY DEF Unique
<1>1. OnceOf(batches, adapterQ, apiQ, fences, id)
  BY DEF Unique
<1>2. adapterQ # <<>> => OnceOf(batches, Tail(adapterQ), apiQ, fences, id)
          /\ (BearsBack(batches, Head(adapterQ), id) => Nowhere(batches, Tail(adapterQ), apiQ, fences, id))
  BY <1>0, <1>1, BackTaken
<1>3. CASE HandleRemoveClient
  <2>1. PICK c, requests : GoneEffect(c, requests)
    BY <1>3, RemoveClientHandled
  <2>2. /\ requests \in Seq(ApiMessages) /\ adapterQ # <<>> /\ adapterQ' = Tail(adapterQ)
        /\ apiQ' = apiQ \o requests /\ UNCHANGED <<fences, batches>>
        /\ \A k \in 1..Len(requests) : requests[k].op = "remove"
    BY <2>1 DEF GoneEffect
  <2>3. \A k \in 1..Len(requests) : ~BearsOut(batches, requests[k], id)
    BY <2>2 DEF BearsOut
  <2>4. OutOnce(batches, requests, id) /\ ~IsOut(batches, requests, id)
    BY <2>3 DEF OutOnce, IsOut, Elements
  <2>5. OnceOf(batches, Tail(adapterQ), apiQ \o requests, fences, id)
    BY <1>0, <1>2, <2>2, <2>4, OutJoined
  <2> QED BY <2>2, <2>5
<1>4. CASE HandleGone
  <2>1. /\ adapterQ # <<>> /\ adapterQ' = Tail(adapterQ) /\ UNCHANGED <<batches, apiQ>>
        /\ fences' = IF Head(adapterQ).ok THEN [fences EXCEPT ![Head(adapterQ).hwId] = NoFence] ELSE fences
    BY <1>4 DEF HandleGone, Take, TakeAnswer, engineSide
  <2>2. \A h \in HwIds : fences'[h].id = fences[h].id \/ fences'[h] = NoFence
    BY <2>1 DEF Types
  <2> QED BY <1>2, <2>1, <2>2, DroppedOnce
<1>5. CASE HandleEngineUp
  <2>1. PICK old, requests : RestartEffect(old, requests)
    BY <1>5, EngineUpHandled
  <2>2. /\ requests \in Seq(ApiMessages) /\ adapterQ # <<>> /\ adapterQ' = Tail(adapterQ)
        /\ apiQ' = apiQ \o requests /\ UNCHANGED batches
        /\ \A k \in 1..Len(requests) :
              old[k] \in HwIds /\ requests[k].op = "add" /\ requests[k].id = fences[old[k]].id
        /\ \A k, l \in 1..Len(requests) : old[k] = old[l] => k = l
        /\ \A h \in HwIds : fences'[h] = NoFence
    BY <2>1 DEF RestartEffect
  <2>3. \A k \in 1..Len(requests) : BearsOut(batches, requests[k], id) => fences[old[k]].id = id
    BY <2>2 DEF BearsOut
  <2>4. OutOnce(batches, requests, id)
    BY <1>1, <2>2, <2>3 DEF OutOnce, OnceOf, IsKeptOnce
  <2>5. IsOut(batches, requests, id) => IsKept(fences, id)
    BY <2>2, <2>3 DEF IsOut, Elements, IsKept
  <2>6. OnceOf(batches, Tail(adapterQ), apiQ, fences', id)
    BY <1>2, <2>2, DroppedOnce
  <2>7. ~IsKept(fences', id)
    BY <2>2, Numbers DEF IsKept, NoFence
  <2>8. IsKept(fences, id) => Nowhere(batches, Tail(adapterQ), apiQ, fences', id)
    BY <1>2, <2>2, <2>7 DEF OnceOf, Nowhere
  <2>9. OnceOf(batches, Tail(adapterQ), apiQ \o requests, fences', id)
    BY <1>0, <2>2, <2>4, <2>5, <2>6, <2>8, OutJoined
  <2> QED BY <2>2, <2>9
<1>6. CASE HandleRestored
  <2>1. PICK m, ok, h : RestoredEffect(m, ok, h)
    BY <1>6, RestoredHandled
  <2>2. /\ adapterQ # <<>> /\ adapterQ' = Tail(adapterQ) /\ UNCHANGED batches /\ m.op = "add" /\ ok \in BOOLEAN
        /\ Head(adapterQ).type = "answer" /\ Head(adapterQ).to = m /\ Head(adapterQ).ok = ok
        /\ \/ apiQ' = apiQ
           \/ \E r \in ApiMessages : apiQ' = Append(apiQ, r) /\ r.op = "pause"
    BY <2>1 DEF RestoredEffect
  <2>3. /\ \A g \in HwIds : g # h => fences'[g] = fences[g]
        /\ ~ok => UNCHANGED maps
        /\ ok => /\ h \in HwIds /\ fences'[h] # NoFence /\ fences'[h].id = m.id /\ fences'[h].opt = m.opt
                 /\ hwIdOf'[m.id] = h
                 /\ \A x \in Ids : x # m.id => hwIdOf'[x] = hwIdOf[x]
    BY <2>1, RestoreKeeps
  <2>4. OnceOf(batches, Tail(adapterQ), apiQ, fences', id)
    <3>1. CASE ok
      <4>1. id = m.id => BearsBack(batches, Head(adapterQ), id)
        BY <2>2, <3>1 DEF BearsBack
      <4>2. h \in HwIds /\ fences'[h].id = m.id
        BY <2>3, <3>1
      <4>3. OnceOf(batches, Tail(adapterQ), apiQ, fences, id)
            /\ (id = m.id => Nowhere(batches, Tail(adapterQ), apiQ, fences, id))
        BY <1>2, <2>2, <4>1
      <4>4. \A g \in HwIds : g # h => fences'[g] = fences[g]
        BY <2>3
      <4> QED BY <4>2, <4>3, <4>4, SavedOnce
    <3>2. CASE ~ok
      <4>1. fences' = fences
        BY <2>3, <3>2 DEF maps
      <4> QED BY <1>2, <2>2, <4>1
    <3> QED BY <2>2, <3>1, <3>2
  <2>5. CASE apiQ' = apiQ
    BY <2>2, <2>4, <2>5
  <2>6. CASE \E r \in ApiMessages : apiQ' = Append(apiQ, r) /\ r.op = "pause"
    <3>1. PICK r \in ApiMessages : apiQ' = Append(apiQ, r) /\ r.op = "pause"
      BY <2>6
    <3>2. ~BearsOut(batches, r, id)
      BY <3>1 DEF BearsOut
    <3>3. OnceOf(batches, Tail(adapterQ), Append(apiQ, r), fences', id)
      BY <1>0, <2>4, <3>2, OutAdded
    <3> QED BY <2>2, <3>1, <3>3
  <2> QED BY <2>2, <2>5, <2>6
<1>7. CASE HandleBreach
  <2>1. adapterQ # <<>> /\ adapterQ' = Tail(adapterQ) /\ UNCHANGED <<fences, batches, apiQ>>
    BY <1>7 DEF HandleBreach, Take, maps, engineSide
  <2> QED BY <1>2, <2>1
<1> QED BY <1>3, <1>4, <1>5, <1>6, <1>7

LEMMA RepliesUnique ==
    ASSUME Types, Unique, NEW m \in Requests, NEW ok, NEW h, Replies(m, ok, h),
           apiQ # <<>>, Head(apiQ) = m, apiQ' = Tail(apiQ), UNCHANGED <<fences, batches>>
    PROVE  Unique'
<1>0. adapterQ \in Seq(AdapterMessages) /\ apiQ \in Seq(ApiMessages)
  BY DEF Types
<1> SUFFICES ASSUME NEW id \in Ids PROVE OnceOf(batches', adapterQ', apiQ', fences', id)
  BY DEF Unique
<1>1. OnceOf(batches, adapterQ, apiQ, fences, id)
  BY DEF Unique
<1>2. /\ OnceOf(batches, adapterQ, Tail(apiQ), fences, id)
      /\ BearsOut(batches, m, id) => Nowhere(batches, adapterQ, Tail(apiQ), fences, id)
  BY <1>0, <1>1, OutTaken
<1>3. CASE adapterQ' = adapterQ
  BY <1>2, <1>3
<1>4. CASE \E a \in AdapterMessages : adapterQ' = Append(adapterQ, a) /\ a.type = "answer" /\ a.to = m
  <2>1. PICK a \in AdapterMessages : adapterQ' = Append(adapterQ, a) /\ a.type = "answer" /\ a.to = m
    BY <1>4
  <2>2. BearsBack(batches, a, id) => BearsOut(batches, m, id)
    BY <2>1 DEF BearsBack, BearsOut
  <2>3. OnceOf(batches, Append(adapterQ, a), Tail(apiQ), fences, id)
    BY <1>0, <1>2, <2>2, BackAdded
  <2> QED BY <2>1, <2>3
<1> QED BY <1>3, <1>4 DEF Replies

LEMMA ApiThreadUnique ==
    ASSUME Types, Unique, ApiThread
    PROVE  Unique'
<1>0. adapterQ \in Seq(AdapterMessages) /\ apiQ \in Seq(ApiMessages)
  BY DEF Types
<1>1. CASE ReturnTurn
  <2>1. PICK m \in TurnMessages :
          /\ m \in AdapterMessages /\ m.type = "turn"
          /\ apiQ # <<>> /\ Head(apiQ).op = "turn" /\ apiQ' = Tail(apiQ)
          /\ m.batch = Head(apiQ).batch /\ m.item = Head(apiQ).item
          /\ adapterQ' = Append(adapterQ, m)
          /\ UNCHANGED <<maps, clients, owner, batches, engine, strayed, answered, used>>
    BY <1>1, TurnReturns
  <2> SUFFICES ASSUME NEW id \in Ids PROVE OnceOf(batches', adapterQ', apiQ', fences', id)
    BY DEF Unique
  <2>2. OnceOf(batches, adapterQ, apiQ, fences, id)
    BY DEF Unique
  <2>3. /\ OnceOf(batches, adapterQ, Tail(apiQ), fences, id)
        /\ BearsOut(batches, Head(apiQ), id) => Nowhere(batches, adapterQ, Tail(apiQ), fences, id)
    BY <1>0, <2>1, <2>2, OutTaken
  <2>4. BearsBack(batches, m, id) => BearsOut(batches, Head(apiQ), id)
    BY <2>1 DEF BearsBack, BearsOut
  <2>5. OnceOf(batches, Append(adapterQ, m), Tail(apiQ), fences, id)
    BY <1>0, <2>1, <2>3, <2>4, BackAdded
  <2> QED BY <2>1, <2>5 DEF maps
<1>2. CASE Serve
  <2>1. PICK m, h : ServeEffect(m, h)
    BY <1>2, Serves
  <2>2. m \in Requests /\ Replies(m, TRUE, h) /\ apiQ # <<>> /\ Head(apiQ) = m /\ apiQ' = Tail(apiQ)
        /\ UNCHANGED <<fences, batches>>
    BY <2>1 DEF ServeEffect, maps
  <2> QED BY <2>2, RepliesUnique
<1>3. CASE Fail
  <2>1. PICK m : FailEffect(m)
    BY <1>3, Fails
  <2>2. m \in Requests /\ Replies(m, FALSE, m.hwId) /\ apiQ # <<>> /\ Head(apiQ) = m /\ apiQ' = Tail(apiQ)
        /\ UNCHANGED <<fences, batches>>
    BY <2>1 DEF FailEffect, maps
  <2> QED BY <2>2, RepliesUnique
<1>4. CASE Reopen
  <2>1. [type |-> "engineUp"] \in AdapterMessages
    BY DEF AdapterMessages, UpMessages
  <2>2. adapterQ' = Append(adapterQ, [type |-> "engineUp"]) /\ apiQ # <<>> /\ apiQ' = Tail(apiQ)
        /\ UNCHANGED <<fences, batches>>
    BY <1>4 DEF Reopen, maps
  <2> SUFFICES ASSUME NEW id \in Ids PROVE OnceOf(batches', adapterQ', apiQ', fences', id)
    BY DEF Unique
  <2>3. OnceOf(batches, adapterQ, apiQ, fences, id)
    BY DEF Unique
  <2>4. OnceOf(batches, adapterQ, Tail(apiQ), fences, id)
    BY <1>0, <2>2, <2>3, OutTaken
  <2>5. ~BearsBack(batches, [type |-> "engineUp"], id)
    BY DEF BearsBack
  <2>6. OnceOf(batches, Append(adapterQ, [type |-> "engineUp"]), Tail(apiQ), fences, id)
    BY <1>0, <2>1, <2>4, <2>5, BackAdded
  <2> QED BY <2>2, <2>6
<1> QED BY <1>1, <1>2, <1>3, <1>4 DEF ApiThread

LEMMA NextUnique == Types /\ Lives /\ KnownIds /\ Unique /\ [Next]_vars => Unique'
<1> SUFFICES ASSUME Types, Lives, KnownIds, Unique, [Next]_vars PROVE Unique'
  OBVIOUS
<1>1. CASE UNCHANGED vars
  BY <1>1 DEF vars, maps, engineSide, Unique
<1> QED BY <1>1, CallsUnique, HandleCommandUnique, HandleTurnUnique, HandleAnswerUnique,
           OthersHandledUnique, ApiThreadUnique
        DEF Next, AdapterThread

LEMMA InitUnique == Init => Unique
<1> SUFFICES ASSUME Init, NEW id \in Ids PROVE OnceOf(batches, adapterQ, apiQ, fences, id)
  BY DEF Unique
<1>1. adapterQ = <<>> /\ apiQ = <<>> /\ \A h \in HwIds : fences[h].id = 0
  BY DEF Init, NoFence
<1>2. 0 \notin Ids
  BY Numbers
<1> QED BY <1>1, <1>2 DEF OnceOf, BackOnce, OutOnce, IsKeptOnce, IsBack, IsOut, IsKept, Elements

-----------------------------------------------------------------------------
(* A fence that is kept for a client that is there can be named by it.      *)

Live(id) == id \in Known /\ owner[id] \in clients

LiveNamed == \A h \in HwIds : Live(fences[h].id) => hwIdOf[fences[h].id] # 0

\* A client that is there was there before, and so was its fence.
LEMMA LiveBefore ==
    ASSUME Types, NEW id \in Known, owner'[id] = owner[id], clients' \subseteq clients, Live(id)'
    PROVE  Live(id)
BY DEF Live

LEMMA LiveStay ==
    ASSUME LiveNamed, UNCHANGED <<fences, hwIdOf, owner>>, clients' \subseteq clients
    PROVE  LiveNamed'
BY DEF LiveNamed, Live, Known

\* What is saved is named, and its name is no other's.
LEMMA SavedNamed ==
    ASSUME Types, LiveNamed, UNCHANGED <<owner, clients>>, NEW h \in HwIds, NEW id \in Ids,
           fences'[h].id = id, hwIdOf'[id] = h,
           \A g \in HwIds : g # h => fences'[g] = fences[g],
           \A x \in Ids : x # id => hwIdOf'[x] = hwIdOf[x]
    PROVE  LiveNamed'
<1>1. 0 \notin HwIds /\ 0 \notin Ids
  BY Numbers
<1> SUFFICES ASSUME NEW g \in HwIds, Live(fences[g].id)' PROVE hwIdOf'[fences'[g].id] # 0
  BY DEF LiveNamed
<1>2. CASE fences'[g].id = id
  BY <1>1, <1>2
<1>3. CASE fences'[g].id # id
  <2>1. fences'[g] = fences[g]
    BY <1>3
  <2>2. Live(fences[g].id) /\ fences[g].id \in Ids
    <3>1. Live(fences[g].id)
      BY <2>1 DEF Live, Known
    <3>2. Len(owner) \in Nat /\ Len(owner) <= MaxFences /\ MaxFences \in Nat
      BY Numbers DEF Types
    <3> QED BY <3>1, <3>2 DEF Live, Known, Ids
  <2> QED BY <1>3, <2>1, <2>2 DEF LiveNamed
<1> QED BY <1>2, <1>3

LEMMA OnceKept ==
    ASSUME Unique, NEW g \in HwIds, NEW h \in HwIds, fences[g].id = fences[h].id, fences[h].id \in Ids
    PROVE  g = h
BY DEF Unique, OnceOf, IsKeptOnce

LEMMA NextLiveNamed == Types /\ Lives /\ KnownIds /\ Unique /\ LiveNamed /\ [Next]_vars => LiveNamed'
<1> SUFFICES ASSUME Types, Lives, KnownIds, Unique, LiveNamed, [Next]_vars PROVE LiveNamed'
  OBVIOUS
<1>1. CASE UNCHANGED vars
  BY <1>1, LiveStay DEF vars, maps
<1>2. CASE AddGeofences
  <2>1. PICK n, batch : AddEffect(n, batch)
    BY <1>2, Adds
  <2>2. /\ UNCHANGED <<fences, hwIdOf, clients>>
        /\ \A id \in 1..Len(owner) : owner'[id] = owner[id]
    BY <2>1 DEF AddEffect, CommandEffect
  <2> SUFFICES ASSUME NEW h \in HwIds, Live(fences[h].id)' PROVE hwIdOf[fences[h].id] # 0
    BY <2>2 DEF LiveNamed
  <2>3. fences[h] # NoFence
    <3>1. fences[h].id # 0
      BY <2>2 DEF Live, Known
    <3> QED BY <3>1 DEF NoFence
  <2>4. fences[h].id \in Known
    BY <2>3 DEF KnownIds
  <2>5. Live(fences[h].id)
    BY <2>2, <2>4 DEF Live, Known
  <2> QED BY <2>5 DEF LiveNamed
<1>3. CASE OtherCommand
  <2>1. PICK batch : OtherEffect(batch)
    BY <1>3, Others
  <2> QED BY <2>1, LiveStay DEF OtherEffect, CommandEffect
<1>4. CASE RemoveClient
  BY <1>4, LiveStay DEF RemoveClient, maps
<1>5. CASE HandleCommand
  BY <1>5, LiveStay DEF HandleCommand, maps
<1>6. CASE HandleTurn
  BY <1>6, LiveStay DEF HandleTurn, maps
<1>7. CASE HandleAnswer
  <2>1. PICK m, ok, h, b : AnswerEffect(m, ok, h, b)
    BY <1>7, AnswerHandled
  <2>2. /\ ok \in BOOLEAN /\ (ok => h \in HwIds) /\ m.id \in Ids
        /\ UNCHANGED <<clients, owner>>
    BY <2>1, RequestFields DEF AnswerEffect
  <2>3. /\ \A g \in HwIds : g # h => fences'[g] = fences[g]
        /\ ~ok => UNCHANGED maps
        /\ ok /\ m.op = "add" => fences'[h] # NoFence /\ fences'[h].id = m.id /\ fences'[h].opt = m.opt
                                 /\ hwIdOf'[m.id] = h
                                 /\ \A x \in Ids : x # m.id => hwIdOf'[x] = hwIdOf[x]
        /\ ok /\ m.op = "remove" =>
              IF fences[h] # NoFence /\ hwIdOf[fences[h].id] # 0
              THEN /\ fences'[h] = NoFence /\ hwIdOf'[fences[h].id] = 0
                   /\ \A x \in Ids : x # fences[h].id => hwIdOf'[x] = hwIdOf[x]
              ELSE UNCHANGED maps
        /\ m.op \notin {"add", "remove"} =>
              /\ hwIdOf' = hwIdOf
              /\ \A g \in HwIds : fences'[g].id = fences[g].id /\ (fences'[g] = NoFence <=> fences[g] = NoFence)
    BY <2>1, AnswerKeeps
  <2>4. CASE ~ok
    BY <2>2, <2>3, <2>4, LiveStay DEF maps
  <2>5. CASE ok /\ m.op = "add"
    <3>1. fences'[h].id = m.id /\ hwIdOf'[m.id] = h /\ h \in HwIds
          /\ \A x \in Ids : x # m.id => hwIdOf'[x] = hwIdOf[x]
      BY <2>2, <2>3, <2>5
    <3>2. \A g \in HwIds : g # h => fences'[g] = fences[g]
      BY <2>3
    <3> QED BY <2>2, <3>1, <3>2, SavedNamed
  <2>6. CASE ok /\ m.op = "remove"
    <3>1. CASE fences[h] # NoFence /\ hwIdOf[fences[h].id] # 0
      <4>1. fences'[h] = NoFence /\ h \in HwIds
            /\ \A x \in Ids : x # fences[h].id => hwIdOf'[x] = hwIdOf[x]
        BY <2>2, <2>3, <2>6, <3>1
      <4> SUFFICES ASSUME NEW g \in HwIds, Live(fences[g].id)' PROVE hwIdOf'[fences'[g].id] # 0
        BY DEF LiveNamed
      <4>2. g # h
        BY <4>1, Numbers DEF Live, Known, NoFence
      <4>3. fences'[g] = fences[g] /\ Live(fences[g].id)
        BY <2>2, <2>3, <4>2 DEF Live, Known
      <4>4. fences[g].id \in Ids
        <5>1. Len(owner) \in Nat /\ Len(owner) <= MaxFences /\ MaxFences \in Nat
          BY Numbers DEF Types
        <5> QED BY <4>3, <5>1 DEF Live, Known, Ids
      <4>5. fences[g].id # fences[h].id
        BY <4>1, <4>2, <4>4, OnceKept
      <4> QED BY <4>1, <4>3, <4>4, <4>5 DEF LiveNamed
    <3>2. CASE ~(fences[h] # NoFence /\ hwIdOf[fences[h].id] # 0)
      <4>1. UNCHANGED maps
        BY <2>3, <2>6, <3>2
      <4> QED BY <2>2, <4>1, LiveStay DEF maps
    <3> QED BY <3>1, <3>2
  <2>7. CASE m.op \notin {"add", "remove"}
    <3>1. hwIdOf' = hwIdOf /\ \A g \in HwIds : fences'[g].id = fences[g].id
      BY <2>3, <2>7
    <3> QED BY <2>2, <3>1 DEF LiveNamed, Live, Known
  <2> QED BY <2>2, <2>4, <2>5, <2>6, <2>7
<1>8. CASE HandleRemoveClient
  <2>1. PICK c, requests : GoneEffect(c, requests)
    BY <1>8, RemoveClientHandled
  <2>2. /\ UNCHANGED <<fences, owner>> /\ clients' = clients \ {c}
        /\ \A id \in Ids : hwIdOf'[id] = IF id \in OwnIds(c) THEN 0 ELSE hwIdOf[id]
    BY <2>1 DEF GoneEffect
  <2> SUFFICES ASSUME NEW g \in HwIds, Live(fences[g].id)' PROVE hwIdOf'[fences[g].id] # 0
    BY <2>2 DEF LiveNamed
  <2>3. Live(fences[g].id) /\ fences[g].id \notin OwnIds(c)
    BY <2>2 DEF Live, Known, OwnIds
  <2>4. fences[g].id \in Ids
    <3>1. Len(owner) \in Nat /\ Len(owner) <= MaxFences /\ MaxFences \in Nat
      BY Numbers DEF Types
    <3> QED BY <2>3, <3>1 DEF Live, Known, Ids
  <2> QED BY <2>2, <2>3, <2>4 DEF LiveNamed
<1>9. CASE HandleGone
  <2>1. /\ UNCHANGED <<owner, clients, hwIdOf>>
        /\ fences' = IF Head(adapterQ).ok THEN [fences EXCEPT ![Head(adapterQ).hwId] = NoFence] ELSE fences
    BY <1>9 DEF HandleGone
  <2>2. \A h \in HwIds : fences'[h] = fences[h] \/ fences'[h] = NoFence
    BY <2>1 DEF Types
  <2>3. \A h \in HwIds : Live(fences[h].id)' => fences'[h] = fences[h]
    BY <2>2, Numbers DEF Live, Known, NoFence
  <2> QED BY <2>1, <2>3 DEF LiveNamed, Live, Known
<1>10. CASE HandleEngineUp
  <2>1. PICK old, requests : RestartEffect(old, requests)
    BY <1>10, EngineUpHandled
  <2>2. \A h \in HwIds : fences'[h] = NoFence
    BY <2>1 DEF RestartEffect
  <2> QED BY <2>2, Numbers DEF LiveNamed, Live, Known, NoFence
<1>11. CASE HandleRestored
  <2>1. PICK m, ok, h : RestoredEffect(m, ok, h)
    BY <1>11, RestoredHandled
  <2>2. UNCHANGED <<owner, clients>> /\ m.id \in Ids /\ ok \in BOOLEAN
    BY <2>1 DEF RestoredEffect
  <2>3. /\ \A g \in HwIds : g # h => fences'[g] = fences[g]
        /\ ~ok => UNCHANGED maps
        /\ ok => /\ h \in HwIds /\ fences'[h] # NoFence /\ fences'[h].id = m.id /\ fences'[h].opt = m.opt
                 /\ hwIdOf'[m.id] = h
                 /\ \A x \in Ids : x # m.id => hwIdOf'[x] = hwIdOf[x]
    BY <2>1, RestoreKeeps
  <2>4. CASE ~ok
    BY <2>2, <2>3, <2>4, LiveStay DEF maps
  <2>5. CASE ok
    <3>1. fences'[h].id = m.id /\ hwIdOf'[m.id] = h /\ h \in HwIds
          /\ \A x \in Ids : x # m.id => hwIdOf'[x] = hwIdOf[x]
      BY <2>3, <2>5
    <3>2. \A g \in HwIds : g # h => fences'[g] = fences[g]
      BY <2>3
    <3> QED BY <2>2, <3>1, <3>2, SavedNamed
  <2> QED BY <2>2, <2>4, <2>5
<1>12. CASE HandleBreach \/ ApiThread \/ EngineCrash \/ Breach
  <2>1. UNCHANGED <<fences, hwIdOf, owner, clients>>
    BY <1>12 DEF HandleBreach, ApiThread, ReturnTurn, Serve, Fail, Reopen, EngineCrash, Breach, maps
  <2> QED BY <2>1, LiveStay
<1> QED BY <1>1, <1>2, <1>3, <1>4, <1>5, <1>6, <1>7, <1>8, <1>9, <1>10, <1>11, <1>12
        DEF Next, AdapterThread

LEMMA InitLiveNamed == Init => LiveNamed
BY DEF Init, LiveNamed, Live, Known

-----------------------------------------------------------------------------
(* What the adapter will keep under a hardware id when the messages before a *)
(* message were handled: what the last answer for that id says, or what it   *)
(* keeps now if none says anything.                                          *)

IsOk(m, h) == m.type = "answer" /\ m.ok /\ m.hwId = h
Brings(m, h, id) == IsOk(m, h) /\ m.to.op = "add" /\ m.to.id = id
Speaks(m, h) == m.type = "engineUp" \/ (IsOk(m, h) /\ m.to.op \in {"add", "remove"})

Silent(aq, k, h) == \A l \in 1..k : ~Speaks(aq[l], h)
Last(aq, k, h, id) ==
    \E j \in 1..k : Brings(aq[j], h, id) /\ \A l \in 1..k : j < l => ~Speaks(aq[l], h)
WillKeep(aq, k, fs, h, id) == Last(aq, k, h, id) \/ (Silent(aq, k, h) /\ fs[h].id = id)

\* The first message is taken.
LEMMA TakenLast ==
    ASSUME NEW S, NEW aq \in Seq(S), aq # <<>>, NEW k \in 0..Len(Tail(aq)), NEW h, NEW id
    PROVE  /\ k + 1 \in 1..Len(aq)
           /\ Last(Tail(aq), k, h, id) => Last(aq, k + 1, h, id)
           /\ Silent(Tail(aq), k, h) /\ Brings(Head(aq), h, id) => Last(aq, k + 1, h, id)
           /\ Silent(Tail(aq), k, h) /\ ~Speaks(Head(aq), h) => Silent(aq, k + 1, h)
<1>1. /\ Head(aq) = aq[1] /\ Len(aq) \in Nat \ {0} /\ Len(Tail(aq)) = Len(aq) - 1
      /\ \A j \in 1..Len(Tail(aq)) : j + 1 \in 1..Len(aq) /\ Tail(aq)[j] = aq[j + 1]
  BY Shortened
<1>2. k \in Nat /\ k + 1 \in 1..Len(aq)
  BY <1>1
<1>3. \A l \in 1..(k + 1) : l = 1 \/ (l - 1 \in 1..k /\ aq[l] = Tail(aq)[l - 1])
  <2> TAKE l \in 1..(k + 1)
  <2>1. CASE l # 1
    <3>1. l - 1 \in 1..k /\ l - 1 \in 1..Len(Tail(aq)) /\ (l - 1) + 1 = l
      BY <1>1, <1>2, <2>1
    <3> QED BY <1>1, <3>1
  <2> QED BY <2>1
<1>4. ASSUME Last(Tail(aq), k, h, id) PROVE Last(aq, k + 1, h, id)
  <2>1. PICK j \in 1..k : Brings(Tail(aq)[j], h, id) /\ \A l \in 1..k : j < l => ~Speaks(Tail(aq)[l], h)
    BY <1>4 DEF Last
  <2>2. j + 1 \in 1..(k + 1) /\ Brings(aq[j + 1], h, id)
    <3>1. j \in 1..Len(Tail(aq))
      BY <1>1, <1>2
    <3> QED BY <1>1, <1>2, <2>1, <3>1
  <2>3. \A l \in 1..(k + 1) : j + 1 < l => ~Speaks(aq[l], h)
    <3> SUFFICES ASSUME NEW l \in 1..(k + 1), j + 1 < l PROVE ~Speaks(aq[l], h)
      OBVIOUS
    <3>1. l - 1 \in 1..k /\ aq[l] = Tail(aq)[l - 1]
      BY <1>2, <1>3
    <3>2. j < l - 1
      BY <1>2
    <3> QED BY <2>1, <3>1, <3>2
  <2> QED BY <2>2, <2>3 DEF Last
<1>5. ASSUME Silent(Tail(aq), k, h) PROVE \A l \in 1..(k + 1) : 1 < l => ~Speaks(aq[l], h)
  <2> SUFFICES ASSUME NEW l \in 1..(k + 1), 1 < l PROVE ~Speaks(aq[l], h)
    OBVIOUS
  <2>1. l - 1 \in 1..k /\ aq[l] = Tail(aq)[l - 1]
    BY <1>2, <1>3
  <2> QED BY <1>5, <2>1 DEF Silent
<1>6. ASSUME Silent(Tail(aq), k, h), Brings(Head(aq), h, id) PROVE Last(aq, k + 1, h, id)
  <2>1. 1 \in 1..(k + 1) /\ Brings(aq[1], h, id)
    BY <1>1, <1>2, <1>6
  <2> QED BY <1>5, <1>6, <2>1 DEF Last
<1>7. ASSUME Silent(Tail(aq), k, h), ~Speaks(Head(aq), h) PROVE Silent(aq, k + 1, h)
  <2>1. \A l \in 1..(k + 1) : l = 1 \/ 1 < l
    BY <1>2
  <2> QED BY <1>1, <1>5, <1>7, <2>1 DEF Silent
<1> QED BY <1>2, <1>4, <1>6, <1>7

\* A message is added.
LEMMA AddedLast ==
    ASSUME NEW S, NEW aq \in Seq(S), NEW m \in S, NEW h, NEW id
    PROVE  /\ \A k \in 0..Len(aq) :
                 /\ Last(Append(aq, m), k, h, id) <=> Last(aq, k, h, id)
                 /\ Silent(Append(aq, m), k, h) <=> Silent(aq, k, h)
           /\ Last(Append(aq, m), Len(aq) + 1, h, id) =>
                 Brings(m, h, id) \/ (~Speaks(m, h) /\ Last(aq, Len(aq), h, id))
           /\ Silent(Append(aq, m), Len(aq) + 1, h) => ~Speaks(m, h) /\ Silent(aq, Len(aq), h)
<1>1. /\ Len(Append(aq, m)) = Len(aq) + 1 /\ Len(aq) \in Nat
      /\ \A k \in 1..Len(aq) : Append(aq, m)[k] = aq[k]
      /\ Append(aq, m)[Len(aq) + 1] = m
  BY Appended
<1> DEFINE q == Append(aq, m)
<1>q. /\ \A k \in 1..Len(aq) : q[k] = aq[k]
      /\ q[Len(aq) + 1] = m
  BY <1>1
<1> HIDE DEF q
<1>2. \A k \in 0..Len(aq) : (Last(q, k, h, id) <=> Last(aq, k, h, id)) /\ (Silent(q, k, h) <=> Silent(aq, k, h))
  <2> TAKE k \in 0..Len(aq)
  <2>1. \A l \in 1..k : q[l] = aq[l]
    BY <1>1, <1>q
  <2>2. Silent(q, k, h) <=> Silent(aq, k, h)
    BY <2>1 DEF Silent
  <2>3. Last(q, k, h, id) <=> Last(aq, k, h, id)
    BY <2>1 DEF Last
  <2> QED BY <2>2, <2>3
<1>3. \A l \in 1..Len(aq) : l \in 1..(Len(aq) + 1)
  BY <1>1
<1>4. ASSUME Last(q, Len(aq) + 1, h, id), ~Brings(m, h, id) PROVE ~Speaks(m, h) /\ Last(aq, Len(aq), h, id)
  <2>1. PICK j \in 1..(Len(aq) + 1) :
           Brings(q[j], h, id) /\ \A l \in 1..(Len(aq) + 1) : j < l => ~Speaks(q[l], h)
    BY <1>4 DEF Last
  <2>2. j # Len(aq) + 1
    BY <1>4, <1>q, <2>1
  <2>3. j \in 1..Len(aq) /\ j < Len(aq) + 1 /\ Len(aq) + 1 \in 1..(Len(aq) + 1)
    BY <1>1, <2>2
  <2>4. ~Speaks(m, h)
    BY <1>q, <2>1, <2>3
  <2>5. Brings(aq[j], h, id) /\ \A l \in 1..Len(aq) : j < l => ~Speaks(aq[l], h)
    BY <1>3, <1>q, <2>1, <2>3
  <2> QED BY <2>3, <2>4, <2>5 DEF Last
<1>5. ASSUME Silent(q, Len(aq) + 1, h) PROVE ~Speaks(m, h) /\ Silent(aq, Len(aq), h)
  <2>1. Len(aq) + 1 \in 1..(Len(aq) + 1)
    BY <1>1
  <2> QED BY <1>3, <1>5, <1>q, <2>1 DEF Silent
<1> QED BY <1>2, <1>4, <1>5 DEF q

\* A breach under way means, of the hardware ids that it names, those that the adapter will
\* keep for a client that is there when it comes to it.
BreachesOwn ==
    \A k \in 1..Len(adapterQ) :
        adapterQ[k].type = "breach" =>
            \A h \in adapterQ[k].hwIds, id \in Known :
                Live(id) /\ WillKeep(adapterQ, k - 1, fences, h, id) => id \in adapterQ[k].of

\* What the adapter will keep once all messages were handled, the engine has, if it has
\* anything under that hardware id.
Mirror ==
    \A h \in HwIds, id \in Known :
        Live(id) /\ (engine.up \/ Held(h)) /\ WillKeep(adapterQ, Len(adapterQ), fences, h, id)
            => id = engine.fences[h].id

\* A message is taken: it brings what is kept now, or says nothing of it.
LEMMA OwnTaken ==
    ASSUME Types, BreachesOwn, Mirror, UNCHANGED <<owner, engine>>, clients' \subseteq clients,
           adapterQ # <<>>, adapterQ' = Tail(adapterQ),
           \A h \in HwIds, id \in Known : Live(id) /\ fences'[h].id = id =>
               Brings(Head(adapterQ), h, id) \/ (~Speaks(Head(adapterQ), h) /\ fences[h].id = id)
    PROVE  BreachesOwn' /\ Mirror'
<1>1. adapterQ \in Seq(AdapterMessages)
  BY DEF Types
<1>2. /\ Len(adapterQ) \in Nat \ {0} /\ Len(Tail(adapterQ)) = Len(adapterQ) - 1
      /\ \A j \in 1..Len(Tail(adapterQ)) : j + 1 \in 1..Len(adapterQ) /\ Tail(adapterQ)[j] = adapterQ[j + 1]
  BY <1>1, Shortened
<1>3. Known' = Known /\ \A id \in Known : Live(id)' => Live(id)
  BY DEF Known, Live
<1>4. \A k \in 0..Len(Tail(adapterQ)), h \in HwIds, id \in Known :
        Live(id) /\ WillKeep(Tail(adapterQ), k, fences', h, id) => WillKeep(adapterQ, k + 1, fences, h, id)
  <2> SUFFICES ASSUME NEW k \in 0..Len(Tail(adapterQ)), NEW h \in HwIds, NEW id \in Known, Live(id),
                      WillKeep(Tail(adapterQ), k, fences', h, id)
               PROVE  WillKeep(adapterQ, k + 1, fences, h, id)
    OBVIOUS
  <2>1. /\ Last(Tail(adapterQ), k, h, id) => Last(adapterQ, k + 1, h, id)
        /\ Silent(Tail(adapterQ), k, h) /\ Brings(Head(adapterQ), h, id) => Last(adapterQ, k + 1, h, id)
        /\ Silent(Tail(adapterQ), k, h) /\ ~Speaks(Head(adapterQ), h) => Silent(adapterQ, k + 1, h)
    BY <1>1, TakenLast
  <2> QED BY <2>1 DEF WillKeep
<1>5. BreachesOwn'
  <2> SUFFICES ASSUME NEW k \in 1..Len(adapterQ'), adapterQ'[k].type = "breach",
                      NEW h \in adapterQ'[k].hwIds, NEW id \in Known', Live(id)',
                      WillKeep(adapterQ', k - 1, fences', h, id)
               PROVE  id \in adapterQ'[k].of
    BY DEF BreachesOwn
  <2>1. k + 1 \in 1..Len(adapterQ) /\ adapterQ'[k] = adapterQ[k + 1] /\ k - 1 \in 0..Len(Tail(adapterQ))
        /\ (k - 1) + 1 = k /\ (k + 1) - 1 = k
    BY <1>2
  <2>2. h \in HwIds
    <3>1. adapterQ[k + 1] \in AdapterMessages
      BY <1>1, <2>1
    <3> QED BY <2>1, <3>1, AdapterFields
  <2>3. id \in Known /\ Live(id)
    BY <1>3
  <2>4. WillKeep(adapterQ, (k - 1) + 1, fences, h, id)
    BY <1>4, <2>1, <2>2, <2>3
  <2>5. WillKeep(adapterQ, (k + 1) - 1, fences, h, id)
    BY <2>1, <2>4
  <2> QED BY <2>1, <2>3, <2>5 DEF BreachesOwn
<1>6. Mirror'
  <2> SUFFICES ASSUME NEW h \in HwIds, NEW id \in Known', Live(id)', (engine.up \/ Held(h))',
                      WillKeep(adapterQ', Len(adapterQ'), fences', h, id)
               PROVE  id = engine'.fences[h].id
    BY DEF Mirror
  <2>1. Len(adapterQ') \in 0..Len(Tail(adapterQ)) /\ Len(adapterQ') + 1 = Len(adapterQ)
    BY <1>2
  <2>2. id \in Known /\ Live(id) /\ (engine.up \/ Held(h))
    BY <1>3 DEF Held
  <2>3. WillKeep(adapterQ, Len(adapterQ') + 1, fences, h, id)
    BY <1>4, <2>1, <2>2
  <2>4. WillKeep(adapterQ, Len(adapterQ), fences, h, id)
    BY <2>1, <2>3
  <2> QED BY <2>2, <2>4 DEF Mirror
<1> QED BY <1>5, <1>6

\* A message is added: what the engine has when it says something.
LEMMA OwnAdded ==
    ASSUME Types, BreachesOwn, UNCHANGED fences, NEW m \in AdapterMessages, adapterQ' = Append(adapterQ, m),
           \A h \in HwIds, id \in Known', k \in 0..Len(adapterQ) :
              Live(id)' /\ WillKeep(adapterQ, k, fences, h, id) => id \in Known /\ Live(id),
           m.type = "breach" =>
              \A h \in m.hwIds, id \in Known :
                  Live(id) /\ WillKeep(adapterQ, Len(adapterQ), fences, h, id) => id \in m.of,
           \A h \in HwIds, id \in Known' :
              /\ Live(id)' /\ (engine.up \/ Held(h))'
              /\ Brings(m, h, id) \/ (~Speaks(m, h) /\ WillKeep(adapterQ, Len(adapterQ), fences, h, id))
              => id = engine'.fences[h].id
    PROVE  BreachesOwn' /\ Mirror'
<1>1. adapterQ \in Seq(AdapterMessages)
  BY DEF Types
<1>2. /\ Len(adapterQ') = Len(adapterQ) + 1 /\ Len(adapterQ) \in Nat
      /\ \A k \in 1..Len(adapterQ) : adapterQ'[k] = adapterQ[k]
      /\ adapterQ'[Len(adapterQ) + 1] = m
  BY <1>1, Appended
<1>3. \A h, id : /\ \A k \in 0..Len(adapterQ) :
                       WillKeep(adapterQ', k, fences', h, id) => WillKeep(adapterQ, k, fences, h, id)
                 /\ WillKeep(adapterQ', Len(adapterQ) + 1, fences', h, id) =>
                       Brings(m, h, id) \/ (~Speaks(m, h) /\ WillKeep(adapterQ, Len(adapterQ), fences, h, id))
  <2> TAKE h, id
  <2>1. /\ \A k \in 0..Len(adapterQ) :
              /\ Last(Append(adapterQ, m), k, h, id) <=> Last(adapterQ, k, h, id)
              /\ Silent(Append(adapterQ, m), k, h) <=> Silent(adapterQ, k, h)
        /\ Last(Append(adapterQ, m), Len(adapterQ) + 1, h, id) =>
              Brings(m, h, id) \/ (~Speaks(m, h) /\ Last(adapterQ, Len(adapterQ), h, id))
        /\ Silent(Append(adapterQ, m), Len(adapterQ) + 1, h) => ~Speaks(m, h) /\ Silent(adapterQ, Len(adapterQ), h)
    BY <1>1, AddedLast
  <2> QED BY <2>1 DEF WillKeep
<1>4. BreachesOwn'
  <2> SUFFICES ASSUME NEW k \in 1..Len(adapterQ'), adapterQ'[k].type = "breach",
                      NEW h \in adapterQ'[k].hwIds, NEW id \in Known', Live(id)',
                      WillKeep(adapterQ', k - 1, fences', h, id)
               PROVE  id \in adapterQ'[k].of
    BY DEF BreachesOwn
  <2>1. k - 1 \in 0..Len(adapterQ) /\ WillKeep(adapterQ, k - 1, fences, h, id)
    BY <1>2, <1>3
  <2>2. CASE k \in 1..Len(adapterQ)
    <3>1. adapterQ'[k] = adapterQ[k] /\ adapterQ[k] \in AdapterMessages
      BY <1>1, <1>2, <2>2
    <3>2. h \in HwIds
      BY <3>1, AdapterFields
    <3>3. id \in Known /\ Live(id)
      BY <2>1, <3>2
    <3> QED BY <2>1, <2>2, <3>1, <3>3 DEF BreachesOwn
  <2>3. CASE k = Len(adapterQ) + 1
    <3>1. adapterQ'[k] = m /\ k - 1 = Len(adapterQ)
      BY <1>2, <2>3
    <3>2. h \in HwIds
      BY <3>1, AdapterFields
    <3>3. id \in Known /\ Live(id)
      BY <2>1, <3>2
    <3> QED BY <2>1, <3>1, <3>3
  <2> QED BY <1>2, <2>2, <2>3
<1>5. Mirror'
  <2> SUFFICES ASSUME NEW h \in HwIds, NEW id \in Known', Live(id)', (engine.up \/ Held(h))',
                      WillKeep(adapterQ', Len(adapterQ'), fences', h, id)
               PROVE  id = engine'.fences[h].id
    BY DEF Mirror
  <2>1. WillKeep(adapterQ', Len(adapterQ) + 1, fences', h, id)
    BY <1>2
  <2> QED BY <1>3, <2>1
<1> QED BY <1>4, <1>5

Own == BreachesOwn /\ Mirror

\* What the adapter will keep was handed out.
LEMMA WillKeepKnown ==
    ASSUME Types, KnownIds, NEW k \in 0..Len(adapterQ), NEW h \in HwIds, NEW id \in Nat \ {0},
           WillKeep(adapterQ, k, fences, h, id)
    PROVE  id \in Known
<1>1. CASE Last(adapterQ, k, h, id)
  <2>1. PICK j \in 1..k : Brings(adapterQ[j], h, id)
    BY <1>1 DEF Last
  <2>2. adapterQ[j] \in Elements(adapterQ)
    <3>1. Len(adapterQ) \in Nat
      BY DEF Types
    <3>2. j \in 1..Len(adapterQ)
      BY <3>1
    <3> QED BY <3>2 DEF Elements
  <2> QED BY <2>1, <2>2 DEF KnownIds, Brings, IsOk
<1>2. CASE fences[h].id = id
  BY <1>2 DEF KnownIds, NoFence
<1> QED BY <1>1, <1>2 DEF WillKeep

LEMMA KnownNumbers == Types => Known \subseteq Ids /\ Known \subseteq Nat \ {0}
<1> SUFFICES ASSUME Types PROVE Known \subseteq Ids /\ Known \subseteq Nat \ {0}
  OBVIOUS
<1>1. Len(owner) \in Nat /\ Len(owner) <= MaxFences /\ MaxFences \in Nat
  BY Numbers DEF Types
<1> QED BY <1>1 DEF Known, Ids

\* A message that says nothing of what is kept is added.
LEMMA OwnQuiet ==
    ASSUME Types, Own, NEW m \in AdapterMessages, adapterQ' = Append(adapterQ, m),
           UNCHANGED <<fences, owner, clients, engine>>,
           \A h, id : ~Brings(m, h, id),
           m.type = "breach" => m.of = {engine.fences[h].id : h \in m.hwIds} /\ \A h \in m.hwIds : Held(h)
    PROVE  Own'
<1>1. Known' = Known /\ \A id : Live(id)' <=> Live(id)
  BY DEF Known, Live
<1>2. \A h : Held(h)' <=> Held(h)
  BY DEF Held
<1>3. m.type = "breach" =>
        \A h \in m.hwIds, id \in Known :
            Live(id) /\ WillKeep(adapterQ, Len(adapterQ), fences, h, id) => id \in m.of
  <2> SUFFICES ASSUME m.type = "breach", NEW h \in m.hwIds, NEW id \in Known, Live(id),
                      WillKeep(adapterQ, Len(adapterQ), fences, h, id)
               PROVE  id \in m.of
    OBVIOUS
  <2>1. h \in HwIds
    BY AdapterFields
  <2>2. id = engine.fences[h].id
    BY <2>1 DEF Own, Mirror
  <2> QED BY <2>2
<1>4. \A h \in HwIds, id \in Known' :
        /\ Live(id)' /\ (engine.up \/ Held(h))'
        /\ Brings(m, h, id) \/ (~Speaks(m, h) /\ WillKeep(adapterQ, Len(adapterQ), fences, h, id))
        => id = engine'.fences[h].id
  BY <1>1, <1>2 DEF Own, Mirror
<1>5. \A h \in HwIds, id \in Known', k \in 0..Len(adapterQ) :
        Live(id)' /\ WillKeep(adapterQ, k, fences, h, id) => id \in Known /\ Live(id)
  BY <1>1
<1> QED BY <1>3, <1>4, <1>5, OwnAdded DEF Own

LEMMA CommandOwn ==
    ASSUME Types, KnownIds, Own, NEW batch, CommandEffect(batch), owner' \in Seq(Clients),
           \A id \in Known : owner'[id] = owner[id]
    PROVE  Own'
<1> DEFINE m == [type |-> "command", batch |-> Len(batches) + 1]
<1>1. m \in AdapterMessages /\ adapterQ' = Append(adapterQ, m) /\ UNCHANGED <<fences, clients, engine>>
  BY DEF CommandEffect
<1>2. m.type = "command"
  OBVIOUS
<1> HIDE DEF m
<1>3. \A h, id : ~Brings(m, h, id)
  BY <1>2 DEF Brings, IsOk
<1>4. \A h \in HwIds, id \in Known', k \in 0..Len(adapterQ) :
        Live(id)' /\ WillKeep(adapterQ, k, fences, h, id) => id \in Known /\ Live(id)
  <2> SUFFICES ASSUME NEW h \in HwIds, NEW id \in Known', NEW k \in 0..Len(adapterQ), Live(id)',
                      WillKeep(adapterQ, k, fences, h, id)
               PROVE  id \in Known /\ Live(id)
    OBVIOUS
  <2>1. id \in Nat \ {0}
    BY DEF Known
  <2>2. id \in Known
    BY <2>1, WillKeepKnown
  <2> QED BY <1>1, <2>2 DEF Live
<1>5. \A h \in HwIds, id \in Known' :
        /\ Live(id)' /\ (engine.up \/ Held(h))'
        /\ Brings(m, h, id) \/ (~Speaks(m, h) /\ WillKeep(adapterQ, Len(adapterQ), fences, h, id))
        => id = engine'.fences[h].id
  <2> SUFFICES ASSUME NEW h \in HwIds, NEW id \in Known', Live(id)', (engine.up \/ Held(h))',
                      WillKeep(adapterQ, Len(adapterQ), fences, h, id)
               PROVE  id = engine'.fences[h].id
    BY <1>3
  <2>1. Len(adapterQ) \in 0..Len(adapterQ)
    BY DEF Types
  <2>2. id \in Known /\ Live(id) /\ (engine.up \/ Held(h))
    BY <1>1, <1>4, <2>1 DEF Held
  <2> QED BY <1>1, <2>2 DEF Own, Mirror
<1> QED BY <1>1, <1>2, <1>4, <1>5, OwnAdded DEF Own

LEMMA CallsOwn ==
    ASSUME Types, KnownIds, Own, AddGeofences \/ OtherCommand \/ RemoveClient \/ EngineCrash \/ Breach
    PROVE  Own'
<1>1. CASE AddGeofences
  <2>1. PICK n, batch : AddEffect(n, batch)
    BY <1>1, Adds
  <2> QED BY <2>1, CommandOwn DEF AddEffect, Known
<1>2. CASE OtherCommand
  <2>1. PICK batch : OtherEffect(batch)
    BY <1>2, Others
  <2>2. CommandEffect(batch) /\ owner' = owner /\ owner \in Seq(Clients)
    BY <2>1 DEF OtherEffect, Types
  <2> QED BY <2>2, CommandOwn
<1>3. CASE RemoveClient
  <2>1. PICK c \in clients :
          /\ adapterQ' = Append(adapterQ, [type |-> "removeClient", client |-> c])
          /\ UNCHANGED <<fences, owner, clients, engine>>
    BY <1>3 DEF RemoveClient, maps, engineSide
  <2>2. [type |-> "removeClient", client |-> c] \in AdapterMessages
    BY DEF Types, AdapterMessages, RemoveMessages
  <2>3. \A h, id : ~Brings([type |-> "removeClient", client |-> c], h, id)
    BY DEF Brings, IsOk
  <2> QED BY <2>1, <2>2, <2>3, OwnQuiet
<1>4. CASE EngineCrash
  <2>1. /\ UNCHANGED <<fences, owner, clients, adapterQ>>
        /\ engine' = [up |-> FALSE, fences |-> [h \in HwIds |-> NoFence]]
    BY <1>4 DEF EngineCrash, maps
  <2>2. ~engine'.up /\ \A h \in HwIds : ~Held(h)'
    BY <2>1 DEF Held
  <2>3. BreachesOwn'
    BY <2>1 DEF Own, BreachesOwn, Live, Known
  <2>4. Mirror'
    BY <2>2 DEF Mirror
  <2> QED BY <2>3, <2>4 DEF Own
<1>5. CASE Breach
  <2>1. PICK m \in AdapterMessages :
          /\ m.type = "breach" /\ adapterQ' = Append(adapterQ, m)
          /\ m.of = {engine.fences[h].id : h \in m.hwIds} /\ \A h \in m.hwIds : Held(h)
          /\ UNCHANGED <<fences, owner, clients, engine>>
    BY <1>5, BreachSent DEF maps, engineSide
  <2>2. \A h, id : ~Brings(m, h, id)
    BY <2>1 DEF Brings, IsOk
  <2> QED BY <2>1, <2>2, OwnQuiet
<1> QED BY <1>1, <1>2, <1>3, <1>4, <1>5

\* What is kept after an answer for an item is what it brings, or it says nothing of it.
LEMMA AnswerSays ==
    ASSUME Types, LiveNamed, NEW m, NEW ok, NEW h, NEW b, AnswerEffect(m, ok, h, b),
           NEW g \in HwIds, NEW id \in Known, Live(id), fences'[g].id = id
    PROVE  Brings(Head(adapterQ), g, id) \/ (~Speaks(Head(adapterQ), g) /\ fences[g].id = id)
<1> DEFINE head == Head(adapterQ)
<1>1. /\ head.type = "answer" /\ head.to = m /\ head.ok = ok /\ head.hwId = h
      /\ ok \in BOOLEAN /\ (ok => h \in HwIds)
  BY DEF AnswerEffect
<1>2. /\ \A x \in HwIds : x # h => fences'[x] = fences[x]
      /\ ~ok => UNCHANGED maps
      /\ ok /\ m.op = "add" => fences'[h] # NoFence /\ fences'[h].id = m.id /\ fences'[h].opt = m.opt
                               /\ hwIdOf'[m.id] = h
                               /\ \A x \in Ids : x # m.id => hwIdOf'[x] = hwIdOf[x]
      /\ ok /\ m.op = "remove" =>
            IF fences[h] # NoFence /\ hwIdOf[fences[h].id] # 0
            THEN /\ fences'[h] = NoFence /\ hwIdOf'[fences[h].id] = 0
                 /\ \A x \in Ids : x # fences[h].id => hwIdOf'[x] = hwIdOf[x]
            ELSE UNCHANGED maps
      /\ m.op \notin {"add", "remove"} =>
            /\ hwIdOf' = hwIdOf
            /\ \A x \in HwIds : fences'[x].id = fences[x].id /\ (fences'[x] = NoFence <=> fences[x] = NoFence)
  BY AnswerKeeps
<1> HIDE DEF head
<1>3. id # 0
  BY KnownNumbers
<1>4. CASE ~ok
  <2>1. ~Speaks(head, g) /\ fences[g].id = id
    BY <1>1, <1>2, <1>4 DEF Speaks, IsOk, maps
  <2> QED BY <2>1 DEF head
<1>5. CASE g # h
  <2>1. ~Speaks(head, g) /\ fences[g].id = id
    BY <1>1, <1>2, <1>5 DEF Speaks, IsOk
  <2> QED BY <2>1 DEF head
<1>6. CASE ok /\ g = h /\ m.op = "add"
  <2>1. id = m.id
    BY <1>2, <1>6
  <2>2. Brings(head, g, id)
    BY <1>1, <1>6, <2>1 DEF Brings, IsOk
  <2> QED BY <2>2 DEF head
<1>7. CASE ok /\ g = h /\ m.op = "remove"
  <2>1. CASE fences[h] # NoFence /\ hwIdOf[fences[h].id] # 0
    <3>1. fences'[g] = NoFence
      BY <1>2, <1>7, <2>1
    <3> QED BY <1>3, <3>1 DEF NoFence
  <2>2. CASE ~(fences[h] # NoFence /\ hwIdOf[fences[h].id] # 0)
    <3>1. fences'[g] = fences[g]
      BY <1>2, <1>7, <2>2 DEF maps
    <3>2. fences[g] # NoFence
      BY <1>3, <3>1 DEF NoFence
    <3>3. hwIdOf[fences[g].id] # 0
      BY <3>1 DEF LiveNamed
    <3> QED BY <1>7, <2>2, <3>2, <3>3
  <2> QED BY <2>1, <2>2
<1>8. CASE m.op \notin {"add", "remove"}
  <2>1. ~Speaks(head, g) /\ fences[g].id = id
    BY <1>1, <1>2, <1>8 DEF Speaks, IsOk
  <2> QED BY <2>1 DEF head
<1> QED BY <1>1, <1>4, <1>5, <1>6, <1>7, <1>8

LEMMA AdapterOwn ==
    ASSUME Types, Lives, LiveNamed, Own, AdapterThread
    PROVE  Own'
<1>0. \A h, id : Head(adapterQ).type \notin {"answer", "engineUp"} => ~Speaks(Head(adapterQ), h)
  BY DEF Speaks, IsOk
<1>1. CASE HandleCommand
  <2>1. /\ adapterQ # <<>> /\ adapterQ' = Tail(adapterQ) /\ Head(adapterQ).type = "command"
        /\ UNCHANGED <<fences, owner, clients, engine>>
    BY <1>1 DEF HandleCommand, Take, maps
  <2> QED BY <1>0, <2>1, OwnTaken DEF Own
<1>2. CASE HandleTurn
  <2>1. /\ adapterQ # <<>> /\ adapterQ' = Tail(adapterQ) /\ Head(adapterQ).type = "turn"
        /\ UNCHANGED <<fences, owner, clients, engine>>
    BY <1>2 DEF HandleTurn, Take, maps
  <2> QED BY <1>0, <2>1, OwnTaken DEF Own
<1>3. CASE HandleAnswer
  <2>1. PICK m, ok, h, b : AnswerEffect(m, ok, h, b)
    BY <1>3, AnswerHandled
  <2>2. /\ adapterQ # <<>> /\ adapterQ' = Tail(adapterQ) /\ UNCHANGED <<clients, owner, engine>>
    BY <2>1 DEF AnswerEffect
  <2>3. \A g \in HwIds, id \in Known : Live(id) /\ fences'[g].id = id =>
            Brings(Head(adapterQ), g, id) \/ (~Speaks(Head(adapterQ), g) /\ fences[g].id = id)
    BY <2>1, AnswerSays
  <2> QED BY <2>2, <2>3, OwnTaken DEF Own
<1>4. CASE HandleRemoveClient
  <2>1. /\ adapterQ # <<>> /\ adapterQ' = Tail(adapterQ) /\ Head(adapterQ).type = "removeClient"
        /\ UNCHANGED <<fences, owner, engine>> /\ clients' \subseteq clients
    BY <1>4 DEF HandleRemoveClient, Take
  <2> QED BY <1>0, <2>1, OwnTaken DEF Own
<1>5. CASE HandleGone
  <2>1. /\ adapterQ # <<>> /\ adapterQ' = Tail(adapterQ) /\ UNCHANGED <<owner, clients, engine>>
        /\ Head(adapterQ).type = "answer" /\ Head(adapterQ).to.then.for = "gone"
        /\ fences' = IF Head(adapterQ).ok THEN [fences EXCEPT ![Head(adapterQ).hwId] = NoFence] ELSE fences
    BY <1>5 DEF HandleGone, Take, TakeAnswer, engineSide
  <2>2. Head(adapterQ).ok \in BOOLEAN /\ (Head(adapterQ).ok => Head(adapterQ).hwId \in HwIds)
    BY <2>1, Taken, AdapterFields
  <2>3. \A g \in HwIds, id \in Known : fences'[g].id = id =>
            ~Speaks(Head(adapterQ), g) /\ fences[g].id = id
    <3> SUFFICES ASSUME NEW g \in HwIds, NEW id \in Known, fences'[g].id = id
                 PROVE  ~Speaks(Head(adapterQ), g) /\ fences[g].id = id
      OBVIOUS
    <3>1. fences'[g] # NoFence
      BY KnownNumbers DEF NoFence
    <3>2. ~(Head(adapterQ).ok /\ Head(adapterQ).hwId = g)
      BY <2>1, <2>2, <3>1 DEF Types
    <3>3. fences'[g] = fences[g]
      BY <2>1, <2>2, <3>2 DEF Types
    <3> QED BY <2>1, <3>2, <3>3 DEF Speaks, IsOk
  <2> QED BY <2>1, <2>3, OwnTaken DEF Own
<1>6. CASE HandleEngineUp
  <2>1. PICK old, requests : RestartEffect(old, requests)
    BY <1>6, EngineUpHandled
  <2>2. /\ adapterQ # <<>> /\ adapterQ' = Tail(adapterQ) /\ UNCHANGED <<clients, owner, engine>>
        /\ \A h \in HwIds : fences'[h] = NoFence
    BY <2>1 DEF RestartEffect
  <2>3. \A g \in HwIds, id \in Known : fences'[g].id # id
    BY <2>2, KnownNumbers DEF NoFence
  <2> QED BY <2>2, <2>3, OwnTaken DEF Own
<1>7. CASE HandleRestored
  <2>1. PICK m, ok, h : RestoredEffect(m, ok, h)
    BY <1>7, RestoredHandled
  <2>2. /\ adapterQ # <<>> /\ adapterQ' = Tail(adapterQ) /\ UNCHANGED <<clients, owner, engine>>
        /\ Head(adapterQ).type = "answer" /\ Head(adapterQ).to = m /\ Head(adapterQ).ok = ok
        /\ Head(adapterQ).hwId = h /\ ok \in BOOLEAN /\ m.op = "add"
    BY <2>1 DEF RestoredEffect
  <2>3. /\ \A g \in HwIds : g # h => fences'[g] = fences[g]
        /\ ~ok => UNCHANGED maps
        /\ ok => /\ h \in HwIds /\ fences'[h] # NoFence /\ fences'[h].id = m.id /\ fences'[h].opt = m.opt
                 /\ hwIdOf'[m.id] = h
                 /\ \A x \in Ids : x # m.id => hwIdOf'[x] = hwIdOf[x]
    BY <2>1, RestoreKeeps
  <2>4. \A g \in HwIds, id \in Known : fences'[g].id = id =>
            Brings(Head(adapterQ), g, id) \/ (~Speaks(Head(adapterQ), g) /\ fences[g].id = id)
    <3> SUFFICES ASSUME NEW g \in HwIds, NEW id \in Known, fences'[g].id = id
                 PROVE  Brings(Head(adapterQ), g, id) \/ (~Speaks(Head(adapterQ), g) /\ fences[g].id = id)
      OBVIOUS
    <3>1. CASE ok /\ g = h
      BY <2>2, <2>3, <3>1 DEF Brings, IsOk
    <3>2. CASE ~ok
      BY <2>2, <2>3, <3>2 DEF Speaks, IsOk, maps
    <3>3. CASE g # h
      BY <2>2, <2>3, <3>3 DEF Speaks, IsOk
    <3> QED BY <2>2, <3>1, <3>2, <3>3
  <2> QED BY <2>2, <2>4, OwnTaken DEF Own
<1>8. CASE HandleBreach
  <2>1. /\ adapterQ # <<>> /\ adapterQ' = Tail(adapterQ) /\ Head(adapterQ).type = "breach"
        /\ UNCHANGED <<fences, owner, clients, engine>>
    BY <1>8 DEF HandleBreach, Take, maps, engineSide
  <2> QED BY <1>0, <2>1, OwnTaken DEF Own
<1> QED BY <1>1, <1>2, <1>3, <1>4, <1>5, <1>6, <1>7, <1>8 DEF AdapterThread

LEMMA ApiThreadOwn ==
    ASSUME Types, Own, ApiThread
    PROVE  Own'
<1>1. CASE ReturnTurn
  <2>1. PICK m \in TurnMessages :
          /\ m \in AdapterMessages /\ m.type = "turn"
          /\ adapterQ' = Append(adapterQ, m)
          /\ UNCHANGED <<maps, clients, owner, batches, engine, strayed, answered, used>>
    BY <1>1, TurnReturns
  <2>2. \A h, id : ~Brings(m, h, id)
    BY <2>1 DEF Brings, IsOk
  <2> QED BY <2>1, <2>2, OwnQuiet DEF maps
<1>2. CASE Serve
  <2>1. PICK m, h : ServeEffect(m, h)
    BY <1>2, Serves
  <2>2. /\ m \in Requests /\ h \in HwIds /\ Replies(m, TRUE, h) /\ UNCHANGED <<fences, owner, clients>> /\ engine.up /\ engine'.up
        /\ \A g \in HwIds : g # h => engine'.fences[g] = engine.fences[g]
        /\ m.op = "add" => engine'.fences[h].id = m.id
        /\ m.op # "add" => engine.fences[h] # NoFence
        /\ m.op = "remove" => engine'.fences[h] = NoFence
        /\ m.op \in {"pause", "resume", "modify"} => engine'.fences[h].id = engine.fences[h].id
    BY <2>1 DEF ServeEffect, maps
  <2>3. m.op \in Commands /\ (m.then.for = "nobody" => m.op = "pause")
    BY <2>2, RequestFields
  <2>4. Known' = Known /\ \A id : Live(id)' <=> Live(id)
    BY <2>2 DEF Known, Live
  <2>5. ASSUME m.op \notin {"add", "remove"}
        PROVE  \A g \in HwIds : engine'.fences[g].id = engine.fences[g].id
    <3>1. m.op \in {"pause", "resume", "modify"} /\ m.op # "add"
      BY <2>3, <2>5 DEF Commands
    <3> QED BY <2>2, <3>1 DEF Held
  <2>6. CASE m.then.for = "nobody" /\ adapterQ' = adapterQ
    <3>1. \A g \in HwIds : engine'.fences[g].id = engine.fences[g].id
      BY <2>3, <2>5, <2>6
    <3>2. BreachesOwn'
      BY <2>2, <2>4, <2>6 DEF Own, BreachesOwn
    <3>3. Mirror'
      BY <2>2, <2>4, <2>6, <3>1 DEF Own, Mirror
    <3> QED BY <3>2, <3>3 DEF Own
  <2>7. CASE \E a \in Answers :
                /\ a \in AdapterMessages /\ adapterQ' = Append(adapterQ, a)
                /\ a.type = "answer" /\ a.ok = TRUE /\ a.hwId = h /\ a.to = m
    <3>1. PICK a \in Answers :
             /\ a \in AdapterMessages /\ adapterQ' = Append(adapterQ, a)
             /\ a.type = "answer" /\ a.ok = TRUE /\ a.hwId = h /\ a.to = m
      BY <2>7
    <3>2. \A g \in HwIds, id \in Known' :
            /\ Live(id)' /\ (engine.up \/ Held(g))'
            /\ Brings(a, g, id) \/ (~Speaks(a, g) /\ WillKeep(adapterQ, Len(adapterQ), fences, g, id))
            => id = engine'.fences[g].id
      <4> SUFFICES ASSUME NEW g \in HwIds, NEW id \in Known', Live(id)', (engine.up \/ Held(g))',
                          Brings(a, g, id) \/ (~Speaks(a, g) /\ WillKeep(adapterQ, Len(adapterQ), fences, g, id))
                   PROVE  id = engine'.fences[g].id
        OBVIOUS
      <4>1. CASE Brings(a, g, id)
        BY <2>2, <3>1, <4>1 DEF Brings, IsOk
      <4>2. CASE ~Speaks(a, g) /\ WillKeep(adapterQ, Len(adapterQ), fences, g, id)
        <5>1. CASE g # h
          <6>1. engine'.fences[g] = engine.fences[g] /\ engine.up
            BY <2>2, <5>1
          <6> QED BY <2>4, <4>2, <6>1 DEF Own, Mirror
        <5>2. CASE g = h
          <6>1. m.op \notin {"add", "remove"}
            BY <3>1, <4>2, <5>2 DEF Speaks, IsOk
          <6>2. engine'.fences[g].id = engine.fences[g].id /\ engine.up
            BY <2>2, <2>5, <6>1
          <6> QED BY <2>4, <4>2, <6>2 DEF Own, Mirror
        <5> QED BY <5>1, <5>2
      <4> QED BY <4>1, <4>2
    <3>3. \A g \in HwIds, id \in Known', k \in 0..Len(adapterQ) :
            Live(id)' /\ WillKeep(adapterQ, k, fences, g, id) => id \in Known /\ Live(id)
      BY <2>4
    <3> QED BY <2>2, <3>1, <3>2, <3>3, OwnAdded DEF Own
  <2> QED BY <2>2, <2>6, <2>7 DEF Replies
<1>3. CASE Fail
  <2>1. PICK m : FailEffect(m)
    BY <1>3, Fails
  <2>2. Replies(m, FALSE, m.hwId) /\ UNCHANGED <<fences, owner, clients, engine>>
    BY <2>1 DEF FailEffect, maps
  <2>3. CASE adapterQ' = adapterQ
    BY <2>2, <2>3 DEF Own, BreachesOwn, Mirror, Live, Known, Held
  <2>4. CASE \E a \in AdapterMessages : adapterQ' = Append(adapterQ, a) /\ a.type = "answer" /\ a.ok = FALSE
    <3>1. PICK a \in AdapterMessages : adapterQ' = Append(adapterQ, a) /\ a.type = "answer" /\ a.ok = FALSE
      BY <2>4
    <3>2. \A h, id : ~Brings(a, h, id)
      BY <3>1 DEF Brings, IsOk
    <3> QED BY <2>2, <3>1, <3>2, OwnQuiet
  <2> QED BY <2>2, <2>3, <2>4 DEF Replies
<1>4. CASE Reopen
  <2>1. [type |-> "engineUp"] \in AdapterMessages
    BY DEF AdapterMessages, UpMessages
  <2>2. adapterQ' = Append(adapterQ, [type |-> "engineUp"]) /\ UNCHANGED <<fences, owner, clients>>
        /\ engine' = [engine EXCEPT !.up = TRUE]
    BY <1>4 DEF Reopen, maps
  <2>3. engine'.fences = engine.fences
    BY <2>2 DEF Types
  <2>4. \A h, id : ~Brings([type |-> "engineUp"], h, id) /\ Speaks([type |-> "engineUp"], h)
    BY DEF Brings, IsOk, Speaks
  <2>5. Known' = Known /\ \A id : Live(id)' <=> Live(id)
    BY <2>2 DEF Known, Live
  <2>6. \A h \in HwIds, id \in Known', k \in 0..Len(adapterQ) :
          Live(id)' /\ WillKeep(adapterQ, k, fences, h, id) => id \in Known /\ Live(id)
    BY <2>5
  <2> QED BY <2>1, <2>2, <2>4, <2>6, OwnAdded DEF Own
<1> QED BY <1>1, <1>2, <1>3, <1>4 DEF ApiThread

LEMMA NextOwn == Types /\ Lives /\ KnownIds /\ LiveNamed /\ Own /\ [Next]_vars => Own'
<1> SUFFICES ASSUME Types, Lives, KnownIds, LiveNamed, Own, [Next]_vars PROVE Own'
  OBVIOUS
<1>1. CASE UNCHANGED vars
  BY <1>1 DEF vars, maps, engineSide, Own, BreachesOwn, Mirror, Live, Known, Held
<1> QED BY <1>1, CallsOwn, AdapterOwn, ApiThreadOwn DEF Next

LEMMA InitOwn == Init => Own
<1> SUFFICES ASSUME Init PROVE Own
  OBVIOUS
<1>1. /\ adapterQ = <<>> /\ Len(adapterQ) = 0
      /\ fences = [h \in HwIds |-> NoFence] /\ engine.fences = [h \in HwIds |-> NoFence]
  BY DEF Init
<1>2. \A h \in HwIds : fences[h].id = engine.fences[h].id
  BY <1>1
<1>3. \A h, id : ~Last(adapterQ, Len(adapterQ), h, id)
  BY <1>1 DEF Last
<1>4. Mirror
  BY <1>2, <1>3 DEF Mirror, WillKeep
<1> QED BY <1>1, <1>4 DEF Own, BreachesOwn

\* The steps' common invariant: types, the lives of commands, the ids that are about, fences
\* in one place, names for the living, and what breaches mean.
Sound == Types /\ Lives /\ KnownIds /\ Unique /\ LiveNamed /\ Own

LEMMA InitSound == Init => Sound
BY InitTypes, InitLives, InitKnown, InitUnique, InitLiveNamed, InitOwn DEF Sound

LEMMA NextSound == Sound /\ [Next]_vars => Sound'
BY NextTypes, NextLives, NextKnown, NextUnique, NextLiveNamed, NextOwn DEF Sound

\* When a breach is handled, a client that is told was meant: of the hardware ids that the
\* engine named, the adapter keeps what the engine had there when it spoke.
THEOREM GeofenceBreachIsOwn == Spec => BreachIsOwn
<1>1. ASSUME Sound, HandleBreach
      PROVE  Notified(Head(adapterQ).hwIds) \subseteq Head(adapterQ).of
  <2>1. /\ adapterQ # <<>> /\ Head(adapterQ).type = "breach" /\ Types /\ KnownIds /\ Own
    BY <1>1 DEF HandleBreach, Take, Sound
  <2>2. Head(adapterQ) = adapterQ[1] /\ 1 \in 1..Len(adapterQ) /\ Head(adapterQ) \in AdapterMessages
    BY <2>1, Taken
  <2> SUFFICES ASSUME NEW h \in Head(adapterQ).hwIds, fences[h] # NoFence, owner[fences[h].id] \in clients
               PROVE  fences[h].id \in Head(adapterQ).of
    BY DEF Notified
  <2>3. h \in HwIds
    BY <2>1, <2>2, AdapterFields
  <2>4. fences[h].id \in Known /\ Live(fences[h].id)
    BY <2>1, <2>3 DEF KnownIds, Live
  <2>5. WillKeep(adapterQ, 1 - 1, fences, h, fences[h].id)
    BY DEF WillKeep, Silent
  <2> QED BY <2>1, <2>2, <2>4, <2>5 DEF Own, BreachesOwn
<1>2. Sound /\ [Next]_vars => [HandleBreach => Notified(Head(adapterQ).hwIds) \subseteq Head(adapterQ).of]_vars
  BY <1>1
<1> QED BY <1>2, InitSound, NextSound, PTL DEF Spec, BreachIsOwn

-----------------------------------------------------------------------------
(* The two maps agree, unless a request strayed: the hardware id under which *)
(* the adapter will name a fence is not given to another one meanwhile.      *)

WillName(aq, k, names, id, h) == Last(aq, k, h, id) \/ (Silent(aq, k, h) /\ names[id] = h)

\* What the adapter will name, the engine has, unless it is down.
EngineHasNamed ==
    \A id \in Ids, h \in HwIds :
        WillName(adapterQ, Len(adapterQ), hwIdOf, id, h) => engine.fences[h].id = id \/ ~engine.up

\* A number that the engine gives to a new fence, or takes back from a client that left, is no
\* fence's name any more when the adapter hears of it.
Frees(m, h) == IsOk(m, h) /\ (m.to.op = "add" \/ m.to.then.for = "gone")
NumbersAreFree ==
    \A k \in 1..Len(adapterQ), h \in HwIds :
        Frees(adapterQ[k], h) => \A id \in Ids : ~WillName(adapterQ, k - 1, hwIdOf, id, h)

\* A fence whose client left has no name, and nothing before the request to remove it makes
\* it again.
IsGone(m) == m.op = "remove" /\ m.then.for = "gone"
GoneFits(bs, aq, pq, names) ==
    \A k \in 1..Len(pq) :
        IsGone(pq[k]) =>
            /\ names[pq[k].id] = 0 /\ ~IsBack(bs, aq, pq[k].id)
            /\ \A l \in 1..k : ~BearsOut(bs, pq[l], pq[k].id)

NamesFit ==
    /\ NamedAreKept /\ EngineHasNamed /\ NumbersAreFree
    /\ GoneFits(batches, adapterQ, apiQ, hwIdOf)

\* The back queue, the commands and the names change.
LEMMA GoneSame ==
    ASSUME NEW bs, NEW bs2, NEW aq, NEW aq2, NEW pq, NEW names, NEW names2,
           GoneFits(bs, aq, pq, names),
           \A m \in Elements(pq) : IsGone(m) =>
              /\ names2[m.id] # 0 => names[m.id] # 0 \/ IsBack(bs, aq, m.id)
              /\ IsBack(bs2, aq2, m.id) => IsBack(bs, aq, m.id)
              /\ \A n \in Elements(pq) : BearsOut(bs2, n, m.id) => BearsOut(bs, n, m.id)
    PROVE  GoneFits(bs2, aq2, pq, names2)
<1> SUFFICES ASSUME NEW k \in 1..Len(pq), IsGone(pq[k])
             PROVE  /\ names2[pq[k].id] = 0 /\ ~IsBack(bs2, aq2, pq[k].id)
                    /\ \A l \in 1..k : ~BearsOut(bs2, pq[l], pq[k].id)
  BY DEF GoneFits
<1>1. /\ names[pq[k].id] = 0 /\ ~IsBack(bs, aq, pq[k].id)
      /\ \A l \in 1..k : ~BearsOut(bs, pq[l], pq[k].id)
  BY DEF GoneFits
<1>2. pq[k] \in Elements(pq) /\ \A l \in 1..k : l \in 1..Len(pq)
  BY DEF Elements
<1>3. \A l \in 1..k : pq[l] \in Elements(pq)
  BY <1>2 DEF Elements
<1> QED BY <1>1, <1>2, <1>3

\* Requests are added.
LEMMA GoneJoined ==
    ASSUME NEW S, NEW bs, NEW aq, NEW pq \in Seq(S), NEW names, NEW s \in Seq(S),
           GoneFits(bs, aq, pq, names),
           \A k \in 1..Len(s) : IsGone(s[k]) =>
              names[s[k].id] = 0 /\ ~IsBack(bs, aq, s[k].id) /\ ~IsOut(bs, pq \o s, s[k].id)
    PROVE  GoneFits(bs, aq, pq \o s, names)
<1> DEFINE q == pq \o s
<1>1. /\ Len(q) = Len(pq) + Len(s) /\ Len(pq) \in Nat /\ Len(s) \in Nat
      /\ \A k \in 1..Len(pq) : q[k] = pq[k]
      /\ \A k \in 1..Len(q) : k \notin 1..Len(pq) => k - Len(pq) \in 1..Len(s) /\ q[k] = s[k - Len(pq)]
  BY Joined
<1>q. q = pq \o s
  OBVIOUS
<1> HIDE DEF q
<1>2. \A k \in 1..Len(s) : IsGone(s[k]) =>
         names[s[k].id] = 0 /\ ~IsBack(bs, aq, s[k].id) /\ ~IsOut(bs, q, s[k].id)
  BY <1>q
<1> SUFFICES ASSUME NEW k \in 1..Len(q), IsGone(q[k])
             PROVE  /\ names[q[k].id] = 0 /\ ~IsBack(bs, aq, q[k].id)
                    /\ \A l \in 1..k : ~BearsOut(bs, q[l], q[k].id)
  BY <1>q DEF GoneFits
<1>3. CASE k \in 1..Len(pq)
  <2>1. q[k] = pq[k] /\ \A l \in 1..k : q[l] = pq[l]
    BY <1>1, <1>3
  <2> QED BY <1>3, <2>1 DEF GoneFits
<1>4. CASE k \notin 1..Len(pq)
  <2>1. names[q[k].id] = 0 /\ ~IsBack(bs, aq, q[k].id) /\ ~IsOut(bs, q, q[k].id)
    BY <1>1, <1>2, <1>4
  <2>2. \A l \in 1..k : q[l] \in Elements(q)
    BY <1>1 DEF Elements
  <2> QED BY <2>1, <2>2 DEF IsOut
<1> QED BY <1>3, <1>4

LEMMA GoneAppended ==
    ASSUME NEW S, NEW bs, NEW aq, NEW pq \in Seq(S), NEW names, NEW m \in S,
           GoneFits(bs, aq, pq, names), ~IsGone(m)
    PROVE  GoneFits(bs, aq, Append(pq, m), names)
<1>1. <<m>> \in Seq(S) /\ Append(pq, m) = pq \o <<m>> /\ Len(<<m>>) = 1 /\ <<m>>[1] = m
  OBVIOUS
<1>2. \A k \in 1..Len(<<m>>) : ~IsGone(<<m>>[k])
  BY <1>1
<1>3. GoneFits(bs, aq, pq \o <<m>>, names)
  BY <1>1, <1>2, GoneJoined
<1> QED BY <1>1, <1>3

\* The API thread takes a request.
LEMMA GoneOutTaken ==
    ASSUME NEW S, NEW bs, NEW aq, NEW aq2, NEW pq \in Seq(S), NEW names, pq # <<>>,
           GoneFits(bs, aq, pq, names),
           \A id : IsBack(bs, aq2, id) => IsBack(bs, aq, id) \/ BearsOut(bs, Head(pq), id)
    PROVE  GoneFits(bs, aq2, Tail(pq), names)
<1>1. /\ Head(pq) = pq[1] /\ Len(pq) \in Nat \ {0} /\ Len(Tail(pq)) = Len(pq) - 1
      /\ \A k \in 1..Len(Tail(pq)) : k + 1 \in 1..Len(pq) /\ Tail(pq)[k] = pq[k + 1]
  BY Shortened
<1> SUFFICES ASSUME NEW k \in 1..Len(Tail(pq)), IsGone(Tail(pq)[k])
             PROVE  /\ names[Tail(pq)[k].id] = 0 /\ ~IsBack(bs, aq2, Tail(pq)[k].id)
                    /\ \A l \in 1..k : ~BearsOut(bs, Tail(pq)[l], Tail(pq)[k].id)
  BY DEF GoneFits
<1>2. k + 1 \in 1..Len(pq) /\ Tail(pq)[k] = pq[k + 1] /\ 1 \in 1..(k + 1)
      /\ \A l \in 1..k : l + 1 \in 1..(k + 1) /\ Tail(pq)[l] = pq[l + 1]
  BY <1>1
<1>3. /\ names[pq[k + 1].id] = 0 /\ ~IsBack(bs, aq, pq[k + 1].id)
      /\ \A l \in 1..(k + 1) : ~BearsOut(bs, pq[l], pq[k + 1].id)
  BY <1>2 DEF GoneFits
<1>4. ~BearsOut(bs, Head(pq), pq[k + 1].id)
  BY <1>1, <1>2, <1>3
<1> QED BY <1>2, <1>3, <1>4

\* Commands are the same, or end: they bear no more than before.
LEMMA BearLess ==
    ASSUME Lives, NEW bs2,
           \A b \in 1..Len(batches) : Same(bs2[b], batches[b]) \/ bs2[b].op = "deleted"
    PROVE  /\ \A id : \A m \in Elements(adapterQ) : BearsBack(bs2, m, id) => BearsBack(batches, m, id)
           /\ \A id : \A m \in Elements(apiQ) : BearsOut(bs2, m, id) => BearsOut(batches, m, id)
BY RefersToCommands DEF BearsBack, BearsOut, Same

\* A message is taken: it brings what is named now, or says nothing of it.
LEMMA NamesTaken ==
    ASSUME Types, EngineHasNamed, NumbersAreFree, UNCHANGED engine,
           adapterQ # <<>>, adapterQ' = Tail(adapterQ),
           \A h \in HwIds, id \in Ids : hwIdOf'[id] = h =>
               Brings(Head(adapterQ), h, id) \/ (~Speaks(Head(adapterQ), h) /\ hwIdOf[id] = h)
    PROVE  EngineHasNamed' /\ NumbersAreFree'
<1>1. adapterQ \in Seq(AdapterMessages)
  BY DEF Types
<1>2. /\ Len(adapterQ) \in Nat \ {0} /\ Len(Tail(adapterQ)) = Len(adapterQ) - 1
      /\ \A j \in 1..Len(Tail(adapterQ)) : j + 1 \in 1..Len(adapterQ) /\ Tail(adapterQ)[j] = adapterQ[j + 1]
  BY <1>1, Shortened
<1>3. \A k \in 0..Len(Tail(adapterQ)), h \in HwIds, id \in Ids :
        WillName(Tail(adapterQ), k, hwIdOf', id, h) => WillName(adapterQ, k + 1, hwIdOf, id, h)
  <2> SUFFICES ASSUME NEW k \in 0..Len(Tail(adapterQ)), NEW h \in HwIds, NEW id \in Ids,
                      WillName(Tail(adapterQ), k, hwIdOf', id, h)
               PROVE  WillName(adapterQ, k + 1, hwIdOf, id, h)
    OBVIOUS
  <2>1. /\ Last(Tail(adapterQ), k, h, id) => Last(adapterQ, k + 1, h, id)
        /\ Silent(Tail(adapterQ), k, h) /\ Brings(Head(adapterQ), h, id) => Last(adapterQ, k + 1, h, id)
        /\ Silent(Tail(adapterQ), k, h) /\ ~Speaks(Head(adapterQ), h) => Silent(adapterQ, k + 1, h)
    BY <1>1, TakenLast
  <2> QED BY <2>1 DEF WillName
<1>4. NumbersAreFree'
  <2> SUFFICES ASSUME NEW k \in 1..Len(adapterQ'), NEW h \in HwIds, Frees(adapterQ'[k], h), NEW id \in Ids,
                      WillName(adapterQ', k - 1, hwIdOf', id, h)
               PROVE  FALSE
    BY DEF NumbersAreFree
  <2>1. k + 1 \in 1..Len(adapterQ) /\ adapterQ'[k] = adapterQ[k + 1] /\ k - 1 \in 0..Len(Tail(adapterQ))
        /\ (k - 1) + 1 = k /\ (k + 1) - 1 = k
    BY <1>2
  <2>2. WillName(adapterQ, (k - 1) + 1, hwIdOf, id, h)
    BY <1>3, <2>1
  <2>3. WillName(adapterQ, (k + 1) - 1, hwIdOf, id, h)
    BY <2>1, <2>2
  <2> QED BY <2>1, <2>3 DEF NumbersAreFree
<1>5. EngineHasNamed'
  <2> SUFFICES ASSUME NEW h \in HwIds, NEW id \in Ids, WillName(adapterQ', Len(adapterQ'), hwIdOf', id, h)
               PROVE  engine'.fences[h].id = id \/ ~engine'.up
    BY DEF EngineHasNamed
  <2>1. Len(adapterQ') \in 0..Len(Tail(adapterQ)) /\ Len(adapterQ') + 1 = Len(adapterQ)
    BY <1>2
  <2>2. WillName(adapterQ, Len(adapterQ') + 1, hwIdOf, id, h)
    BY <1>3, <2>1
  <2>3. WillName(adapterQ, Len(adapterQ), hwIdOf, id, h)
    BY <2>1, <2>2
  <2> QED BY <2>3 DEF EngineHasNamed
<1> QED BY <1>4, <1>5

\* A message is added: what the engine has when it says something.
LEMMA NamesAdded ==
    ASSUME Types, NumbersAreFree, UNCHANGED hwIdOf, NEW m \in AdapterMessages, adapterQ' = Append(adapterQ, m),
           \A h \in HwIds, id \in Ids :
              Frees(m, h) => ~WillName(adapterQ, Len(adapterQ), hwIdOf, id, h),
           \A h \in HwIds, id \in Ids :
              Brings(m, h, id) \/ (~Speaks(m, h) /\ WillName(adapterQ, Len(adapterQ), hwIdOf, id, h))
              => engine'.fences[h].id = id \/ ~engine'.up
    PROVE  EngineHasNamed' /\ NumbersAreFree'
<1>1. adapterQ \in Seq(AdapterMessages)
  BY DEF Types
<1>2. /\ Len(adapterQ') = Len(adapterQ) + 1 /\ Len(adapterQ) \in Nat
      /\ \A k \in 1..Len(adapterQ) : adapterQ'[k] = adapterQ[k]
      /\ adapterQ'[Len(adapterQ) + 1] = m
  BY <1>1, Appended
<1>3. \A h, id : /\ \A k \in 0..Len(adapterQ) :
                       WillName(adapterQ', k, hwIdOf', id, h) => WillName(adapterQ, k, hwIdOf, id, h)
                 /\ WillName(adapterQ', Len(adapterQ) + 1, hwIdOf', id, h) =>
                       Brings(m, h, id) \/ (~Speaks(m, h) /\ WillName(adapterQ, Len(adapterQ), hwIdOf, id, h))
  <2> TAKE h, id
  <2>1. /\ \A k \in 0..Len(adapterQ) :
              /\ Last(Append(adapterQ, m), k, h, id) <=> Last(adapterQ, k, h, id)
              /\ Silent(Append(adapterQ, m), k, h) <=> Silent(adapterQ, k, h)
        /\ Last(Append(adapterQ, m), Len(adapterQ) + 1, h, id) =>
              Brings(m, h, id) \/ (~Speaks(m, h) /\ Last(adapterQ, Len(adapterQ), h, id))
        /\ Silent(Append(adapterQ, m), Len(adapterQ) + 1, h) => ~Speaks(m, h) /\ Silent(adapterQ, Len(adapterQ), h)
    BY <1>1, AddedLast
  <2> QED BY <2>1 DEF WillName
<1>4. NumbersAreFree'
  <2> SUFFICES ASSUME NEW k \in 1..Len(adapterQ'), NEW h \in HwIds, Frees(adapterQ'[k], h), NEW id \in Ids,
                      WillName(adapterQ', k - 1, hwIdOf', id, h)
               PROVE  FALSE
    BY DEF NumbersAreFree
  <2>1. k - 1 \in 0..Len(adapterQ) /\ WillName(adapterQ, k - 1, hwIdOf, id, h)
    BY <1>2, <1>3
  <2>2. CASE k \in 1..Len(adapterQ)
    BY <1>2, <2>1, <2>2 DEF NumbersAreFree
  <2>3. CASE k = Len(adapterQ) + 1
    <3>1. adapterQ'[k] = m /\ k - 1 = Len(adapterQ)
      BY <1>2, <2>3
    <3> QED BY <2>1, <3>1
  <2> QED BY <1>2, <2>2, <2>3
<1>5. EngineHasNamed'
  <2> SUFFICES ASSUME NEW h \in HwIds, NEW id \in Ids, WillName(adapterQ', Len(adapterQ'), hwIdOf', id, h)
               PROVE  engine'.fences[h].id = id \/ ~engine'.up
    BY DEF EngineHasNamed
  <2>1. WillName(adapterQ', Len(adapterQ) + 1, hwIdOf', id, h)
    BY <1>2
  <2> QED BY <1>3, <2>1
<1> QED BY <1>4, <1>5

\* A message that is taken: what it brings is kept, and where it says nothing all is as before.
LEMMA TakenFits ==
    ASSUME Types, NamedAreKept, EngineHasNamed, NumbersAreFree, UNCHANGED engine,
           adapterQ # <<>>, adapterQ' = Tail(adapterQ), hwIdOf' \in [Ids -> {0} \cup HwIds],
           \A h \in HwIds, id \in Ids : hwIdOf'[id] = h =>
               Brings(Head(adapterQ), h, id) \/ (~Speaks(Head(adapterQ), h) /\ hwIdOf[id] = h),
           \A h \in HwIds, id \in Ids : Brings(Head(adapterQ), h, id) => fences'[h].id = id,
           \A h \in HwIds : ~Speaks(Head(adapterQ), h) => fences'[h].id = fences[h].id
    PROVE  NamedAreKept' /\ EngineHasNamed' /\ NumbersAreFree'
<1>1. EngineHasNamed' /\ NumbersAreFree'
  BY NamesTaken
<1>2. NamedAreKept'
  <2> SUFFICES ASSUME NEW id \in Ids, hwIdOf'[id] # 0 PROVE fences'[hwIdOf'[id]].id = id
    BY DEF NamedAreKept
  <2>1. PICK h \in HwIds : hwIdOf'[id] = h
    OBVIOUS
  <2>2. CASE Brings(Head(adapterQ), h, id)
    BY <2>1, <2>2
  <2>3. CASE ~Speaks(Head(adapterQ), h) /\ hwIdOf[id] = h
    <3>1. fences[h].id = id
      BY <2>3, Numbers DEF NamedAreKept
    <3> QED BY <2>1, <2>3, <3>1
  <2> QED BY <2>1, <2>2, <2>3
<1> QED BY <1>1, <1>2

\* ... one that says nothing, while the maps stay.
LEMMA QuietTaken ==
    ASSUME Types, NamedAreKept, EngineHasNamed, NumbersAreFree, UNCHANGED <<fences, hwIdOf, engine>>,
           adapterQ # <<>>, adapterQ' = Tail(adapterQ), Head(adapterQ).type \notin {"answer", "engineUp"}
    PROVE  NamedAreKept' /\ EngineHasNamed' /\ NumbersAreFree'
<1>1. \A h : ~Speaks(Head(adapterQ), h)
  BY DEF Speaks, IsOk
<1>2. \A h, id : ~Brings(Head(adapterQ), h, id)
  BY DEF Brings, IsOk
<1>3. hwIdOf' \in [Ids -> {0} \cup HwIds]
  BY DEF Types
<1> QED BY <1>1, <1>2, <1>3, TakenFits

\* A message that says nothing is added.
LEMMA QuietAdded ==
    ASSUME Types, NamedAreKept, EngineHasNamed, NumbersAreFree, UNCHANGED <<fences, hwIdOf, engine>>,
           NEW m \in AdapterMessages, adapterQ' = Append(adapterQ, m),
           m.type # "engineUp", m.type = "answer" => ~m.ok
    PROVE  NamedAreKept' /\ EngineHasNamed' /\ NumbersAreFree'
<1>1. \A h : ~Speaks(m, h) /\ ~Frees(m, h)
  BY DEF Speaks, Frees, IsOk
<1>2. \A h, id : ~Brings(m, h, id)
  BY DEF Brings, IsOk
<1>3. \A h \in HwIds, id \in Ids :
         Brings(m, h, id) \/ (~Speaks(m, h) /\ WillName(adapterQ, Len(adapterQ), hwIdOf, id, h))
         => engine'.fences[h].id = id \/ ~engine'.up
  BY <1>2 DEF EngineHasNamed
<1>4. EngineHasNamed' /\ NumbersAreFree'
  BY <1>1, <1>3, NamesAdded
<1> QED BY <1>4 DEF NamedAreKept

\* The fences of clients that left, when a message is taken.
LEMMA TailGone ==
    ASSUME Types, Lives, GoneFits(batches, adapterQ, apiQ, hwIdOf), adapterQ # <<>>, NEW bs2, NEW names2,
           \A b \in 1..Len(batches) : Same(bs2[b], batches[b]) \/ bs2[b].op = "deleted",
           \A id \in Ids : names2[id] # 0 => hwIdOf[id] # 0 \/ BearsBack(batches, Head(adapterQ), id)
    PROVE  GoneFits(bs2, Tail(adapterQ), apiQ, names2)
<1>1. Elements(Tail(adapterQ)) \subseteq Elements(adapterQ) /\ Head(adapterQ) \in Elements(adapterQ)
  BY ElementsOfTail, Taken DEF Types
<1>2. /\ \A id : \A m \in Elements(adapterQ) : BearsBack(bs2, m, id) => BearsBack(batches, m, id)
      /\ \A id : \A m \in Elements(apiQ) : BearsOut(bs2, m, id) => BearsOut(batches, m, id)
  BY BearLess
<1>3. \A id : IsBack(bs2, Tail(adapterQ), id) => IsBack(batches, adapterQ, id)
  BY <1>1, <1>2 DEF IsBack
<1>4. \A id \in Ids : names2[id] # 0 => hwIdOf[id] # 0 \/ IsBack(batches, adapterQ, id)
  BY <1>1 DEF IsBack
<1>5. \A m \in Elements(apiQ) : IsGone(m) => m.id \in Ids
  <2> SUFFICES ASSUME NEW m \in Elements(apiQ), IsGone(m) PROVE m.id \in Ids
    OBVIOUS
  <2>1. m \in ApiMessages
    BY DEF Elements, Types
  <2>2. m \in Requests
    BY <2>1, ApiFields DEF IsGone, Commands
  <2> QED BY <2>2, RequestFields
<1> QED BY <1>2, <1>3, <1>4, <1>5, GoneSame

LEMMA SameAgain == \A b \in 1..Len(batches) : Same(batches[b], batches[b]) \/ batches[b].op = "deleted"
BY DEF Same

\* ... and when one is added that bears nothing to them.
LEMMA AddedGone ==
    ASSUME Types, KnownIds, GoneFits(batches, adapterQ, apiQ, hwIdOf), NEW m \in AdapterMessages, NEW bs2,
           \A id \in Known : ~BearsBack(bs2, m, id),
           \A id : \A n \in Elements(adapterQ) : BearsBack(bs2, n, id) => BearsBack(batches, n, id),
           \A id : \A n \in Elements(apiQ) : BearsOut(bs2, n, id) => BearsOut(batches, n, id)
    PROVE  GoneFits(bs2, Append(adapterQ, m), apiQ, hwIdOf)
<1>1. Elements(Append(adapterQ, m)) = Elements(adapterQ) \cup {m}
  BY ElementsOfAppend DEF Types
<1>2. \A id \in Known : IsBack(bs2, Append(adapterQ, m), id) => IsBack(batches, adapterQ, id)
  BY <1>1 DEF IsBack
<1>3. \A n \in Elements(apiQ) : IsGone(n) => n.id \in Known
  BY DEF IsGone, KnownIds, Commands
<1> QED BY <1>2, <1>3, GoneSame

LEMMA CommandFits ==
    ASSUME Types, Lives, KnownIds, NamesFit, NEW batch, CommandEffect(batch),
           batch.op = "add" => \A i \in 1..Len(batch.ids) : batch.ids[i] \notin Known
    PROVE  NamesFit'
<1> DEFINE m == [type |-> "command", batch |-> Len(batches) + 1]
<1>1. /\ m \in AdapterMessages /\ adapterQ' = Append(adapterQ, m)
      /\ UNCHANGED <<fences, hwIdOf, engine, apiQ>>
      /\ \A b \in 1..Len(batches) : batches'[b] = batches[b]
      /\ batches'[Len(batches) + 1] = batch
  BY DEF CommandEffect
<1>2. m.type = "command" /\ m.batch = Len(batches) + 1
  OBVIOUS
<1> HIDE DEF m
<1>3. NamedAreKept' /\ EngineHasNamed' /\ NumbersAreFree'
  BY <1>1, <1>2, QuietAdded DEF NamesFit
<1>4. \A id \in Known : ~BearsBack(batches', m, id)
  BY <1>1, <1>2 DEF BearsBack
<1>5. /\ \A id : \A n \in Elements(adapterQ) : BearsBack(batches', n, id) => BearsBack(batches, n, id)
      /\ \A id : \A n \in Elements(apiQ) : BearsOut(batches', n, id) => BearsOut(batches, n, id)
  BY <1>1, RefersToCommands DEF BearsBack, BearsOut
<1>6. GoneFits(batches', Append(adapterQ, m), apiQ, hwIdOf)
  BY <1>1, <1>4, <1>5, AddedGone DEF NamesFit
<1> QED BY <1>1, <1>3, <1>6 DEF NamesFit

\* A message of a client or of the engine comes.
LEMMA MessageFits ==
    ASSUME Types, KnownIds, NamesFit, NEW m \in AdapterMessages, adapterQ' = Append(adapterQ, m),
           UNCHANGED <<fences, hwIdOf, engine, apiQ, batches>>, m.type \in {"removeClient", "breach"}
    PROVE  NamesFit'
<1>1. NamedAreKept' /\ EngineHasNamed' /\ NumbersAreFree'
  BY QuietAdded DEF NamesFit
<1>2. \A id : ~BearsBack(batches, m, id)
  BY DEF BearsBack
<1>3. GoneFits(batches, Append(adapterQ, m), apiQ, hwIdOf)
  BY <1>2, AddedGone DEF NamesFit
<1> QED BY <1>1, <1>3 DEF NamesFit

LEMMA CallsFit ==
    ASSUME Types, Lives, KnownIds, NamesFit,
           AddGeofences \/ OtherCommand \/ RemoveClient \/ EngineCrash \/ Breach
    PROVE  NamesFit'
<1>1. CASE AddGeofences
  <2>1. PICK n, batch : AddEffect(n, batch)
    BY <1>1, Adds
  <2>2. CommandEffect(batch) /\ \A i \in 1..Len(batch.ids) : batch.ids[i] \notin Known
    BY <2>1 DEF AddEffect, Known
  <2> QED BY <2>2, CommandFits
<1>2. CASE OtherCommand
  <2>1. PICK batch : OtherEffect(batch)
    BY <1>2, Others
  <2> QED BY <2>1, CommandFits DEF OtherEffect
<1>3. CASE RemoveClient
  <2>1. PICK c \in clients :
          /\ adapterQ' = Append(adapterQ, [type |-> "removeClient", client |-> c])
          /\ UNCHANGED <<fences, hwIdOf, engine, apiQ, batches>>
    BY <1>3 DEF RemoveClient, maps, engineSide
  <2>2. [type |-> "removeClient", client |-> c] \in AdapterMessages
    BY DEF Types, AdapterMessages, RemoveMessages
  <2> QED BY <2>1, <2>2, MessageFits
<1>4. CASE EngineCrash
  <2>1. /\ UNCHANGED <<fences, hwIdOf, batches, adapterQ>> /\ apiQ' = Append(apiQ, [op |-> "ssr"])
        /\ engine' = [up |-> FALSE, fences |-> [h \in HwIds |-> NoFence]]
    BY <1>4 DEF EngineCrash, maps
  <2>2. [op |-> "ssr"] \in ApiMessages /\ ~IsGone([op |-> "ssr"]) /\ apiQ \in Seq(ApiMessages)
    BY DEF ApiMessages, IsGone, Types
  <2>3. GoneFits(batches, adapterQ, Append(apiQ, [op |-> "ssr"]), hwIdOf)
    BY <2>2, GoneAppended DEF NamesFit
  <2>4. NamedAreKept' /\ EngineHasNamed' /\ NumbersAreFree'
    BY <2>1 DEF NamesFit, NamedAreKept, EngineHasNamed, NumbersAreFree
  <2> QED BY <2>1, <2>3, <2>4 DEF NamesFit
<1>5. CASE Breach
  <2>1. PICK m \in AdapterMessages :
          m.type = "breach" /\ adapterQ' = Append(adapterQ, m)
          /\ UNCHANGED <<maps, clients, owner, batches, engineSide, answered>>
    BY <1>5, BreachSent
  <2>2. UNCHANGED <<fences, hwIdOf, engine, apiQ, batches>>
    BY <2>1 DEF maps, engineSide
  <2> QED BY <2>1, <2>2, MessageFits
<1> QED BY <1>1, <1>2, <1>3, <1>4, <1>5

LEMMA HandleCommandFits ==
    ASSUME Types, Lives, NamesFit, HandleCommand
    PROVE  NamesFit'
<1>1. PICK b \in 1..Len(batches), turns \in Seq(ApiMessages) :
         /\ Head(adapterQ).type = "command"
         /\ adapterQ # <<>> /\ adapterQ' = Tail(adapterQ)
         /\ apiQ' = apiQ \o turns
         /\ \A k \in 1..Len(turns) : turns[k].op = "turn"
  BY CommandHandled
<1>2. UNCHANGED <<fences, hwIdOf, engine, batches>>
  BY DEF HandleCommand, maps
<1>3. NamedAreKept' /\ EngineHasNamed' /\ NumbersAreFree'
  BY <1>1, <1>2, QuietTaken DEF NamesFit
<1>4. GoneFits(batches, Tail(adapterQ), apiQ, hwIdOf)
  BY <1>1, SameAgain, TailGone DEF NamesFit
<1>5. apiQ \in Seq(ApiMessages) /\ \A k \in 1..Len(turns) : ~IsGone(turns[k])
  BY <1>1 DEF Types, IsGone
<1>6. GoneFits(batches, Tail(adapterQ), apiQ \o turns, hwIdOf)
  BY <1>4, <1>5, GoneJoined
<1> QED BY <1>1, <1>2, <1>3, <1>6 DEF NamesFit

LEMMA HandleTurnFits ==
    ASSUME Types, Lives, NamesFit, HandleTurn
    PROVE  NamesFit'
<1>1. PICK c \in 1..Len(batches), i \in 1..MaxItems :
         /\ Head(adapterQ).type = "turn"
         /\ \A b \in 1..Len(batches) : b # c => batches'[b] = batches[b]
         /\ adapterQ # <<>> /\ adapterQ' = Tail(adapterQ)
         /\ UNCHANGED <<maps, clients, owner, engine, strayed, answered, used>>
         /\ \/ \E r \in Requests :
                  /\ r \in ApiMessages /\ apiQ' = Append(apiQ, r) /\ r.then = ForItem(c, i)
                  /\ Same(batches'[c], batches[c])
            \/ /\ apiQ' = apiQ
               /\ i # Len(batches[c].ids) => Same(batches'[c], batches[c])
               /\ i = Len(batches[c].ids) => batches'[c] = Deleted
  BY TurnHandled
<1>2. UNCHANGED <<fences, hwIdOf, engine>> /\ apiQ \in Seq(ApiMessages)
  BY <1>1 DEF maps, Types
<1>3. NamedAreKept' /\ EngineHasNamed' /\ NumbersAreFree'
  BY <1>1, <1>2, QuietTaken DEF NamesFit
<1>4. \A b \in 1..Len(batches) : Same(batches'[b], batches[b]) \/ batches'[b].op = "deleted"
  BY <1>1, DeletedIsBatch DEF Same
<1>5. GoneFits(batches', Tail(adapterQ), apiQ, hwIdOf)
  BY <1>1, <1>4, TailGone DEF NamesFit
<1>6. CASE apiQ' = apiQ
  BY <1>1, <1>2, <1>3, <1>5, <1>6 DEF NamesFit
<1>7. CASE \E r \in Requests : r \in ApiMessages /\ apiQ' = Append(apiQ, r) /\ r.then = ForItem(c, i)
  <2>1. PICK r \in ApiMessages : apiQ' = Append(apiQ, r) /\ r.then = ForItem(c, i)
    BY <1>7
  <2>2. ~IsGone(r)
    BY <2>1 DEF IsGone, ForItem
  <2>3. GoneFits(batches', Tail(adapterQ), Append(apiQ, r), hwIdOf)
    BY <1>2, <1>5, <2>2, GoneAppended
  <2> QED BY <1>1, <1>2, <1>3, <2>1, <2>3 DEF NamesFit
<1> QED BY <1>1, <1>6, <1>7

\* What frees a number is no fence's name.
LEMMA HeadFrees ==
    ASSUME Types, NumbersAreFree, adapterQ # <<>>, NEW h \in HwIds, Frees(Head(adapterQ), h), NEW id \in Ids
    PROVE  hwIdOf[id] # h
<1>1. Head(adapterQ) = adapterQ[1] /\ 1 \in 1..Len(adapterQ)
  BY Taken
<1>2. ~WillName(adapterQ, 1 - 1, hwIdOf, id, h)
  BY <1>1 DEF NumbersAreFree
<1>3. Silent(adapterQ, 1 - 1, h)
  BY DEF Silent
<1> QED BY <1>2, <1>3 DEF WillName

\* A fence is saved under a number that was free.
LEMMA SavedFits ==
    ASSUME Types, NamesFit, UNCHANGED engine, adapterQ # <<>>, adapterQ' = Tail(adapterQ),
           NEW h \in HwIds, NEW x \in Ids, Brings(Head(adapterQ), h, x),
           hwIdOf' \in [Ids -> {0} \cup HwIds], hwIdOf'[x] = h, fences'[h].id = x,
           \A id \in Ids : id # x => hwIdOf'[id] = hwIdOf[id],
           \A g \in HwIds : g # h => fences'[g] = fences[g]
    PROVE  NamedAreKept' /\ EngineHasNamed' /\ NumbersAreFree'
<1> DEFINE m == Head(adapterQ)
<1>1. m.type = "answer" /\ m.ok /\ m.hwId = h /\ m.to.op = "add" /\ m.to.id = x
  BY DEF Brings, IsOk
<1>2. m = Head(adapterQ)
  OBVIOUS
<1> HIDE DEF m
<1>3. Frees(m, h)
  BY <1>1 DEF Frees, IsOk
<1>4. \A id \in Ids : hwIdOf[id] # h
  BY <1>2, <1>3, HeadFrees DEF NamesFit
<1>5. \A g \in HwIds : g # h => ~Speaks(m, g)
  BY <1>1 DEF Speaks, IsOk
<1>6. \A g \in HwIds, id \in Ids : hwIdOf'[id] = g => Brings(m, g, id) \/ (~Speaks(m, g) /\ hwIdOf[id] = g)
  <2> SUFFICES ASSUME NEW g \in HwIds, NEW id \in Ids, hwIdOf'[id] = g
               PROVE  Brings(m, g, id) \/ (~Speaks(m, g) /\ hwIdOf[id] = g)
    OBVIOUS
  <2>1. CASE id = x
    BY <1>2, <2>1
  <2>2. CASE id # x
    BY <1>4, <1>5, <2>2
  <2> QED BY <2>1, <2>2
<1>7. \A g \in HwIds, id \in Ids : Brings(m, g, id) => fences'[g].id = id
  BY <1>1 DEF Brings, IsOk
<1>8. \A g \in HwIds : ~Speaks(m, g) => fences'[g].id = fences[g].id
  BY <1>1 DEF Speaks, IsOk
<1> QED BY <1>2, <1>6, <1>7, <1>8, TakenFits DEF NamesFit

\* An answer for a fence to remove is handled: the name of what was kept goes with it.
LEMMA RemovedFits ==
    ASSUME Types, NamesFit, UNCHANGED engine, adapterQ # <<>>, adapterQ' = Tail(adapterQ),
           NEW h \in HwIds, Head(adapterQ).type = "answer", Head(adapterQ).ok, Head(adapterQ).hwId = h,
           Head(adapterQ).to.op = "remove", hwIdOf' \in [Ids -> {0} \cup HwIds],
           \A g \in HwIds : g # h => fences'[g] = fences[g],
           IF fences[h] # NoFence /\ hwIdOf[fences[h].id] # 0
           THEN /\ fences'[h] = NoFence /\ hwIdOf'[fences[h].id] = 0
                /\ \A x \in Ids : x # fences[h].id => hwIdOf'[x] = hwIdOf[x]
           ELSE UNCHANGED maps
    PROVE  NamedAreKept' /\ EngineHasNamed' /\ NumbersAreFree'
<1> DEFINE m == Head(adapterQ)
<1>1. m = Head(adapterQ) /\ m.type = "answer" /\ m.ok /\ m.hwId = h /\ m.to.op = "remove"
  OBVIOUS
<1> HIDE DEF m
<1>2. 0 \notin HwIds /\ 0 \notin Ids
  BY Numbers
<1>3. \A g \in HwIds : g # h => ~Speaks(m, g)
  BY <1>1 DEF Speaks, IsOk
<1>4. Speaks(m, h) /\ \A g, id : ~Brings(m, g, id)
  BY <1>1 DEF Speaks, IsOk, Brings
<1>5. ASSUME NEW id \in Ids, hwIdOf'[id] = h PROVE FALSE
  <2>1. CASE fences[h] # NoFence /\ hwIdOf[fences[h].id] # 0
    <3>1. id # fences[h].id /\ hwIdOf[id] = h
      BY <1>2, <1>5, <2>1
    <3> QED BY <1>2, <3>1 DEF NamesFit, NamedAreKept
  <2>2. CASE ~(fences[h] # NoFence /\ hwIdOf[fences[h].id] # 0)
    <3>1. hwIdOf[id] = h
      BY <1>5, <2>2 DEF maps
    <3>2. fences[h].id = id
      BY <1>2, <3>1 DEF NamesFit, NamedAreKept
    <3> QED BY <1>2, <2>2, <3>1, <3>2 DEF NoFence
  <2> QED BY <2>1, <2>2
<1>6. \A id \in Ids : hwIdOf'[id] # 0 => hwIdOf[id] = hwIdOf'[id]
  BY DEF maps
<1>7. \A g \in HwIds, id \in Ids : hwIdOf'[id] = g => Brings(m, g, id) \/ (~Speaks(m, g) /\ hwIdOf[id] = g)
  BY <1>2, <1>3, <1>5, <1>6
<1> QED BY <1>1, <1>3, <1>4, <1>7, TakenFits DEF NamesFit

LEMMA HandleAnswerFits ==
    ASSUME Types, Lives, NamesFit, HandleAnswer
    PROVE  NamesFit'
<1>1. PICK m, ok, h, b : AnswerEffect(m, ok, h, b)
  BY AnswerHandled
<1>2. /\ adapterQ # <<>> /\ adapterQ' = Tail(adapterQ) /\ UNCHANGED <<engine, apiQ>> /\ m \in Requests
      /\ Head(adapterQ).type = "answer" /\ Head(adapterQ).to = m /\ Head(adapterQ).ok = ok
      /\ Head(adapterQ).hwId = h /\ ok \in BOOLEAN /\ (ok => h \in HwIds)
      /\ \A c \in 1..Len(batches) : c # b => batches'[c] = batches[c]
      /\ Same(batches'[b], batches[b]) \/ batches'[b] = Deleted
  BY <1>1 DEF AnswerEffect
<1>3. /\ hwIdOf' \in [Ids -> {0} \cup HwIds]
      /\ \A g \in HwIds : g # h => fences'[g] = fences[g]
      /\ ~ok => UNCHANGED maps
      /\ ok /\ m.op = "add" => fences'[h] # NoFence /\ fences'[h].id = m.id /\ fences'[h].opt = m.opt
                               /\ hwIdOf'[m.id] = h
                               /\ \A x \in Ids : x # m.id => hwIdOf'[x] = hwIdOf[x]
      /\ ok /\ m.op = "remove" =>
            IF fences[h] # NoFence /\ hwIdOf[fences[h].id] # 0
            THEN /\ fences'[h] = NoFence /\ hwIdOf'[fences[h].id] = 0
                 /\ \A x \in Ids : x # fences[h].id => hwIdOf'[x] = hwIdOf[x]
            ELSE UNCHANGED maps
      /\ m.op \notin {"add", "remove"} =>
            /\ hwIdOf' = hwIdOf
            /\ \A x \in HwIds : fences'[x].id = fences[x].id /\ (fences'[x] = NoFence <=> fences[x] = NoFence)
  BY <1>1, AnswerKeeps
<1>4. m.id \in Ids
  BY <1>2, RequestFields
<1>5. \A c \in 1..Len(batches) : Same(batches'[c], batches[c]) \/ batches'[c].op = "deleted"
  BY <1>2, DeletedIsBatch DEF Same
<1>6. CASE ok /\ m.op = "add"
  <2>1. Brings(Head(adapterQ), h, m.id) /\ BearsBack(batches, Head(adapterQ), m.id)
    BY <1>2, <1>6 DEF Brings, IsOk, BearsBack
  <2>2. h \in HwIds /\ hwIdOf'[m.id] = h /\ fences'[h].id = m.id
        /\ (\A x \in Ids : x # m.id => hwIdOf'[x] = hwIdOf[x])
        /\ \A g \in HwIds : g # h => fences'[g] = fences[g]
    BY <1>2, <1>3, <1>6
  <2>3. NamedAreKept' /\ EngineHasNamed' /\ NumbersAreFree'
    BY <1>2, <1>3, <1>4, <2>1, <2>2, SavedFits
  <2>4. \A id \in Ids : hwIdOf'[id] # 0 => hwIdOf[id] # 0 \/ BearsBack(batches, Head(adapterQ), id)
    BY <2>1, <2>2
  <2>5. GoneFits(batches', Tail(adapterQ), apiQ, hwIdOf')
    BY <1>2, <1>5, <2>4, TailGone DEF NamesFit
  <2> QED BY <1>2, <2>3, <2>5 DEF NamesFit
<1>7. CASE ok /\ m.op = "remove"
  <2>1. /\ h \in HwIds /\ \A g \in HwIds : g # h => fences'[g] = fences[g]
        /\ IF fences[h] # NoFence /\ hwIdOf[fences[h].id] # 0
           THEN /\ fences'[h] = NoFence /\ hwIdOf'[fences[h].id] = 0
                /\ \A x \in Ids : x # fences[h].id => hwIdOf'[x] = hwIdOf[x]
           ELSE UNCHANGED maps
    BY <1>2, <1>3, <1>7
  <2>2. NamedAreKept' /\ EngineHasNamed' /\ NumbersAreFree'
    BY <1>2, <1>3, <1>7, <2>1, RemovedFits
  <2>3. \A id \in Ids : hwIdOf'[id] # 0 => hwIdOf[id] # 0 \/ BearsBack(batches, Head(adapterQ), id)
    BY <2>1 DEF maps
  <2>4. GoneFits(batches', Tail(adapterQ), apiQ, hwIdOf')
    BY <1>2, <1>5, <2>3, TailGone DEF NamesFit
  <2> QED BY <1>2, <2>2, <2>4 DEF NamesFit
<1>8. CASE ~ok \/ m.op \notin {"add", "remove"}
  <2>1. hwIdOf' = hwIdOf /\ \A g \in HwIds : fences'[g].id = fences[g].id
    BY <1>3, <1>8 DEF maps
  <2>2. \A g : ~Speaks(Head(adapterQ), g)
    BY <1>2, <1>8 DEF Speaks, IsOk
  <2>3. \A g, id : ~Brings(Head(adapterQ), g, id)
    BY <1>2, <1>8 DEF Brings, IsOk
  <2>4. NamedAreKept' /\ EngineHasNamed' /\ NumbersAreFree'
    BY <1>2, <1>3, <2>1, <2>2, <2>3, TakenFits DEF NamesFit
  <2>5. GoneFits(batches', Tail(adapterQ), apiQ, hwIdOf')
    BY <1>2, <1>5, <2>1, TailGone DEF NamesFit
  <2> QED BY <1>2, <2>4, <2>5 DEF NamesFit
<1> QED BY <1>2, <1>6, <1>7, <1>8

\* The client's fences have no names any more; they are kept, so nothing will make them again.
LEMMA HandleRemoveClientFits ==
    ASSUME Types, Lives, Unique, NamesFit, HandleRemoveClient
    PROVE  NamesFit'
<1>1. PICK c, requests : GoneEffect(c, requests)
  BY RemoveClientHandled
<1>2. /\ requests \in Seq(ApiMessages) /\ adapterQ # <<>> /\ adapterQ' = Tail(adapterQ)
      /\ apiQ' = apiQ \o requests /\ UNCHANGED <<fences, batches, engine>>
      /\ Head(adapterQ).type = "removeClient"
      /\ \A k \in 1..Len(requests) :
            requests[k].op = "remove" /\ requests[k].id \in OwnIds(c) /\ requests[k].id \in Ids
            /\ hwIdOf[requests[k].id] # 0
      /\ hwIdOf' \in [Ids -> {0} \cup HwIds]
      /\ \A id \in Ids : hwIdOf'[id] = IF id \in OwnIds(c) THEN 0 ELSE hwIdOf[id]
  BY <1>1 DEF GoneEffect
<1>3. adapterQ \in Seq(AdapterMessages) /\ apiQ \in Seq(ApiMessages)
  BY DEF Types
<1>4. \A id \in Ids : hwIdOf'[id] # 0 => hwIdOf'[id] = hwIdOf[id]
  BY <1>2
<1>5. NamedAreKept' /\ EngineHasNamed' /\ NumbersAreFree'
  <2>1. \A h : ~Speaks(Head(adapterQ), h)
    BY <1>2 DEF Speaks, IsOk
  <2>2. \A h, id : ~Brings(Head(adapterQ), h, id)
    BY <1>2 DEF Brings, IsOk
  <2>3. \A h \in HwIds, id \in Ids : hwIdOf'[id] = h => hwIdOf[id] = h
    BY <1>4, Numbers
  <2> QED BY <1>2, <2>1, <2>2, <2>3, TakenFits DEF NamesFit
<1>6. GoneFits(batches, Tail(adapterQ), apiQ, hwIdOf')
  BY <1>2, <1>4, SameAgain, TailGone DEF NamesFit
<1>7. \A k \in 1..Len(requests) :
        /\ hwIdOf'[requests[k].id] = 0
        /\ ~IsBack(batches, Tail(adapterQ), requests[k].id)
        /\ ~IsOut(batches, apiQ \o requests, requests[k].id)
  <2> TAKE k \in 1..Len(requests)
  <2> DEFINE id == requests[k].id
  <2>1. id \in OwnIds(c) /\ id \in Ids /\ hwIdOf[id] # 0 /\ hwIdOf[id] \in HwIds
    <3>1. id \in OwnIds(c) /\ id \in Ids /\ hwIdOf[id] # 0
      BY <1>2
    <3> QED BY <3>1 DEF Types
  <2>2. IsKept(fences, id)
    BY <2>1 DEF IsKept, NamesFit, NamedAreKept
  <2>3. ~IsBack(batches, adapterQ, id) /\ ~IsOut(batches, apiQ, id)
    BY <2>1, <2>2 DEF Unique, OnceOf
  <2>4. ~IsBack(batches, Tail(adapterQ), id)
    BY <1>2, <1>3, <2>3, ElementsOfTail DEF IsBack
  <2>5. \A m \in Elements(requests) : ~BearsOut(batches, m, id)
    BY <1>2 DEF Elements, BearsOut
  <2>6. ~IsOut(batches, apiQ \o requests, id)
    BY <1>2, <1>3, <2>3, <2>5, ElementsOfJoin DEF IsOut
  <2> QED BY <1>2, <2>1, <2>4, <2>6
<1>8. GoneFits(batches, Tail(adapterQ), apiQ \o requests, hwIdOf')
  BY <1>2, <1>3, <1>6, <1>7, GoneJoined
<1> QED BY <1>2, <1>5, <1>8 DEF NamesFit

LEMMA HandleGoneFits ==
    ASSUME Types, Lives, NamesFit, HandleGone
    PROVE  NamesFit'
<1> DEFINE m == Head(adapterQ)
<1>1. /\ adapterQ # <<>> /\ adapterQ' = Tail(adapterQ) /\ UNCHANGED <<hwIdOf, batches, apiQ, engine>>
      /\ m.type = "answer" /\ m.to.then.for = "gone"
      /\ fences' = IF m.ok THEN [fences EXCEPT ![m.hwId] = NoFence] ELSE fences
  BY DEF HandleGone, Take, TakeAnswer, engineSide
<1>2. m.ok \in BOOLEAN /\ (m.ok => m.hwId \in HwIds) /\ m.to.op = "remove" /\ m = Head(adapterQ)
  BY <1>1, Taken, AdapterFields, RequestFields
<1> HIDE DEF m
<1>3. \A h, id : ~Brings(m, h, id)
  BY <1>2 DEF Brings
<1>4. \A h \in HwIds, id \in Ids : hwIdOf[id] = h => ~Speaks(m, h)
  <2> SUFFICES ASSUME NEW h \in HwIds, NEW id \in Ids, hwIdOf[id] = h, Speaks(m, h) PROVE FALSE
    OBVIOUS
  <2>1. Frees(m, h)
    BY <1>1 DEF Speaks, Frees
  <2> QED BY <1>1, <1>2, <2>1, HeadFrees DEF NamesFit
<1>5. \A h \in HwIds : ~Speaks(m, h) => fences'[h].id = fences[h].id
  BY <1>1, <1>2 DEF Speaks, IsOk, Types
<1>6. hwIdOf' \in [Ids -> {0} \cup HwIds]
  BY <1>1 DEF Types
<1>7. NamedAreKept' /\ EngineHasNamed' /\ NumbersAreFree'
  BY <1>1, <1>2, <1>3, <1>4, <1>5, <1>6, TakenFits DEF NamesFit
<1>8. GoneFits(batches, Tail(adapterQ), apiQ, hwIdOf)
  BY <1>1, SameAgain, TailGone DEF NamesFit
<1> QED BY <1>1, <1>7, <1>8 DEF NamesFit

\* After a restart no fence has a name.
LEMMA HandleEngineUpFits ==
    ASSUME Types, Lives, NamesFit, HandleEngineUp
    PROVE  NamesFit'
<1>1. PICK old, requests : RestartEffect(old, requests)
  BY EngineUpHandled
<1>2. /\ requests \in Seq(ApiMessages) /\ adapterQ # <<>> /\ adapterQ' = Tail(adapterQ)
      /\ apiQ' = apiQ \o requests /\ UNCHANGED <<batches, engine>>
      /\ Head(adapterQ).type = "engineUp"
      /\ \A k \in 1..Len(requests) : requests[k].op = "add"
      /\ hwIdOf' \in [Ids -> {0} \cup HwIds]
      /\ IF \E h \in HwIds : fences[h] # NoFence THEN \A id \in Ids : hwIdOf'[id] = 0 ELSE hwIdOf' = hwIdOf
  BY <1>1 DEF RestartEffect
<1>3. \A id \in Ids : hwIdOf'[id] = 0
  <2>1. CASE \E h \in HwIds : fences[h] # NoFence
    BY <1>2, <2>1
  <2>2. CASE ~\E h \in HwIds : fences[h] # NoFence
    <3> SUFFICES ASSUME NEW id \in Ids, hwIdOf[id] # 0 PROVE FALSE
      BY <1>2, <2>2
    <3>1. hwIdOf[id] \in HwIds /\ fences[hwIdOf[id]].id = id
      BY DEF NamesFit, NamedAreKept, Types
    <3>2. fences[hwIdOf[id]] = NoFence
      BY <2>2, <3>1
    <3>3. NoFence.id = 0
      BY DEF NoFence
    <3> QED BY <3>1, <3>2, <3>3, Numbers
  <2> QED BY <2>1, <2>2
<1>4. \A h : Speaks(Head(adapterQ), h)
  BY <1>2 DEF Speaks
<1>5. \A h, id : ~Brings(Head(adapterQ), h, id)
  BY <1>2 DEF Brings, IsOk
<1>6. \A h \in HwIds, id \in Ids : hwIdOf'[id] # h
  BY <1>3, Numbers
<1>7. NamedAreKept' /\ EngineHasNamed' /\ NumbersAreFree'
  BY <1>2, <1>4, <1>5, <1>6, TakenFits DEF NamesFit
<1>8. GoneFits(batches, Tail(adapterQ), apiQ, hwIdOf')
  BY <1>2, <1>3, SameAgain, TailGone DEF NamesFit
<1>9. apiQ \in Seq(ApiMessages) /\ \A k \in 1..Len(requests) : ~IsGone(requests[k])
  BY <1>2 DEF Types, IsGone
<1>10. GoneFits(batches, Tail(adapterQ), apiQ \o requests, hwIdOf')
  BY <1>2, <1>8, <1>9, GoneJoined
<1> QED BY <1>2, <1>7, <1>10 DEF NamesFit

LEMMA HandleRestoredFits ==
    ASSUME Types, Lives, NamesFit, HandleRestored
    PROVE  NamesFit'
<1>1. PICK m, ok, h : RestoredEffect(m, ok, h)
  BY RestoredHandled
<1>2. /\ adapterQ # <<>> /\ adapterQ' = Tail(adapterQ) /\ UNCHANGED <<batches, engine>>
      /\ m.op = "add" /\ m.id \in Ids /\ ok \in BOOLEAN
      /\ Head(adapterQ).type = "answer" /\ Head(adapterQ).to = m /\ Head(adapterQ).ok = ok
      /\ Head(adapterQ).hwId = h
      /\ \/ apiQ' = apiQ
         \/ \E r \in ApiMessages : apiQ' = Append(apiQ, r) /\ r.op = "pause"
  BY <1>1 DEF RestoredEffect
<1>3. /\ \A g \in HwIds : g # h => fences'[g] = fences[g]
      /\ ~ok => UNCHANGED maps
      /\ ok => /\ h \in HwIds /\ fences'[h] # NoFence /\ fences'[h].id = m.id /\ fences'[h].opt = m.opt
               /\ hwIdOf'[m.id] = h
               /\ \A x \in Ids : x # m.id => hwIdOf'[x] = hwIdOf[x]
  BY <1>1, RestoreKeeps
<1>4. /\ NamedAreKept' /\ EngineHasNamed' /\ NumbersAreFree'
      /\ \A id \in Ids : hwIdOf'[id] # 0 => hwIdOf[id] # 0 \/ BearsBack(batches, Head(adapterQ), id)
  <2>1. CASE ok
    <3>1. Brings(Head(adapterQ), h, m.id) /\ BearsBack(batches, Head(adapterQ), m.id)
      BY <1>2, <2>1 DEF Brings, IsOk, BearsBack
    <3>2. h \in HwIds /\ hwIdOf'[m.id] = h /\ fences'[h].id = m.id
          /\ (\A x \in Ids : x # m.id => hwIdOf'[x] = hwIdOf[x])
          /\ \A g \in HwIds : g # h => fences'[g] = fences[g]
      BY <1>3, <2>1
    <3>3. hwIdOf' \in [Ids -> {0} \cup HwIds]
      <4>1. SaveItem(m.id, h, m.opt)
        BY <1>1, <2>1 DEF RestoredEffect
      <4> QED BY <3>2, <4>1 DEF SaveItem, Types
    <3> QED BY <1>2, <3>1, <3>2, <3>3, SavedFits
  <2>2. CASE ~ok
    <3>1. UNCHANGED <<fences, hwIdOf>> /\ hwIdOf' \in [Ids -> {0} \cup HwIds]
      BY <1>3, <2>2 DEF maps, Types
    <3>2. \A g : ~Speaks(Head(adapterQ), g)
      BY <1>2, <2>2 DEF Speaks, IsOk
    <3>3. \A g, id : ~Brings(Head(adapterQ), g, id)
      BY <1>2, <2>2 DEF Brings, IsOk
    <3> QED BY <1>2, <3>1, <3>2, <3>3, TakenFits DEF NamesFit
  <2> QED BY <1>2, <2>1, <2>2
<1>5. GoneFits(batches, Tail(adapterQ), apiQ, hwIdOf')
  BY <1>2, <1>4, SameAgain, TailGone DEF NamesFit
<1>6. CASE apiQ' = apiQ
  BY <1>2, <1>4, <1>5, <1>6 DEF NamesFit
<1>7. CASE \E r \in ApiMessages : apiQ' = Append(apiQ, r) /\ r.op = "pause"
  <2>1. PICK r \in ApiMessages : apiQ' = Append(apiQ, r) /\ r.op = "pause"
    BY <1>7
  <2>2. apiQ \in Seq(ApiMessages) /\ ~IsGone(r)
    BY <2>1 DEF Types, IsGone
  <2>3. GoneFits(batches, Tail(adapterQ), Append(apiQ, r), hwIdOf')
    BY <1>5, <2>2, GoneAppended
  <2> QED BY <1>2, <1>4, <2>1, <2>3 DEF NamesFit
<1> QED BY <1>2, <1>6, <1>7

LEMMA HandleBreachFits ==
    ASSUME Types, Lives, NamesFit, HandleBreach
    PROVE  NamesFit'
<1>1. /\ adapterQ # <<>> /\ adapterQ' = Tail(adapterQ) /\ Head(adapterQ).type = "breach"
      /\ UNCHANGED <<fences, hwIdOf, engine, apiQ, batches>>
  BY DEF HandleBreach, Take, maps, engineSide
<1>2. NamedAreKept' /\ EngineHasNamed' /\ NumbersAreFree'
  BY <1>1, QuietTaken DEF NamesFit
<1>3. GoneFits(batches, Tail(adapterQ), apiQ, hwIdOf)
  BY <1>1, SameAgain, TailGone DEF NamesFit
<1> QED BY <1>1, <1>2, <1>3 DEF NamesFit

\* The fences of clients that left, when the API thread has handled what bears no more than it says.
LEMMA OutGone ==
    ASSUME Types, GoneFits(batches, adapterQ, apiQ, hwIdOf), apiQ # <<>>, NEW m \in AdapterMessages,
           \A id : BearsBack(batches, m, id) => BearsOut(batches, Head(apiQ), id)
    PROVE  GoneFits(batches, Append(adapterQ, m), Tail(apiQ), hwIdOf)
<1>1. Elements(Append(adapterQ, m)) = Elements(adapterQ) \cup {m} /\ apiQ \in Seq(ApiMessages)
  BY ElementsOfAppend DEF Types
<1>2. \A id : IsBack(batches, Append(adapterQ, m), id) =>
                  IsBack(batches, adapterQ, id) \/ BearsOut(batches, Head(apiQ), id)
  BY <1>1 DEF IsBack
<1> QED BY <1>1, <1>2, GoneOutTaken

LEMMA OutQuietlyGone ==
    ASSUME Types, GoneFits(batches, adapterQ, apiQ, hwIdOf), apiQ # <<>>
    PROVE  GoneFits(batches, adapterQ, Tail(apiQ), hwIdOf)
<1>1. apiQ \in Seq(ApiMessages)
  BY DEF Types
<1> QED BY <1>1, GoneOutTaken

\* A request that did not stray: what it frees, nothing under way names.
LEMMA ServedFrees ==
    ASSUME Types, NamesFit, NEW m, NEW h, ServeEffect(m, h), ~strayed',
           m.op = "add" \/ m.then.for = "gone", NEW id \in Ids
    PROVE  ~WillName(adapterQ, Len(adapterQ), hwIdOf, id, h)
<1>1. /\ m \in Requests /\ h \in HwIds /\ apiQ # <<>> /\ Head(apiQ) = m /\ engine.up
      /\ m.op = "add" => engine.fences[h] = NoFence
      /\ m.op # "add" => engine.fences[h].id = m.id
  BY DEF ServeEffect
<1>2. 0 \notin HwIds /\ 0 \notin Ids /\ NoFence.id = 0
  BY Numbers DEF NoFence
<1> SUFFICES ASSUME WillName(adapterQ, Len(adapterQ), hwIdOf, id, h) PROVE FALSE
  OBVIOUS
<1>3. engine.fences[h].id = id
  BY <1>1 DEF NamesFit, EngineHasNamed
<1>4. CASE m.op = "add"
  BY <1>1, <1>2, <1>3, <1>4
<1>5. CASE m.op # "add"
  <2>1. m.op = "remove" /\ m.then.for = "gone" /\ m.id = id
    BY <1>1, <1>3, <1>5, RequestFields
  <2>2. IsGone(m) /\ m = apiQ[1] /\ 1 \in 1..Len(apiQ)
    BY <1>1, <2>1, ApiTaken DEF IsGone
  <2>3. hwIdOf[id] = 0 /\ ~IsBack(batches, adapterQ, id)
    BY <2>1, <2>2 DEF NamesFit, GoneFits
  <2>4. ~Last(adapterQ, Len(adapterQ), h, id)
    <3> SUFFICES ASSUME NEW j \in 1..Len(adapterQ), Brings(adapterQ[j], h, id) PROVE FALSE
      BY DEF Last
    <3>1. adapterQ[j] \in Elements(adapterQ) /\ BearsBack(batches, adapterQ[j], id)
      BY DEF Elements, BearsBack, Brings, IsOk
    <3> QED BY <2>3, <3>1 DEF IsBack
  <2> QED BY <1>1, <1>2, <2>3, <2>4 DEF WillName
<1> QED BY <1>4, <1>5

LEMMA ServeFits ==
    ASSUME Types, NamesFit, Serve, ~strayed'
    PROVE  NamesFit'
<1>1. PICK m, h : ServeEffect(m, h)
  BY Serves
<1>2. /\ m \in Requests /\ h \in HwIds /\ Replies(m, TRUE, h) /\ UNCHANGED <<fences, hwIdOf, batches>>
      /\ apiQ # <<>> /\ Head(apiQ) = m /\ apiQ' = Tail(apiQ) /\ engine.up
      /\ \A g \in HwIds : g # h => engine'.fences[g] = engine.fences[g]
      /\ m.op = "add" => engine'.fences[h].id = m.id
      /\ m.op \in {"pause", "resume", "modify"} => engine'.fences[h].id = engine.fences[h].id
  BY <1>1 DEF ServeEffect, maps
<1>3. m.op \in Commands /\ (m.then.for = "nobody" => m.op = "pause") /\ m.id \in Ids
  BY <1>2, RequestFields
<1>4. m.op \notin {"add", "remove"} => m.op \in {"pause", "resume", "modify"}
  BY <1>3 DEF Commands
<1>5. NamedAreKept'
  BY <1>2 DEF NamesFit, NamedAreKept
<1>6. CASE m.then.for = "nobody" /\ adapterQ' = adapterQ
  <2>1. \A g \in HwIds : engine'.fences[g].id = engine.fences[g].id
    BY <1>2, <1>3, <1>6
  <2>2. EngineHasNamed'
    BY <1>2, <1>6, <2>1 DEF NamesFit, EngineHasNamed
  <2>3. NumbersAreFree'
    BY <1>2, <1>6 DEF NamesFit, NumbersAreFree
  <2>4. GoneFits(batches, adapterQ, Tail(apiQ), hwIdOf)
    BY <1>2, OutQuietlyGone DEF NamesFit
  <2> QED BY <1>2, <1>5, <1>6, <2>2, <2>3, <2>4 DEF NamesFit
<1>7. CASE \E a \in Answers :
              /\ a \in AdapterMessages /\ adapterQ' = Append(adapterQ, a)
              /\ a.type = "answer" /\ a.ok = TRUE /\ a.hwId = h /\ a.to = m
  <2>1. PICK a \in Answers :
           /\ a \in AdapterMessages /\ adapterQ' = Append(adapterQ, a)
           /\ a.type = "answer" /\ a.ok = TRUE /\ a.hwId = h /\ a.to = m
    BY <1>7
  <2>2. \A g \in HwIds, id \in Ids : Frees(a, g) => ~WillName(adapterQ, Len(adapterQ), hwIdOf, id, g)
    <3> SUFFICES ASSUME NEW g \in HwIds, NEW id \in Ids, Frees(a, g)
                 PROVE  ~WillName(adapterQ, Len(adapterQ), hwIdOf, id, g)
      OBVIOUS
    <3>1. g = h /\ (m.op = "add" \/ m.then.for = "gone")
      BY <2>1 DEF Frees, IsOk
    <3> QED BY <1>1, <3>1, ServedFrees
  <2>3. \A g \in HwIds, id \in Ids :
           Brings(a, g, id) \/ (~Speaks(a, g) /\ WillName(adapterQ, Len(adapterQ), hwIdOf, id, g))
           => engine'.fences[g].id = id \/ ~engine'.up
    <3> SUFFICES ASSUME NEW g \in HwIds, NEW id \in Ids,
                        Brings(a, g, id)
                        \/ (~Speaks(a, g) /\ WillName(adapterQ, Len(adapterQ), hwIdOf, id, g))
                 PROVE  engine'.fences[g].id = id
      OBVIOUS
    <3>1. CASE Brings(a, g, id)
      <4>1. g = h /\ m.op = "add" /\ m.id = id
        BY <2>1, <3>1 DEF Brings, IsOk
      <4> QED BY <1>2, <4>1
    <3>2. CASE ~Speaks(a, g) /\ WillName(adapterQ, Len(adapterQ), hwIdOf, id, g)
      <4>1. engine.fences[g].id = id
        BY <1>2, <3>2 DEF NamesFit, EngineHasNamed
      <4>2. CASE g # h
        BY <1>2, <4>1, <4>2
      <4>3. CASE g = h
        <5>1. m.op \notin {"add", "remove"}
          BY <2>1, <3>2, <4>3 DEF Speaks, IsOk
        <5> QED BY <1>2, <1>4, <4>1, <4>3, <5>1
      <4> QED BY <4>2, <4>3
    <3> QED BY <3>1, <3>2
  <2>4. EngineHasNamed' /\ NumbersAreFree'
    BY <1>2, <2>1, <2>2, <2>3, NamesAdded DEF NamesFit
  <2>5. \A id : BearsBack(batches, a, id) => BearsOut(batches, Head(apiQ), id)
    BY <1>2, <2>1 DEF BearsBack, BearsOut
  <2>6. GoneFits(batches, Append(adapterQ, a), Tail(apiQ), hwIdOf)
    BY <1>2, <2>1, <2>5, OutGone DEF NamesFit
  <2> QED BY <1>2, <1>5, <2>1, <2>4, <2>6 DEF NamesFit
<1> QED BY <1>2, <1>6, <1>7 DEF Replies

LEMMA ApiThreadFits ==
    ASSUME Types, NamesFit, ApiThread, ~strayed'
    PROVE  NamesFit'
<1>1. CASE ReturnTurn
  <2>1. PICK m \in TurnMessages :
          /\ m \in AdapterMessages /\ m.type = "turn"
          /\ apiQ # <<>> /\ Head(apiQ).op = "turn" /\ apiQ' = Tail(apiQ)
          /\ m.batch = Head(apiQ).batch /\ m.item = Head(apiQ).item
          /\ adapterQ' = Append(adapterQ, m)
          /\ UNCHANGED <<maps, clients, owner, batches, engine, strayed, answered, used>>
    BY <1>1, TurnReturns
  <2>2. UNCHANGED <<fences, hwIdOf, engine, batches>>
    BY <2>1 DEF maps
  <2>3. NamedAreKept' /\ EngineHasNamed' /\ NumbersAreFree'
    BY <2>1, <2>2, QuietAdded DEF NamesFit
  <2>4. \A id : BearsBack(batches, m, id) => BearsOut(batches, Head(apiQ), id)
    BY <2>1 DEF BearsBack, BearsOut
  <2>5. GoneFits(batches, Append(adapterQ, m), Tail(apiQ), hwIdOf)
    BY <2>1, <2>4, OutGone DEF NamesFit
  <2> QED BY <2>1, <2>2, <2>3, <2>5 DEF NamesFit
<1>2. CASE Serve
  BY <1>2, ServeFits
<1>3. CASE Fail
  <2>1. PICK m : FailEffect(m)
    BY <1>3, Fails
  <2>2. Replies(m, FALSE, m.hwId) /\ UNCHANGED <<fences, hwIdOf, engine, batches>>
        /\ apiQ # <<>> /\ apiQ' = Tail(apiQ)
    BY <2>1 DEF FailEffect, maps
  <2>3. CASE adapterQ' = adapterQ
    <3>1. GoneFits(batches, adapterQ, Tail(apiQ), hwIdOf)
      BY <2>2, OutQuietlyGone DEF NamesFit
    <3> QED BY <2>2, <2>3, <3>1 DEF NamesFit, NamedAreKept, EngineHasNamed, NumbersAreFree
  <2>4. CASE \E a \in AdapterMessages : adapterQ' = Append(adapterQ, a) /\ a.type = "answer" /\ a.ok = FALSE
    <3>1. PICK a \in AdapterMessages : adapterQ' = Append(adapterQ, a) /\ a.type = "answer" /\ a.ok = FALSE
      BY <2>4
    <3>2. NamedAreKept' /\ EngineHasNamed' /\ NumbersAreFree'
      BY <2>2, <3>1, QuietAdded DEF NamesFit
    <3>3. \A id : ~BearsBack(batches, a, id)
      BY <3>1 DEF BearsBack
    <3>4. GoneFits(batches, Append(adapterQ, a), Tail(apiQ), hwIdOf)
      BY <2>2, <3>1, <3>3, OutGone DEF NamesFit
    <3> QED BY <2>2, <3>1, <3>2, <3>4 DEF NamesFit
  <2> QED BY <2>2, <2>3, <2>4 DEF Replies
<1>4. CASE Reopen
  <2> DEFINE m == [type |-> "engineUp"]
  <2>1. m \in AdapterMessages
    BY DEF AdapterMessages, UpMessages
  <2>2. adapterQ' = Append(adapterQ, m) /\ apiQ # <<>> /\ apiQ' = Tail(apiQ) /\ UNCHANGED <<fences, hwIdOf, batches>>
    BY <1>4 DEF Reopen, maps
  <2>3. m.type = "engineUp"
    OBVIOUS
  <2> HIDE DEF m
  <2>4. \A h : Speaks(m, h) /\ ~Frees(m, h)
    BY <2>3 DEF Speaks, Frees, IsOk
  <2>5. \A h, id : ~Brings(m, h, id)
    BY <2>3 DEF Brings, IsOk
  <2>6. EngineHasNamed' /\ NumbersAreFree'
    BY <2>1, <2>2, <2>4, <2>5, NamesAdded DEF NamesFit
  <2>7. \A id : ~BearsBack(batches, m, id)
    BY <2>3 DEF BearsBack
  <2>8. GoneFits(batches, Append(adapterQ, m), Tail(apiQ), hwIdOf)
    BY <2>1, <2>2, <2>7, OutGone DEF NamesFit
  <2>9. NamedAreKept'
    BY <2>2 DEF NamesFit, NamedAreKept
  <2> QED BY <2>2, <2>6, <2>8, <2>9 DEF NamesFit
<1> QED BY <1>1, <1>2, <1>3, <1>4 DEF ApiThread

\* A request that strayed, strayed.
LEMMA StaysStray == Types /\ strayed /\ [Next]_vars => strayed'
<1> SUFFICES ASSUME Types, strayed, [Next]_vars PROVE strayed'
  OBVIOUS
<1>1. CASE UNCHANGED vars
  BY <1>1 DEF vars, engineSide
<1>2. CASE AddGeofences \/ OtherCommand \/ RemoveClient \/ EngineCrash \/ Breach
  BY <1>2 DEF AddGeofences, OtherCommand, RemoveClient, EngineCrash, Breach, Command, engineSide
<1>3. CASE AdapterThread
  BY <1>3 DEF AdapterThread, HandleCommand, HandleTurn, HandleAnswer, HandleRemoveClient, HandleGone,
              HandleEngineUp, HandleRestored, HandleBreach, engineSide
<1>4. CASE ApiThread
  BY <1>4 DEF ApiThread, ReturnTurn, Serve, Fail, Reopen
<1> QED BY <1>1, <1>2, <1>3, <1>4 DEF Next

LEMMA NextNamesFit == Sound /\ (strayed \/ NamesFit) /\ [Next]_vars => (strayed \/ NamesFit)'
<1> SUFFICES ASSUME Sound, strayed \/ NamesFit, [Next]_vars, ~strayed' PROVE NamesFit'
  OBVIOUS
<1>1. Types /\ Lives /\ KnownIds /\ Unique /\ NamesFit
  BY StaysStray DEF Sound
<1>2. CASE UNCHANGED vars
  BY <1>1, <1>2 DEF vars, maps, engineSide, NamesFit, NamedAreKept, EngineHasNamed, NumbersAreFree
<1>3. CASE AdapterThread
  BY <1>1, <1>3, HandleCommandFits, HandleTurnFits, HandleAnswerFits, HandleRemoveClientFits,
     HandleGoneFits, HandleEngineUpFits, HandleRestoredFits, HandleBreachFits DEF AdapterThread
<1> QED BY <1>1, <1>2, <1>3, CallsFit, ApiThreadFits DEF Next

LEMMA InitNamesFit == Init => NamesFit
<1> SUFFICES ASSUME Init PROVE NamesFit
  OBVIOUS
<1>1. /\ hwIdOf = [id \in Ids |-> 0] /\ adapterQ = <<>> /\ apiQ = <<>>
      /\ Len(adapterQ) = 0 /\ Len(apiQ) = 0
  BY DEF Init
<1>2. \A id \in Ids, h \in HwIds : ~WillName(adapterQ, Len(adapterQ), hwIdOf, id, h)
  BY <1>1, Numbers DEF WillName, Last
<1> QED BY <1>1, <1>2 DEF NamesFit, NamedAreKept, EngineHasNamed, NumbersAreFree, GoneFits

\* While no request met the fence of another, the maps of fences and of their numbers agree: a
\* fence that can be named is kept under its number, and under no other.
THEOREM GeofenceMapsAgree == Spec => []MapsAgree
<1>1. Sound /\ (strayed \/ NamesFit) => MapsAgree
  <2> SUFFICES ASSUME Sound, NamesFit PROVE NamedAreKept /\ KeptOnce
    BY DEF MapsAgree
  <2>1. Types /\ KnownIds /\ Unique /\ NamedAreKept
    BY DEF Sound, NamesFit
  <2> SUFFICES ASSUME NEW h1 \in HwIds, NEW h2 \in HwIds, fences[h1] # NoFence, fences[h1].id = fences[h2].id
               PROVE  h1 = h2
    BY <2>1 DEF KeptOnce
  <2>2. fences[h1].id \in Ids
    BY <2>1, KnownNumbers DEF KnownIds
  <2> QED BY <2>1, <2>2, OnceKept
<1>2. Init => strayed \/ NamesFit
  BY InitNamesFit
<1> QED BY <1>1, <1>2, InitSound, NextSound, NextNamesFit, PTL DEF Spec
=============================================================================
