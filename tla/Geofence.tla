------------------------------ MODULE Geofence ------------------------------
(***************************************************************************)
(* GeofenceAdapter: clients add, remove, pause, resume and modify lists of *)
(* fences.  The handler of a command sends each item through the API       *)
(* thread and back before it looks the fence up and asks the engine; the   *)
(* collective response is sent when the last item is done.  After a        *)
(* restart of the engine the adapter adds all its fences again.            *)
(*                                                                         *)
(* The engine and the queue of its thread are external (LocApiBase only    *)
(* declares the requests): it serves requests in order, names a fence by a *)
(* hardware id that is free at the time, and answers every request.  It is *)
(* not locked (getEngineLockState says ENGINE_LOCK_STATE_ENABLED).         *)
(***************************************************************************)
EXTENDS Naturals, Sequences, FiniteSets

CONSTANTS
    Clients,       \* LocationAPI objects, registered at first
    AddOptions,    \* GeofenceOptions a client gives when it adds a fence
    ModifyOptions, \* ... and when it modifies one
    NoOptions,     \* a client gave none
    Nobody,        \* no client, no fence
    MaxFences,     \* ids that are handed out, and hardware ids of the engine
    MaxItems,      \* bounds the items of a command
    MaxCalls,      \* bounds the commands
    MaxWaiting,    \* bounds the messages waiting when a client calls
    MaxBreaches,   \* bounds the reports of the engine
    MaxFaults,     \* bounds what a running engine refuses, and its crashes
    MaxCrashes     \* bounds the crashes alone

ASSUME GeofenceAssumption ==
    /\ Nobody \notin Clients
    /\ {MaxFences, MaxItems, MaxCalls, MaxWaiting, MaxBreaches, MaxFaults, MaxCrashes}
           \subseteq Nat

VARIABLES
    fences,        \* mGeofences: the fence of a hardware id
    hwIdOf,        \* mGeofenceIds: the hardware id of a fence, 0 if it has none
    clients,       \* mClientData
    owner,         \* whose the ids handed out are
    batches,       \* commands: their ids and errors, until the response
    adapterQ,      \* messages to the adapter thread
    apiQ,          \* messages to the API thread
    engine,        \* the engine: is it up, and its fences
    answered,      \* per id, what the engine last agreed to
    strayed,       \* did a request meet the fence of another id
    used           \* calls, breaches, refusals and crashes so far

maps == <<fences, hwIdOf>>
engineSide == <<apiQ, engine, strayed>>
vars == <<maps, clients, owner, batches, adapterQ, engineSide, answered, used>>

Ids == 1..MaxFences
HwIds == 1..MaxFences
Commands == {"add", "remove", "pause", "resume", "modify"}
Errors == {"none", "success", "failure", "unknown"}

Options == (AddOptions \cup ModifyOptions) \ {NoOptions}

\* A fence as the adapter and as the engine keep it: its id and, if it is not
\* paused, its options at work.
Fence == [id : Ids, opt : Options, paused : BOOLEAN]
NoFence == [id |-> 0, opt |-> NoOptions, paused |-> FALSE]

\* What is to be done with the answer of the engine: it is for an item of a
\* command, for a fence restored, for a fence of a client that left, or for nobody.
ForItem(b, i) == [for |-> "item", batch |-> b, item |-> i, fence |-> NoFence]
ForRestore(fence) == [for |-> "restore", batch |-> 0, item |-> 0, fence |-> fence]
ForGone == [for |-> "gone", batch |-> 0, item |-> 0, fence |-> NoFence]
ForNobody == [for |-> "nobody", batch |-> 0, item |-> 0, fence |-> NoFence]

Request(op, hwId, id, opt, then) ==
    [op |-> op, hwId |-> hwId, id |-> id, opt |-> opt, then |-> then]

\* The order in which a map is gone through.
Ascending(numbers) ==
    [k \in 1..Cardinality(numbers) |->
        CHOOSE n \in numbers : Cardinality({m \in numbers : m < n}) = k - 1]

Init ==
    /\ fences = [h \in HwIds |-> NoFence]
    /\ hwIdOf = [id \in Ids |-> 0]
    /\ clients = Clients
    /\ owner = <<>>
    /\ batches = <<>>
    /\ adapterQ = <<>>
    /\ apiQ = <<>>
    /\ engine = [up |-> TRUE, fences |-> [h \in HwIds |-> NoFence]]
    /\ answered = [id \in Ids |-> "removed"]
    /\ strayed = FALSE
    /\ used = [calls |-> 0, breaches |-> 0, refusals |-> 0, crashes |-> 0]

-----------------------------------------------------------------------------
(* Calls of clients.                                                       *)

\* A client that is not being removed calls.
Calls(c) ==
    /\ used.calls < MaxCalls
    /\ Len(adapterQ) < MaxWaiting
    /\ c \in clients
    /\ \A k \in 1..Len(adapterQ) : adapterQ[k] # [type |-> "removeClient", client |-> c]
    /\ used' = [used EXCEPT !.calls = @ + 1]

Command(op, c, ids, opt) ==
    /\ Calls(c)
    /\ batches' = Append(batches, [op |-> op, client |-> c, ids |-> ids, opt |-> opt,
                                   errs |-> [i \in 1..Len(ids) |-> "none"],
                                   reported |-> FALSE])
    /\ adapterQ' = Append(adapterQ, [type |-> "command", batch |-> Len(batches) + 1])
    /\ UNCHANGED <<maps, clients, engineSide, answered>>

\* Fresh ids are generated on the caller's thread.
AddGeofences ==
    \E c \in Clients, n \in 1..MaxItems, opt \in AddOptions :
        /\ Len(owner) + n <= MaxFences
        /\ owner' = owner \o [i \in 1..n |-> c]
        /\ Command("add", c, [i \in 1..n |-> Len(owner) + i], opt)

\* A client names ids it was given, in their order, whether they still mean a
\* fence or not.
OwnIds(c) == {id \in 1..Len(owner) : owner[id] = c}

OtherCommand ==
    \E c \in Clients, op \in Commands \ {"add"} :
        \E n \in 1..MaxItems, opt \in IF op = "modify" THEN ModifyOptions ELSE {NoOptions} :
            \E ids \in [1..n -> OwnIds(c)] :
                /\ \A i, j \in 1..n : i < j => ids[i] < ids[j]
                /\ Command(op, c, ids, opt)
                /\ UNCHANGED owner

\* LocationAPI::destroy of a client; its commands may be on their way.
RemoveClient ==
    \E c \in clients :
        /\ Calls(c)
        /\ adapterQ' = Append(adapterQ, [type |-> "removeClient", client |-> c])
        /\ UNCHANGED <<maps, clients, owner, batches, engineSide, answered>>

-----------------------------------------------------------------------------
(* The adapter thread.                                                     *)

Take(type) == adapterQ # <<>> /\ Head(adapterQ).type = type
TakeAnswer(purpose) == Take("answer") /\ Head(adapterQ).to.then.for = purpose

Turn(b, i) == [op |-> "turn", batch |-> b, item |-> i]

\* Without options every item is an error that nobody reports.
Acceptable(batch) == batch.op \in {"add", "modify"} => batch.opt # NoOptions

HandleCommand ==
    /\ Take("command")
    /\ LET b == Head(adapterQ).batch
       IN  apiQ' = IF Acceptable(batches[b])
                   THEN apiQ \o [i \in 1..Len(batches[b].ids) |-> Turn(b, i)]
                   ELSE apiQ
    /\ adapterQ' = Tail(adapterQ)
    /\ UNCHANGED <<maps, clients, owner, batches, engine, strayed, answered, used>>

IsLast(b, i) == i = Len(batches[b].ids)

Noted(b, i, err) == [batches EXCEPT ![b].errs[i] = err]

\* What is left of a command once its arrays are deleted.
Deleted == [op |-> "deleted", client |-> Nobody, ids |-> <<>>, opt |-> NoOptions,
            errs |-> <<>>, reported |-> TRUE]

\* Mutant: an item whose fence is unknown does not end the command.
FinishedIfKnown(b, i, err) ==
    IF batches[b].reported THEN batches
    ELSE IF IsLast(b, i) /\ err # "unknown" THEN [batches EXCEPT ![b] = Deleted]
    ELSE Noted(b, i, err)

\* The error of an item, and with the last one the response and the end of the
\* arrays: an answer for another item that comes later is written to freed memory.
Finished(b, i, err) ==
    IF batches[b].reported THEN batches
    ELSE IF IsLast(b, i) THEN [batches EXCEPT ![b] = Deleted]
    ELSE Noted(b, i, err)

\* The item comes back from the API thread: only now its fence is looked up.
\* A lookup that succeeds already counts as a success.
HandleTurn ==
    /\ Take("turn")
    /\ LET b == Head(adapterQ).batch
           i == Head(adapterQ).item
           batch == batches[b]
           id == batch.ids[i]
       IN  \/ /\ batch.op = "add"
              /\ apiQ' = Append(apiQ, Request("add", 0, id, batch.opt, ForItem(b, i)))
              /\ UNCHANGED batches
           \/ /\ batch.op # "add"
              /\ hwIdOf[id] # 0
              /\ apiQ' = Append(apiQ, Request(batch.op, hwIdOf[id], id, batch.opt, ForItem(b, i)))
              /\ batches' = Noted(b, i, "success")
           \/ /\ batch.op # "add"
              /\ hwIdOf[id] = 0
              /\ batches' = Finished(b, i, "unknown")
              /\ UNCHANGED apiQ
    /\ adapterQ' = Tail(adapterQ)
    /\ UNCHANGED <<maps, clients, owner, engine, strayed, answered, used>>

SaveItem(id, hwId, opt) ==
    /\ fences' = [fences EXCEPT ![hwId] = [id |-> id, opt |-> opt, paused |-> FALSE]]
    /\ hwIdOf' = [hwIdOf EXCEPT ![id] = hwId]

\* removeGeofenceItem: needs both maps.
RemoveItem(hwId) ==
    IF fences[hwId] # NoFence /\ hwIdOf[fences[hwId].id] # 0
    THEN /\ fences' = [fences EXCEPT ![hwId] = NoFence]
         /\ hwIdOf' = [hwIdOf EXCEPT ![fences[hwId].id] = 0]
    ELSE UNCHANGED maps

ChangeItem(hwId, fence) ==
    /\ fences' = IF fences[hwId] # NoFence THEN [fences EXCEPT ![hwId] = fence] ELSE fences
    /\ UNCHANGED hwIdOf

\* What the engine agreed to, done in the maps.
Done(m, h) ==
    CASE m.op = "add" -> SaveItem(m.id, h, m.opt)
      [] m.op = "remove" -> RemoveItem(h)
      [] m.op = "pause" -> ChangeItem(h, [fences[h] EXCEPT !.paused = TRUE])
      [] m.op = "resume" -> ChangeItem(h, [fences[h] EXCEPT !.paused = FALSE])
      [] m.op = "modify" -> ChangeItem(h, [fences[h] EXCEPT !.opt = m.opt])

Applied(m, ok, h) == IF ok THEN Done(m, h) ELSE UNCHANGED maps

Agreed(op) ==
    CASE op = "pause" -> "paused" [] op = "remove" -> "removed" [] OTHER -> "running"

\* A refused resume is neither noted nor reported, a refused modification is
\* reported with what was noted before.
HandleAnswer ==
    /\ TakeAnswer("item")
    /\ LET m == Head(adapterQ).to
           ok == Head(adapterQ).ok
           b == m.then.batch
           i == m.then.item
       IN  /\ Applied(m, ok, Head(adapterQ).hwId)
           /\ batches' =
                  IF ~ok /\ m.op = "resume" THEN batches
                  ELSE Finished(b, i, IF ok \/ m.op = "modify" THEN "success" ELSE "failure")
           /\ answered' = IF ok /\ m.op # "modify"
                          THEN [answered EXCEPT ![m.id] = Agreed(m.op)] ELSE answered
    /\ adapterQ' = Tail(adapterQ)
    /\ UNCHANGED <<clients, owner, engineSide, used>>

\* stopClientSessions and eraseClient
HandleRemoveClient ==
    /\ Take("removeClient")
    /\ LET c == Head(adapterQ).client
           mine == {id \in OwnIds(c) : hwIdOf[id] # 0}
       IN  /\ hwIdOf' = [id \in Ids |-> IF id \in mine THEN 0 ELSE hwIdOf[id]]
           /\ apiQ' = apiQ \o [k \in 1..Cardinality(mine) |->
                  LET id == Ascending(mine)[k]
                  IN  Request("remove", hwIdOf[id], id, NoOptions, ForGone)]
           /\ clients' = clients \ {c}
    /\ adapterQ' = Tail(adapterQ)
    /\ UNCHANGED <<fences, owner, batches, engine, strayed, answered, used>>

HandleGone ==
    /\ TakeAnswer("gone")
    /\ LET m == Head(adapterQ)
       IN  fences' = IF m.ok THEN [fences EXCEPT ![m.hwId] = NoFence] ELSE fences
    /\ adapterQ' = Tail(adapterQ)
    /\ UNCHANGED <<hwIdOf, clients, owner, batches, engineSide, answered, used>>

\* Mutant: the fences are kept while they are added again.
StartOverKeeping(none) == fences

StartOver(none) == [h \in HwIds |-> none]

\* MsgSSREvent: restartGeofences.  Both maps start empty, and each fence comes back
\* with the answer of the engine.
HandleEngineUp ==
    /\ Take("engineUp")
    /\ LET old == Ascending({h \in HwIds : fences[h] # NoFence})
       IN  apiQ' = apiQ \o [k \in 1..Len(old) |->
               Request("add", 0, fences[old[k]].id, fences[old[k]].opt, ForRestore(fences[old[k]]))]
    /\ fences' = StartOver(NoFence)
    /\ hwIdOf' = IF \E h \in HwIds : fences[h] # NoFence THEN [id \in Ids |-> 0] ELSE hwIdOf
    /\ adapterQ' = Tail(adapterQ)
    /\ UNCHANGED <<clients, owner, batches, engine, strayed, answered, used>>

\* Mutant: a fence comes back without its pause.
RestoredRunning(fence, hwId) == apiQ

Restored(fence, hwId) ==
    IF fence.paused THEN Append(apiQ, Request("pause", hwId, fence.id, NoOptions, ForNobody))
    ELSE apiQ

HandleRestored ==
    /\ TakeAnswer("restore")
    /\ LET m == Head(adapterQ)
           fence == m.to.then.fence
       IN  IF m.ok
           THEN SaveItem(fence.id, m.hwId, fence.opt) /\ apiQ' = Restored(fence, m.hwId)
           ELSE UNCHANGED <<maps, apiQ>>
    /\ adapterQ' = Tail(adapterQ)
    /\ UNCHANGED <<clients, owner, batches, engine, strayed, answered, used>>

\* Mutant: each client is told of all its fences.
NotifiedAll(hwIds) == {id \in OwnIds(owner[1]) : hwIdOf[id] # 0}

\* geofenceBreach: each client is told of its own fences among the hardware ids.
Notified(hwIds) ==
    {id \in {fences[h].id : h \in {h \in hwIds : fences[h] # NoFence}} : owner[id] \in clients}

HandleBreach ==
    /\ Take("breach")
    /\ adapterQ' = Tail(adapterQ)
    /\ UNCHANGED <<maps, clients, owner, batches, engineSide, answered, used>>

AdapterThread ==
    \/ HandleCommand \/ HandleTurn \/ HandleAnswer \/ HandleRemoveClient \/ HandleGone
    \/ HandleEngineUp \/ HandleRestored \/ HandleBreach

-----------------------------------------------------------------------------
(* The API thread and the engine.                                          *)

\* An answer that nobody waits for changes nothing.
Answer(m, ok, hwId) ==
    IF m.then.for = "nobody" THEN adapterQ
    ELSE Append(adapterQ, [type |-> "answer", ok |-> ok, hwId |-> hwId, to |-> m])

\* A call that only comes back.
ReturnTurn ==
    /\ apiQ # <<>> /\ Head(apiQ).op = "turn"
    /\ adapterQ' = Append(adapterQ, [type |-> "turn", batch |-> Head(apiQ).batch,
                                     item |-> Head(apiQ).item])
    /\ apiQ' = Tail(apiQ)
    /\ UNCHANGED <<maps, clients, owner, batches, engine, strayed, answered, used>>

Held(h) == engine.fences[h] # NoFence

Free == {h \in HwIds : ~Held(h)}

\* The engine's own part of a request that it agrees to.
Served(m, hwId) ==
    CASE m.op = "add" -> [id |-> m.id, opt |-> m.opt, paused |-> FALSE]
      [] m.op = "remove" -> NoFence
      [] m.op = "pause" -> [engine.fences[hwId] EXCEPT !.paused = TRUE]
      [] m.op = "resume" -> [engine.fences[hwId] EXCEPT !.paused = FALSE]
      [] m.op = "modify" -> [engine.fences[hwId] EXCEPT !.opt = m.opt]

Serve ==
    /\ apiQ # <<>> /\ Head(apiQ).op \in Commands
    /\ engine.up
    /\ LET m == Head(apiQ)
       IN  \E hwId \in IF m.op = "add" THEN Free ELSE {h \in {m.hwId} : Held(h)} :
               /\ engine' = [engine EXCEPT !.fences[hwId] = Served(m, hwId)]
               /\ strayed' = (strayed \/ (m.op # "add" /\ engine.fences[hwId].id # m.id))
               /\ adapterQ' = Answer(m, TRUE, hwId)
    /\ apiQ' = Tail(apiQ)
    /\ UNCHANGED <<maps, clients, owner, batches, answered, used>>

\* A request fails for an engine that is down, or for a fence that it does not have.
MustFail(m) == ~engine.up \/ (IF m.op = "add" THEN Free = {} ELSE ~Held(m.hwId))

Fail ==
    /\ apiQ # <<>> /\ Head(apiQ).op \in Commands
    /\ LET m == Head(apiQ)
       IN  /\ \/ MustFail(m) /\ UNCHANGED used
              \/ /\ ~MustFail(m)
                 /\ used.refusals + used.crashes < MaxFaults
                 /\ used' = [used EXCEPT !.refusals = @ + 1]
           /\ adapterQ' = Answer(m, FALSE, m.hwId)
    /\ apiQ' = Tail(apiQ)
    /\ UNCHANGED <<maps, clients, owner, batches, engine, strayed, answered>>

\* LocSsrMsg: the engine is opened again, and the adapters are told.
Reopen ==
    /\ apiQ # <<>> /\ Head(apiQ).op = "ssr"
    /\ engine' = [engine EXCEPT !.up = TRUE]
    /\ adapterQ' = Append(adapterQ, [type |-> "engineUp"])
    /\ apiQ' = Tail(apiQ)
    /\ UNCHANGED <<maps, clients, owner, batches, strayed, answered, used>>

ApiThread == ReturnTurn \/ Serve \/ Fail \/ Reopen

EngineCrash ==
    /\ engine.up
    /\ used.crashes < MaxCrashes
    /\ used.refusals + used.crashes < MaxFaults
    /\ engine' = [up |-> FALSE, fences |-> [h \in HwIds |-> NoFence]]
    /\ apiQ' = Append(apiQ, [op |-> "ssr"])
    /\ used' = [used EXCEPT !.crashes = @ + 1]
    /\ UNCHANGED <<maps, clients, owner, batches, adapterQ, strayed, answered>>

\* The engine reports breaches; of names, for the properties, the fences it means.
Breach ==
    /\ used.breaches < MaxBreaches
    /\ \E hwIds \in (SUBSET {h \in HwIds : Held(h) /\ ~engine.fences[h].paused}) \ {{}} :
        adapterQ' = Append(adapterQ, [type |-> "breach", hwIds |-> hwIds,
                                      of |-> {engine.fences[h].id : h \in hwIds}])
    /\ used' = [used EXCEPT !.breaches = @ + 1]
    /\ UNCHANGED <<maps, clients, owner, batches, engineSide, answered>>

-----------------------------------------------------------------------------
Next ==
    \/ AddGeofences \/ OtherCommand \/ RemoveClient
    \/ AdapterThread \/ ApiThread \/ EngineCrash \/ Breach

Spec == Init /\ [][Next]_vars

-----------------------------------------------------------------------------
Thens ==
    [for : {"item", "restore", "gone", "nobody"}, batch : 0..MaxCalls, item : 0..MaxItems,
     fence : Fence \cup {NoFence}]

\* The maps hold fences and ids of the engine, and every command is one of those above.
TypeOK ==
    /\ fences \in [HwIds -> Fence \cup {NoFence}]
    /\ hwIdOf \in [Ids -> {0} \cup HwIds]
    /\ clients \subseteq Clients
    /\ owner \in Seq(Clients) /\ Len(owner) <= MaxFences
    /\ \A b \in 1..Len(batches) :
           /\ batches[b].op \in Commands \cup {"deleted"}
           /\ batches[b].client \in Clients \cup {Nobody}
           /\ batches[b].ids \in Seq(Ids)
           /\ batches[b].errs \in [1..Len(batches[b].ids) -> Errors]
    /\ \A k \in 1..Len(adapterQ) : adapterQ[k].type = "answer" => adapterQ[k].to.then \in Thens
    /\ \A k \in 1..Len(apiQ) : apiQ[k].op \in Commands \cup {"turn", "ssr"}
    /\ engine \in [up : BOOLEAN, fences : [HwIds -> Fence \cup {NoFence}]]
    /\ answered \in [Ids -> {"running", "paused", "removed"}]
    /\ strayed \in BOOLEAN

\* A fence that a client can name is kept under the hardware id that the
\* client's requests are sent with, whatever restarts and departures cross.
NamedAreKept == \A id \in Ids : hwIdOf[id] # 0 => fences[hwIdOf[id]].id = id

\* No two hardware ids are kept for one fence: a breach would be told twice, and a
\* restart would add the fence twice.
KeptOnce ==
    \A h1, h2 \in HwIds : fences[h1] # NoFence /\ fences[h1].id = fences[h2].id => h1 = h2

\* The two maps of GeofenceAdapter agree (mGeofences, mGeofenceIds), until the engine gives
\* the number of a removed fence to another one while a command for the old one is
\* under way.
MapsAgree == ~strayed => NamedAreKept /\ KeptOnce

AtRest == adapterQ = <<>> /\ apiQ = <<>>

Alive(fence) == fence # NoFence /\ owner[fence.id] \in clients

\* At rest the engine watches the fences that the adapter keeps for the clients
\* that are still there, with the options and under the ids it keeps them:
\* breaches can be told, and a restart restores them.
KeptAreWatched ==
    \A h \in HwIds :
        Alive(fences[h]) \/ Alive(engine.fences[h]) =>
            /\ engine.fences[h].id = fences[h].id
            /\ engine.fences[h].opt = fences[h].opt

Undisturbed ==
    /\ ~strayed
    /\ used.crashes <= 1
    /\ used.crashes = 0 \/ used.refusals = 0

\* At rest every fence of a client that is still there is watched, paused or gone as
\* the engine last agreed, also after a restart.
AnswersHold ==
    \A id \in 1..Len(owner) :
        owner[id] \in clients =>
            /\ answered[id] = "removed" <=> hwIdOf[id] = 0
            /\ hwIdOf[id] # 0 =>
                   engine.fences[hwIdOf[id]].paused = (answered[id] = "paused")

\* At rest the engine watches what mGeofences holds and, unless something is excepted, runs
\* or pauses each fence as its client was told (GeofenceAdapter.cpp:212-260, 600-760).
EngineAgrees == AtRest => KeptAreWatched /\ (Undisturbed => AnswersHold)

\* A client is told of a breach only of a fence that the engine meant, whatever the
\* numbers of fences were given to between the breach and its handling.
BreachIsOwn ==
    [][HandleBreach => Notified(Head(adapterQ).hwIds) \subseteq Head(adapterQ).of]_vars

\* At rest every command was answered, unless it lacked its options or asked to
\* resume, which the engine may refuse.
CommandsAnswered ==
    AtRest => \A b \in 1..Len(batches) :
        Acceptable(batches[b]) /\ batches[b].op # "resume" => batches[b].reported
=============================================================================
