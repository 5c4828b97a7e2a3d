----------------------- MODULE GeofenceEngine_proofs ------------------------
(***************************************************************************)
(* EngineAgrees of Geofence, for any number of clients, fences, commands,  *)
(* refusals and crashes: when nothing is under way the engine watches the  *)
(* fences that the adapter keeps, under the same numbers and with the same *)
(* options, and what clients were answered is what is so.                  *)
(***************************************************************************)
EXTENDS Geofence_proofs

-----------------------------------------------------------------------------
(* What the engine has, the adapter will keep: with the invariant Mirror, at *)
(* rest both have the same fences, also if requests strayed.                 *)

\* The last message of B in a queue comes after every other one of S; if it has none, what is
\* so now is so then.
Latest(aq, B, S) ==
    \E j \in 1..Len(aq) : aq[j] \in B /\ \A l \in 1..Len(aq) : j < l => aq[l] \notin S
Unsaid(aq, S) == \A l \in 1..Len(aq) : aq[l] \notin S
Will(aq, B, S, now) == Latest(aq, B, S) \/ (Unsaid(aq, S) /\ now)

LEMMA WillTaken ==
    ASSUME NEW A, NEW aq \in Seq(A), aq # <<>>, NEW B, NEW S, NEW now, NEW then,
           now \in BOOLEAN, then \in BOOLEAN, Will(aq, B, S, now),
           Unsaid(Tail(aq), S) =>
               (Head(aq) \in B => then) /\ (Head(aq) \notin S /\ now => then)
    PROVE  Will(Tail(aq), B, S, then)
<1>1. /\ Head(aq) = aq[1] /\ Len(aq) \in Nat \ {0} /\ Len(Tail(aq)) = Len(aq) - 1
      /\ \A j \in 1..Len(Tail(aq)) : j + 1 \in 1..Len(aq) /\ Tail(aq)[j] = aq[j + 1]
  BY Shortened
<1>2. CASE Unsaid(aq, S) /\ now
  <2>1. Unsaid(Tail(aq), S)
    BY <1>1, <1>2 DEF Unsaid
  <2>2. 1 \in 1..Len(aq)
    BY <1>1
  <2>3. Head(aq) \notin S
    BY <1>1, <1>2, <2>2 DEF Unsaid
  <2> QED BY <1>2, <2>1, <2>3 DEF Will
<1>3. CASE Latest(aq, B, S)
  <2>1. PICK j \in 1..Len(aq) : aq[j] \in B /\ \A l \in 1..Len(aq) : j < l => aq[l] \notin S
    BY <1>3 DEF Latest
  <2>2. CASE j = 1
    <3>1. \A l \in 1..Len(Tail(aq)) : 1 < l + 1
      OBVIOUS
    <3>2. Unsaid(Tail(aq), S)
      BY <1>1, <2>1, <2>2, <3>1 DEF Unsaid
    <3> QED BY <1>1, <2>1, <2>2, <3>2 DEF Will
  <2>3. CASE j # 1
    <3>1. j - 1 \in 1..Len(Tail(aq)) /\ (j - 1) + 1 = j
      BY <1>1, <2>3
    <3>2. Tail(aq)[j - 1] \in B
      BY <1>1, <2>1, <3>1
    <3>3. \A l \in 1..Len(Tail(aq)) : j - 1 < l => Tail(aq)[l] \notin S
      <4> SUFFICES ASSUME NEW l \in 1..Len(Tail(aq)), j - 1 < l PROVE Tail(aq)[l] \notin S
        OBVIOUS
      <4>1. l + 1 \in 1..Len(aq) /\ j < l + 1 /\ Tail(aq)[l] = aq[l + 1]
        BY <1>1, <3>1
      <4> QED BY <2>1, <4>1
    <3> QED BY <3>1, <3>2, <3>3 DEF Will, Latest
  <2> QED BY <2>2, <2>3
<1> QED BY <1>2, <1>3 DEF Will

LEMMA WillAdded ==
    ASSUME NEW A, NEW aq \in Seq(A), NEW m \in A, NEW B, NEW S, NEW now, now \in BOOLEAN,
           m \in B \/ (m \notin S /\ Will(aq, B, S, now))
    PROVE  Will(Append(aq, m), B, S, now)
<1> DEFINE q == Append(aq, m)
<1>1. /\ Len(q) = Len(aq) + 1 /\ Len(aq) \in Nat
      /\ \A k \in 1..Len(aq) : q[k] = aq[k]
      /\ q[Len(aq) + 1] = m
  BY Appended
<1> HIDE DEF q
<1>2. Len(q) \in 1..Len(q) /\ \A l \in 1..Len(q) : l \in 1..Len(aq) \/ l = Len(q)
  BY <1>1
<1>3. CASE m \in B
  <2>1. q[Len(q)] \in B
    BY <1>1, <1>3
  <2>2. \A l \in 1..Len(q) : ~(Len(q) < l)
    BY <1>1
  <2> QED BY <1>2, <2>1, <2>2 DEF Will, Latest, q
<1>4. CASE m \notin S /\ Latest(aq, B, S)
  <2>1. PICK j \in 1..Len(aq) : aq[j] \in B /\ \A l \in 1..Len(aq) : j < l => aq[l] \notin S
    BY <1>4 DEF Latest
  <2>2. j \in 1..Len(q) /\ q[j] \in B
    BY <1>1, <2>1
  <2>3. \A l \in 1..Len(q) : j < l => q[l] \notin S
    BY <1>1, <1>2, <1>4, <2>1
  <2> QED BY <2>2, <2>3 DEF Will, Latest, q
<1>5. CASE m \notin S /\ Unsaid(aq, S) /\ now
  <2>1. Unsaid(q, S)
    BY <1>1, <1>2, <1>5 DEF Unsaid
  <2> QED BY <1>5, <2>1 DEF Will, q
<1> QED BY <1>3, <1>4, <1>5 DEF Will

\* With nothing under way, it is so now.
LEMMA WillNow ==
    ASSUME NEW B, NEW S, NEW now, Will(<<>>, B, S, now)
    PROVE  now
BY DEF Will, Latest

LEMMA UnsaidTaken ==
    ASSUME NEW A, NEW aq \in Seq(A), aq # <<>>, NEW S, Unsaid(aq, S)
    PROVE  Unsaid(Tail(aq), S) /\ Head(aq) \notin S
<1>1. /\ Head(aq) = aq[1] /\ 1 \in 1..Len(aq)
      /\ \A j \in 1..Len(Tail(aq)) : j + 1 \in 1..Len(aq) /\ Tail(aq)[j] = aq[j + 1]
  BY Shortened
<1> QED BY <1>1 DEF Unsaid

LEMMA UnsaidAdded ==
    ASSUME NEW A, NEW aq \in Seq(A), NEW m \in A, NEW S, Unsaid(aq, S), m \notin S
    PROVE  Unsaid(Append(aq, m), S)
<1>1. /\ Len(Append(aq, m)) = Len(aq) + 1 /\ Len(aq) \in Nat
      /\ \A k \in 1..Len(aq) : Append(aq, m)[k] = aq[k]
      /\ Append(aq, m)[Len(aq) + 1] = m
  BY Appended
<1>2. \A l \in 1..Len(Append(aq, m)) : l \in 1..Len(aq) \/ l = Len(aq) + 1
  BY <1>1
<1> QED BY <1>1, <1>2 DEF Unsaid

\* A message is taken, and what it brings or leaves is kept.
LEMMA KeepTaken ==
    ASSUME Types, adapterQ # <<>>, adapterQ' = Tail(adapterQ), NEW h, NEW id,
           Brings(Head(adapterQ), h, id) \/ (~Speaks(Head(adapterQ), h) /\ fences[h].id = id)
               => fences'[h].id = id,
           NEW k \in 0..Len(Tail(adapterQ)), WillKeep(adapterQ, k + 1, fences, h, id)
    PROVE  WillKeep(adapterQ', k, fences', h, id)
<1> DEFINE aq == adapterQ
<1>1. /\ Head(aq) = aq[1] /\ Len(aq) \in Nat \ {0} /\ Len(Tail(aq)) = Len(aq) - 1
      /\ \A j \in 1..Len(Tail(aq)) : j + 1 \in 1..Len(aq) /\ Tail(aq)[j] = aq[j + 1]
  BY Shortened DEF Types
<1>2. k \in Nat /\ 1 \in 1..(k + 1)
      /\ \A l \in 1..k : l \in 1..Len(Tail(aq)) /\ l + 1 \in 1..(k + 1) /\ Tail(aq)[l] = aq[l + 1] /\ 1 < l + 1
  BY <1>1
<1>3. WillKeep(aq, k + 1, fences, h, id) /\ adapterQ' = Tail(aq)
      /\ (Brings(aq[1], h, id) \/ (~Speaks(aq[1], h) /\ fences[h].id = id) => fences'[h].id = id)
  BY <1>1
<1> HIDE DEF aq
<1>4. CASE Silent(aq, k + 1, h) /\ fences[h].id = id
  <2>1. Silent(Tail(aq), k, h) /\ ~Speaks(aq[1], h)
    BY <1>2, <1>4 DEF Silent
  <2> QED BY <1>3, <1>4, <2>1 DEF WillKeep
<1>5. CASE Last(aq, k + 1, h, id)
  <2>1. PICK j \in 1..(k + 1) : Brings(aq[j], h, id) /\ \A l \in 1..(k + 1) : j < l => ~Speaks(aq[l], h)
    BY <1>5 DEF Last
  <2>2. CASE j = 1
    <3>1. Silent(Tail(aq), k, h)
      BY <1>2, <2>1, <2>2 DEF Silent
    <3> QED BY <1>3, <2>1, <2>2, <3>1 DEF WillKeep
  <2>3. CASE j # 1
    <3>1. j - 1 \in 1..k /\ (j - 1) + 1 = j
      BY <1>2, <2>3
    <3>2. Brings(Tail(aq)[j - 1], h, id)
      BY <1>2, <2>1, <3>1
    <3>3. \A l \in 1..k : j - 1 < l => ~Speaks(Tail(aq)[l], h)
      <4> SUFFICES ASSUME NEW l \in 1..k, j - 1 < l PROVE ~Speaks(Tail(aq)[l], h)
        OBVIOUS
      <4>1. l + 1 \in 1..(k + 1) /\ j < l + 1 /\ Tail(aq)[l] = aq[l + 1]
        BY <1>2, <3>1
      <4> QED BY <2>1, <4>1
    <3> QED BY <1>3, <3>1, <3>2, <3>3 DEF WillKeep, Last
  <2> QED BY <2>2, <2>3
<1> QED BY <1>3, <1>4, <1>5 DEF WillKeep

\* A message is added.
LEMMA KeepAdded ==
    ASSUME Types, NEW m \in AdapterMessages, adapterQ' = Append(adapterQ, m), UNCHANGED fences,
           NEW h, NEW id
    PROVE  /\ \A k \in 0..Len(adapterQ) :
                 WillKeep(adapterQ, k, fences, h, id) => WillKeep(adapterQ', k, fences', h, id)
           /\ Brings(m, h, id) \/ (~Speaks(m, h) /\ WillKeep(adapterQ, Len(adapterQ), fences, h, id))
                  => WillKeep(adapterQ', Len(adapterQ'), fences', h, id)
<1>1. adapterQ \in Seq(AdapterMessages)
  BY DEF Types
<1>2. /\ Len(adapterQ') = Len(adapterQ) + 1 /\ Len(adapterQ) \in Nat
      /\ \A k \in 1..Len(adapterQ) : adapterQ'[k] = adapterQ[k]
      /\ adapterQ'[Len(adapterQ) + 1] = m
  BY <1>1, Appended
<1>3. \A k \in 0..Len(adapterQ) :
         WillKeep(adapterQ, k, fences, h, id) => WillKeep(adapterQ', k, fences', h, id)
  <2> TAKE k \in 0..Len(adapterQ)
  <2>1. /\ Last(Append(adapterQ, m), k, h, id) <=> Last(adapterQ, k, h, id)
        /\ Silent(Append(adapterQ, m), k, h) <=> Silent(adapterQ, k, h)
    BY <1>1, AddedLast
  <2> QED BY <2>1 DEF WillKeep
<1>4. \A l \in 1..Len(adapterQ') : l \in 1..Len(adapterQ) \/ l = Len(adapterQ) + 1
  BY <1>2
<1>5. ASSUME Brings(m, h, id) PROVE Last(adapterQ', Len(adapterQ'), h, id)
  <2>1. Len(adapterQ') \in 1..Len(adapterQ') /\ Brings(adapterQ'[Len(adapterQ')], h, id)
        /\ \A l \in 1..Len(adapterQ') : ~(Len(adapterQ') < l)
    BY <1>2, <1>5
  <2> QED BY <2>1 DEF Last
<1>6. ASSUME ~Speaks(m, h), Last(adapterQ, Len(adapterQ), h, id)
      PROVE  Last(adapterQ', Len(adapterQ'), h, id)
  <2>1. PICK j \in 1..Len(adapterQ) :
           Brings(adapterQ[j], h, id) /\ \A l \in 1..Len(adapterQ) : j < l => ~Speaks(adapterQ[l], h)
    BY <1>6 DEF Last
  <2>2. j \in 1..Len(adapterQ') /\ Brings(adapterQ'[j], h, id)
    BY <1>2, <2>1
  <2>3. \A l \in 1..Len(adapterQ') : j < l => ~Speaks(adapterQ'[l], h)
    BY <1>2, <1>4, <1>6, <2>1
  <2> QED BY <2>2, <2>3 DEF Last
<1>7. ASSUME ~Speaks(m, h), Silent(adapterQ, Len(adapterQ), h) PROVE Silent(adapterQ', Len(adapterQ'), h)
  BY <1>2, <1>4, <1>7 DEF Silent
<1> QED BY <1>3, <1>5, <1>6, <1>7 DEF WillKeep

\* The adapter thread takes a message.
LEMMA AdapterTakes ==
    ASSUME Types, AdapterThread
    PROVE  /\ adapterQ # <<>> /\ adapterQ' = Tail(adapterQ) /\ adapterQ \in Seq(AdapterMessages)
           /\ UNCHANGED <<owner, engine, strayed, used>> /\ clients' \subseteq clients
BY DEF Types, AdapterThread, HandleCommand, HandleTurn, HandleAnswer, HandleRemoveClient, HandleGone, HandleEngineUp,
       HandleRestored, HandleBreach, Take, TakeAnswer, engineSide

\* What a message brings is kept when it was handled, and what it leaves is kept on.
LEMMA AdapterKeeps ==
    ASSUME Types, Lives, AdapterThread, NEW g \in HwIds, NEW id \in Ids,
           Brings(Head(adapterQ), g, id) \/ (~Speaks(Head(adapterQ), g) /\ fences[g].id = id)
    PROVE  fences'[g].id = id
<1>0. Head(adapterQ) \in AdapterMessages
  BY AdapterTakes, Taken
<1>1. CASE HandleCommand \/ HandleTurn \/ HandleRemoveClient \/ HandleBreach
  <2>1. UNCHANGED fences /\ Head(adapterQ).type # "answer"
    BY <1>1 DEF HandleCommand, HandleTurn, HandleRemoveClient, HandleBreach, Take, maps
  <2> QED BY <2>1 DEF Brings, IsOk
<1>2. CASE HandleAnswer
  <2>1. PICK m, ok, h, b : AnswerEffect(m, ok, h, b)
    BY <1>2, AnswerHandled
  <2>2. /\ Head(adapterQ).type = "answer" /\ Head(adapterQ).to = m
        /\ Head(adapterQ).ok = ok /\ Head(adapterQ).hwId = h
    BY <2>1 DEF AnswerEffect
  <2>3. /\ \A x \in HwIds : x # h => fences'[x] = fences[x]
        /\ ~ok => UNCHANGED maps
        /\ ok /\ m.op = "add" => fences'[h].id = m.id
        /\ m.op \notin {"add", "remove"} => \A x \in HwIds : fences'[x].id = fences[x].id
    BY <2>1, AnswerKeeps
  <2>4. CASE Brings(Head(adapterQ), g, id)
    BY <2>2, <2>3, <2>4 DEF Brings, IsOk
  <2>5. CASE ~Speaks(Head(adapterQ), g) /\ fences[g].id = id
    <3>1. g # h \/ ~ok \/ m.op \notin {"add", "remove"}
      BY <2>2, <2>5 DEF Speaks, IsOk
    <3> QED BY <2>3, <2>5, <3>1 DEF maps
  <2> QED BY <2>4, <2>5
<1>3. CASE HandleGone
  <2>1. /\ Head(adapterQ).type = "answer" /\ Head(adapterQ).to.then.for = "gone"
        /\ fences' = IF Head(adapterQ).ok THEN [fences EXCEPT ![Head(adapterQ).hwId] = NoFence] ELSE fences
    BY <1>3 DEF HandleGone, Take, TakeAnswer
  <2>2. Head(adapterQ).to.op = "remove" /\ (Head(adapterQ).ok => Head(adapterQ).hwId \in HwIds)
    BY <1>0, <2>1, AdapterFields, RequestFields
  <2>3. ~(Head(adapterQ).ok /\ Head(adapterQ).hwId = g) /\ fences[g].id = id
    BY <2>1, <2>2 DEF Brings, Speaks, IsOk
  <2> QED BY <2>1, <2>2, <2>3 DEF Types
<1>4. CASE HandleEngineUp
  BY <1>4 DEF HandleEngineUp, Take, Brings, Speaks, IsOk
<1>5. CASE HandleRestored
  <2>1. PICK m, ok, h : RestoredEffect(m, ok, h)
    BY <1>5, RestoredHandled
  <2>2. /\ Head(adapterQ).type = "answer" /\ Head(adapterQ).to = m /\ m.op = "add"
        /\ Head(adapterQ).ok = ok /\ Head(adapterQ).hwId = h
    BY <2>1 DEF RestoredEffect
  <2>3. /\ \A x \in HwIds : x # h => fences'[x] = fences[x]
        /\ ~ok => UNCHANGED maps
        /\ ok => fences'[h].id = m.id
    BY <2>1, RestoreKeeps
  <2>4. CASE Brings(Head(adapterQ), g, id)
    BY <2>2, <2>3, <2>4 DEF Brings, IsOk
  <2>5. CASE ~Speaks(Head(adapterQ), g) /\ fences[g].id = id
    <3>1. g # h \/ ~ok
      BY <2>2, <2>5 DEF Speaks, IsOk
    <3> QED BY <2>3, <2>5, <3>1 DEF maps
  <2> QED BY <2>4, <2>5
<1> QED BY <1>1, <1>2, <1>3, <1>4, <1>5 DEF AdapterThread

LEMMA AppendJoins ==
    ASSUME NEW S, NEW q \in Seq(S), NEW e \in S
    PROVE  Append(q, e) = q \o <<e>> /\ <<e>> \in Seq(S)
OBVIOUS

\* A client that is there, or will be.
Here(id) == id \in Known => owner[id] \in clients

\* What a message of the adapter to the engine is for.
SentFor(m) ==
    /\ m.op # "ssr"
    /\ m.op \in Commands =>
          \/ HandleTurn /\ m.then.for = "item"
             /\ (m.op = "add" => BearsBack(batches, Head(adapterQ), m.id))
             /\ (m.op # "add" => hwIdOf[m.id] # 0)
          \/ HandleRemoveClient /\ m.then.for = "gone" /\ ~Here(m.id)'
          \/ HandleEngineUp /\ m.then.for = "restore" /\ m.op = "add"
          \/ HandleRestored /\ m.then.for = "nobody" /\ m.op = "pause" /\ m.id = Head(adapterQ).to.id

LEMMA ApiSent ==
    ASSUME Types, Lives, AdapterThread
    PROVE  \E more \in Seq(ApiMessages) :
              apiQ' = apiQ \o more /\ \A m \in Elements(more) : SentFor(m)
<1>0. apiQ \in Seq(ApiMessages) /\ \A m \in Requests : m.op # "ssr" /\ m.op \in Commands /\ m.op # "turn"
  BY RequestFields DEF Types, Commands
<1>1. CASE UNCHANGED apiQ
  <2>1. apiQ' = apiQ \o <<>> /\ <<>> \in Seq(ApiMessages) /\ Elements(<<>>) = {}
    BY <1>0, <1>1 DEF Elements
  <2> QED BY <2>1
<1>2. ASSUME NEW r \in Requests, r \in ApiMessages, apiQ' = Append(apiQ, r), SentFor(r)
      PROVE  \E more \in Seq(ApiMessages) :
                apiQ' = apiQ \o more /\ \A m \in Elements(more) : SentFor(m)
  <2>1. apiQ' = apiQ \o <<r>> /\ <<r>> \in Seq(ApiMessages)
    BY <1>0, <1>2, AppendJoins
  <2>2. Elements(<<r>>) = {r}
    BY DEF Elements
  <2> QED BY <1>2, <2>1, <2>2
<1>4. CASE HandleCommand
  <2>1. PICK b \in 1..Len(batches), turns \in Seq(ApiMessages) :
           apiQ' = apiQ \o turns /\ \A k \in 1..Len(turns) : turns[k].op = "turn"
    BY <1>4, CommandHandled
  <2>2. \A m \in Elements(turns) : SentFor(m)
    BY <2>1 DEF Elements, SentFor, Commands
  <2> QED BY <2>1, <2>2
<1>5. CASE HandleTurn
  <2>1. PICK b \in 1..Len(batches), i \in 1..MaxItems :
          /\ Head(adapterQ).type = "turn" /\ Head(adapterQ).batch = b /\ Head(adapterQ).item = i
          /\ \/ \E r \in Requests :
                   /\ r \in ApiMessages /\ apiQ' = Append(apiQ, r)
                   /\ r.op = batches[b].op /\ r.id = batches[b].ids[i] /\ r.then = ForItem(b, i)
                   /\ r.op # "add" => r.hwId = hwIdOf[r.id]
             \/ apiQ' = apiQ
    BY <1>5, TurnHandled
  <2>2. ASSUME NEW r \in Requests, r \in ApiMessages, apiQ' = Append(apiQ, r),
               r.op = batches[b].op /\ r.id = batches[b].ids[i] /\ r.then = ForItem(b, i)
               /\ (r.op # "add" => r.hwId = hwIdOf[r.id])
        PROVE  \E more \in Seq(ApiMessages) :
                  apiQ' = apiQ \o more /\ \A m \in Elements(more) : SentFor(m)
    <3>1. r.then.for = "item"
      BY <2>2 DEF ForItem
    <3>2. r.op = "add" => BearsBack(batches, Head(adapterQ), r.id)
      BY <2>1, <2>2 DEF BearsBack
    <3>3. r.op # "add" => hwIdOf[r.id] # 0
      BY <2>2, RequestFields, Numbers
    <3>4. SentFor(r)
      BY <1>0, <1>5, <3>1, <3>2, <3>3 DEF SentFor
    <3> QED BY <1>2, <2>2, <3>4
  <2> QED BY <1>1, <2>1, <2>2
<1>6. CASE HandleAnswer \/ HandleGone \/ HandleBreach
  BY <1>1, <1>6 DEF HandleAnswer, HandleGone, HandleBreach, engineSide
<1>7. CASE HandleRemoveClient
  <2>1. PICK c, requests : GoneEffect(c, requests)
    BY <1>7, RemoveClientHandled
  <2>2. /\ requests \in Seq(Requests) /\ requests \in Seq(ApiMessages) /\ apiQ' = apiQ \o requests
        /\ \A k \in 1..Len(requests) : requests[k].then.for = "gone" /\ requests[k].id \in OwnIds(c)
        /\ clients' = clients \ {c} /\ owner' = owner
    BY <2>1 DEF GoneEffect
  <2>3. \A id \in OwnIds(c) : ~Here(id)'
    BY <2>2 DEF OwnIds, Here, Known
  <2>4. \A k \in 1..Len(requests) : requests[k] \in Requests
    BY <2>2
  <2>5. \A m \in Elements(requests) : m \in Requests /\ m.then.for = "gone" /\ ~Here(m.id)'
    BY <2>2, <2>3, <2>4 DEF Elements
  <2> QED BY <1>0, <1>7, <2>2, <2>5 DEF SentFor
<1>8. CASE HandleEngineUp
  <2>1. PICK old, requests : RestartEffect(old, requests)
    BY <1>8, EngineUpHandled
  <2>2. /\ requests \in Seq(Requests) /\ requests \in Seq(ApiMessages) /\ apiQ' = apiQ \o requests
        /\ \A k \in 1..Len(requests) : requests[k].op = "add" /\ requests[k].then.for = "restore"
    BY <2>1 DEF RestartEffect
  <2>3. \A m \in Elements(requests) : SentFor(m)
    BY <1>8, <2>2 DEF SentFor, Elements
  <2> QED BY <2>2, <2>3
<1>9. CASE HandleRestored
  <2>1. PICK m, ok, h : RestoredEffect(m, ok, h)
    BY <1>9, RestoredHandled
  <2>2. \/ apiQ' = apiQ
        \/ \E r \in Requests : /\ r \in ApiMessages /\ apiQ' = Append(apiQ, r)
                               /\ r.op = "pause" /\ r.then.for = "nobody" /\ r.id = m.id
    BY <2>1 DEF RestoredEffect
  <2>3. Head(adapterQ).to = m
    BY <2>1 DEF RestoredEffect
  <2> QED BY <1>1, <1>2, <1>9, <2>2, <2>3 DEF SentFor
<1> QED BY <1>4, <1>5, <1>6, <1>7, <1>8, <1>9 DEF AdapterThread

\* The engine is down until its restart is served, and empty so long.
IsRestart(m) == m.op = "ssr"
RestartsFit ==
    /\ engine.up <=> \A k \in 1..Len(apiQ) : ~IsRestart(apiQ[k])
    /\ \A k, l \in 1..Len(apiQ) : IsRestart(apiQ[k]) /\ IsRestart(apiQ[l]) => k = l
    /\ ~engine.up => \A h \in HwIds : ~Held(h)

LEMMA RestartsKept ==
    ASSUME RestartsFit, UNCHANGED engine, NEW more \in Seq(ApiMessages), apiQ' = apiQ \o more,
           apiQ \in Seq(ApiMessages), \A m \in Elements(more) : m.op # "ssr"
    PROVE  RestartsFit'
<1>1. /\ \A k \in 1..Len(apiQ) : k \in 1..Len(apiQ') /\ apiQ'[k] = apiQ[k]
      /\ \A k \in 1..Len(apiQ') : k \notin 1..Len(apiQ) => k - Len(apiQ) \in 1..Len(more) /\ apiQ'[k] = more[k - Len(apiQ)]
  BY Joined
<1>2. \A k \in 1..Len(apiQ') : IsRestart(apiQ'[k]) => k \in 1..Len(apiQ) /\ IsRestart(apiQ[k])
  BY <1>1 DEF IsRestart, Elements
<1>3. \A h : Held(h)' <=> Held(h)
  BY DEF Held
<1> QED BY <1>1, <1>2, <1>3 DEF RestartsFit

LEMMA RestartsTaken ==
    ASSUME RestartsFit, Types, apiQ # <<>>, apiQ' = Tail(apiQ), Head(apiQ).op # "ssr", engine'.up = engine.up,
           ~engine.up => UNCHANGED engine
    PROVE  RestartsFit'
<1>1. /\ Head(apiQ) = apiQ[1] /\ 1 \in 1..Len(apiQ)
      /\ \A k \in 1..Len(apiQ') : k + 1 \in 1..Len(apiQ) /\ apiQ'[k] = apiQ[k + 1]
  BY ApiTaken
<1>2. \A k \in 1..Len(apiQ) : k = 1 \/ (k - 1 \in 1..Len(apiQ') /\ (k - 1) + 1 = k)
  BY ApiTaken
<1>3. (\A k \in 1..Len(apiQ') : ~IsRestart(apiQ'[k])) <=> \A k \in 1..Len(apiQ) : ~IsRestart(apiQ[k])
  <2>1. ASSUME \A k \in 1..Len(apiQ') : ~IsRestart(apiQ'[k]), NEW k \in 1..Len(apiQ) PROVE ~IsRestart(apiQ[k])
    <3>1. CASE k = 1
      BY <1>1, <3>1 DEF IsRestart
    <3>2. CASE k - 1 \in 1..Len(apiQ') /\ (k - 1) + 1 = k
      <4>1. apiQ'[k - 1] = apiQ[k]
        BY <1>1, <3>2
      <4> QED BY <2>1, <3>2, <4>1
    <3> QED BY <1>2, <3>1, <3>2
  <2> QED BY <1>1, <2>1
<1>4. \A k, l \in 1..Len(apiQ') : IsRestart(apiQ'[k]) /\ IsRestart(apiQ'[l]) => k = l
  <2> SUFFICES ASSUME NEW k \in 1..Len(apiQ'), NEW l \in 1..Len(apiQ'), IsRestart(apiQ'[k]), IsRestart(apiQ'[l])
               PROVE  k = l
    OBVIOUS
  <2>1. k + 1 = l + 1
    BY <1>1 DEF RestartsFit
  <2> QED BY <2>1
<1>5. ~engine'.up => \A h \in HwIds : ~Held(h)'
  BY DEF RestartsFit, Held
<1> QED BY <1>3, <1>4, <1>5 DEF RestartsFit

LEMMA NextRestarts == Types /\ Lives /\ RestartsFit /\ [Next]_vars => RestartsFit'
<1> SUFFICES ASSUME Types, Lives, RestartsFit, [Next]_vars PROVE RestartsFit'
  OBVIOUS
<1>0. apiQ \in Seq(ApiMessages)
  BY DEF Types
<1>1. CASE UNCHANGED vars \/ AddGeofences \/ OtherCommand \/ RemoveClient \/ Breach
  BY <1>1 DEF vars, engineSide, AddGeofences, OtherCommand, Command, RemoveClient, Breach, RestartsFit, Held
<1>2. CASE AdapterThread
  <2>1. PICK more \in Seq(ApiMessages) : apiQ' = apiQ \o more /\ \A m \in Elements(more) : m.op # "ssr"
    BY <1>2, ApiSent DEF SentFor
  <2> QED BY <1>0, <1>2, <2>1, AdapterTakes, RestartsKept
<1>3. CASE EngineCrash
  <2>1. engine' = [up |-> FALSE, fences |-> [h \in HwIds |-> NoFence]] /\ apiQ' = Append(apiQ, [op |-> "ssr"])
        /\ engine.up
    BY <1>3 DEF EngineCrash
  <2>2. [op |-> "ssr"] \in ApiMessages /\ IsRestart([op |-> "ssr"])
    BY DEF ApiMessages, IsRestart
  <2>3. /\ Len(apiQ') = Len(apiQ) + 1 /\ Len(apiQ) \in Nat
        /\ \A k \in 1..Len(apiQ) : apiQ'[k] = apiQ[k]
        /\ apiQ'[Len(apiQ) + 1] = [op |-> "ssr"]
    BY <1>0, <2>1, <2>2, Appended
  <2>4. \A k \in 1..Len(apiQ') : IsRestart(apiQ'[k]) => k = Len(apiQ) + 1
    BY <2>1, <2>3 DEF RestartsFit
  <2>5. Len(apiQ) + 1 \in 1..Len(apiQ') /\ IsRestart(apiQ'[Len(apiQ) + 1])
    BY <2>2, <2>3
  <2>6. ~engine'.up /\ \A h \in HwIds : ~Held(h)'
    BY <2>1 DEF Held
  <2> QED BY <2>4, <2>5, <2>6 DEF RestartsFit
<1>4. CASE ReturnTurn
  BY <1>4, RestartsTaken DEF ReturnTurn
<1>5. CASE Serve
  <2>1. PICK m, h : ServeEffect(m, h)
    BY <1>5, Serves
  <2>2. m.op # "ssr" /\ Head(apiQ) = m /\ apiQ # <<>> /\ apiQ' = Tail(apiQ) /\ engine.up /\ engine'.up
    BY <2>1, RequestFields DEF ServeEffect, Commands
  <2> QED BY <2>2, RestartsTaken
<1>6. CASE Fail
  BY <1>6, RestartsTaken DEF Fail, Commands
<1>7. CASE Reopen
  <2>1. apiQ # <<>> /\ apiQ' = Tail(apiQ) /\ engine' = [engine EXCEPT !.up = TRUE] /\ IsRestart(Head(apiQ))
    BY <1>7 DEF Reopen, IsRestart
  <2>2. /\ Head(apiQ) = apiQ[1] /\ 1 \in 1..Len(apiQ)
        /\ \A k \in 1..Len(apiQ') : k + 1 \in 1..Len(apiQ) /\ apiQ'[k] = apiQ[k + 1] /\ k + 1 # 1
    BY <2>1, ApiTaken
  <2>3. \A k \in 1..Len(apiQ') : ~IsRestart(apiQ'[k])
    BY <2>1, <2>2 DEF RestartsFit
  <2>4. engine'.up
    BY <2>1 DEF Types
  <2> QED BY <2>3, <2>4 DEF RestartsFit
<1> QED BY <1>1, <1>2, <1>3, <1>4, <1>5, <1>6, <1>7 DEF Next, ApiThread

\* What the engine has, the adapter will keep when it has handled all answers ...
WatchedIsKept ==
    \A h \in HwIds, id \in Ids :
        engine.fences[h].id = id => WillKeep(adapterQ, Len(adapterQ), fences, h, id)

\* ... with the options that it has there.
OptSpoken(h) ==
    {m \in AdapterMessages :
        m.type = "engineUp" \/ (IsOk(m, h) /\ m.to.op \in {"add", "remove", "modify"})}
OptBrought(h, opt) ==
    {m \in AdapterMessages : IsOk(m, h) /\ m.to.op \in {"add", "modify"} /\ m.to.opt = opt}
OptionsWillFit ==
    \A h \in HwIds : Held(h) =>
        LET opt == engine.fences[h].opt
        IN  Will(adapterQ, OptBrought(h, opt), OptSpoken(h), fences[h].opt = opt)

Watched == WatchedIsKept /\ OptionsWillFit

LEMMA WatchedAdded ==
    ASSUME Types, Watched, NEW m \in AdapterMessages, adapterQ' = Append(adapterQ, m), UNCHANGED fences,
           \A h \in HwIds, id \in Ids : engine'.fences[h].id = id =>
               Brings(m, h, id) \/ (~Speaks(m, h) /\ engine.fences[h].id = id),
           \A h \in HwIds : Held(h)' =>
               \/ m \in OptBrought(h, engine'.fences[h].opt)
               \/ m \notin OptSpoken(h) /\ Held(h) /\ engine'.fences[h].opt = engine.fences[h].opt
    PROVE  Watched'
<1>1. adapterQ \in Seq(AdapterMessages)
  BY DEF Types
<1>2. WatchedIsKept'
  <2> SUFFICES ASSUME NEW h \in HwIds, NEW id \in Ids, engine'.fences[h].id = id
               PROVE  WillKeep(adapterQ', Len(adapterQ'), fences', h, id)
    BY DEF WatchedIsKept
  <2>1. Brings(m, h, id) \/ (~Speaks(m, h) /\ WillKeep(adapterQ, Len(adapterQ), fences, h, id))
    BY DEF Watched, WatchedIsKept
  <2> QED BY <2>1, KeepAdded
<1>3. OptionsWillFit'
  <2> SUFFICES ASSUME NEW h \in HwIds, Held(h)'
               PROVE  Will(adapterQ', OptBrought(h, engine'.fences[h].opt), OptSpoken(h),
                           fences'[h].opt = engine'.fences[h].opt)
    BY DEF OptionsWillFit, OptSpoken, OptBrought
  <2> DEFINE opt == engine'.fences[h].opt
             now == fences[h].opt = opt
  <2>1. m \in OptBrought(h, opt) \/ (m \notin OptSpoken(h) /\ Will(adapterQ, OptBrought(h, opt), OptSpoken(h), now))
    BY DEF Watched, OptionsWillFit
  <2>2. now \in BOOLEAN
    OBVIOUS
  <2>3. fences'[h].opt = opt <=> now
    OBVIOUS
  <2> HIDE DEF now, opt
  <2>4. Will(Append(adapterQ, m), OptBrought(h, opt), OptSpoken(h), now)
    BY <1>1, <2>1, <2>2, WillAdded
  <2>5. Will(adapterQ', OptBrought(h, opt), OptSpoken(h), fences'[h].opt = opt)
    BY <2>3, <2>4 DEF Will
  <2> QED BY <2>5 DEF opt
<1> QED BY <1>2, <1>3 DEF Watched

\* A message that says nothing of fences is added.
LEMMA WatchedQuiet ==
    ASSUME Types, Watched, NEW m \in AdapterMessages, adapterQ' = Append(adapterQ, m), UNCHANGED <<fences, engine>>,
           m.type # "engineUp", m.type = "answer" => ~m.ok
    PROVE  Watched'
<1>1. \A h : ~Speaks(m, h) /\ m \notin OptSpoken(h)
  BY DEF Speaks, OptSpoken, IsOk
<1>2. \A h : Held(h)' <=> Held(h)
  BY DEF Held
<1> QED BY <1>1, <1>2, WatchedAdded

LEMMA WatchedSame ==
    ASSUME Watched, UNCHANGED <<adapterQ, fences>>,
           \A h \in HwIds : /\ engine'.fences[h].id \in Ids => engine'.fences[h].id = engine.fences[h].id
                            /\ Held(h)' => Held(h) /\ engine'.fences[h].opt = engine.fences[h].opt
    PROVE  Watched'
<1>1. WatchedIsKept'
  BY DEF Watched, WatchedIsKept
<1>2. OptionsWillFit'
  <2> SUFFICES ASSUME NEW h \in HwIds, Held(h)'
               PROVE  Will(adapterQ', OptBrought(h, engine'.fences[h].opt), OptSpoken(h),
                           fences'[h].opt = engine'.fences[h].opt)
    BY DEF OptionsWillFit, OptSpoken, OptBrought
  <2>1. Held(h) /\ engine'.fences[h].opt = engine.fences[h].opt
    OBVIOUS
  <2>2. Will(adapterQ, OptBrought(h, engine.fences[h].opt), OptSpoken(h), fences[h].opt = engine.fences[h].opt)
    BY <2>1 DEF Watched, OptionsWillFit
  <2> QED BY <2>1, <2>2 DEF Will
<1> QED BY <1>1, <1>2 DEF Watched

\* The options that the adapter has after a message.
LEMMA AdapterOptions ==
    ASSUME Types, Lives, AdapterThread, NEW g \in HwIds, NEW opt
    PROVE  /\ Head(adapterQ) \in OptBrought(g, opt) /\ fences[g] # NoFence => fences'[g].opt = opt
           /\ Head(adapterQ) \in OptBrought(g, opt) /\ Head(adapterQ).to.op = "add" => fences'[g].opt = opt
           /\ Head(adapterQ) \notin OptSpoken(g) => fences'[g].opt = fences[g].opt
<1>0. Head(adapterQ) \in AdapterMessages
  BY AdapterTakes, Taken
<1>1. CASE HandleCommand \/ HandleTurn \/ HandleRemoveClient \/ HandleBreach
  <2>1. UNCHANGED fences /\ Head(adapterQ).type # "answer"
    BY <1>1 DEF HandleCommand, HandleTurn, HandleRemoveClient, HandleBreach, Take, maps
  <2> QED BY <2>1 DEF OptBrought, IsOk
<1>2. CASE HandleAnswer
  <2>1. PICK m, ok, h, b : AnswerEffect(m, ok, h, b)
    BY <1>2, AnswerHandled
  <2>2. /\ Head(adapterQ).type = "answer" /\ Head(adapterQ).to = m
        /\ Head(adapterQ).ok = ok /\ Head(adapterQ).hwId = h
        /\ m.op \in Commands /\ (ok => h \in HwIds)
    BY <2>1, RequestFields DEF AnswerEffect
  <2>3. /\ \A x \in HwIds : x # h => fences'[x] = fences[x]
        /\ ~ok => UNCHANGED maps
        /\ ok /\ m.op = "add" => fences'[h].opt = m.opt
    BY <2>1, AnswerKeeps
  <2>4. ok /\ m.op \in {"pause", "resume", "modify"} =>
           /\ fences[h] # NoFence => fences'[h].opt = IF m.op = "modify" THEN m.opt ELSE fences[h].opt
           /\ fences[h] = NoFence => fences'[h] = NoFence
    <3> SUFFICES ASSUME ok, m.op \in {"pause", "resume", "modify"}
                 PROVE /\ fences[h] # NoFence => fences'[h].opt = IF m.op = "modify" THEN m.opt ELSE fences[h].opt
                       /\ fences[h] = NoFence => fences'[h] = NoFence
      OBVIOUS
    <3>1. PICK fence :
             /\ ChangeItem(h, fence)
             /\ fences[h] # NoFence =>
                   /\ fence \in Fence /\ fence.id = fences[h].id
                   /\ fence.opt = IF m.op = "modify" THEN m.opt ELSE fences[h].opt
      BY <2>1 DEF AnswerEffect
    <3>2. /\ fences[h] # NoFence => fences'[h] = fence
          /\ fences[h] = NoFence => fences'[h] = NoFence
      BY <2>2, <3>1, ChangeTypes
    <3> QED BY <3>1, <3>2
  <2>5. Head(adapterQ) \in OptBrought(g, opt) =>
            ok /\ g = h /\ m.op \in {"add", "modify"} /\ m.opt = opt
    BY <2>2 DEF OptBrought, IsOk
  <2>6. Head(adapterQ) \notin OptSpoken(g) => ~ok \/ g # h \/ m.op \in {"pause", "resume"}
    BY <1>0, <2>2 DEF OptSpoken, IsOk, Commands
  <2>7. Head(adapterQ) \notin OptSpoken(g) => fences'[g].opt = fences[g].opt
    <3>1. CASE ~ok \/ g # h
      BY <2>3, <3>1 DEF maps
    <3>2. CASE ok /\ g = h /\ m.op \in {"pause", "resume"}
      BY <2>4, <3>2
    <3> QED BY <2>6, <3>1, <3>2
  <2> QED BY <2>2, <2>3, <2>4, <2>5, <2>7
<1>3. CASE HandleGone
  <2>1. /\ Head(adapterQ).type = "answer" /\ Head(adapterQ).to.then.for = "gone"
        /\ fences' = IF Head(adapterQ).ok THEN [fences EXCEPT ![Head(adapterQ).hwId] = NoFence] ELSE fences
    BY <1>3 DEF HandleGone, Take, TakeAnswer
  <2>2. Head(adapterQ).to.op = "remove" /\ (Head(adapterQ).ok => Head(adapterQ).hwId \in HwIds)
        /\ Head(adapterQ).ok \in BOOLEAN
    BY <1>0, <2>1, AdapterFields, RequestFields
  <2>3. Head(adapterQ) \notin OptBrought(g, opt)
    BY <2>2 DEF OptBrought
  <2>4. Head(adapterQ) \notin OptSpoken(g) => fences'[g] = fences[g]
    BY <1>0, <2>1, <2>2 DEF OptSpoken, IsOk, Types
  <2> QED BY <2>3, <2>4
<1>4. CASE HandleEngineUp
  BY <1>0, <1>4 DEF HandleEngineUp, Take, OptBrought, OptSpoken, IsOk
<1>5. CASE HandleRestored
  <2>1. PICK m, ok, h : RestoredEffect(m, ok, h)
    BY <1>5, RestoredHandled
  <2>2. /\ Head(adapterQ).type = "answer" /\ Head(adapterQ).to = m /\ m.op = "add"
        /\ Head(adapterQ).ok = ok /\ Head(adapterQ).hwId = h
    BY <2>1 DEF RestoredEffect
  <2>3. /\ \A x \in HwIds : x # h => fences'[x] = fences[x]
        /\ ~ok => UNCHANGED maps
        /\ ok => fences'[h].opt = m.opt
    BY <2>1, RestoreKeeps
  <2>4. Head(adapterQ) \in OptBrought(g, opt) => ok /\ g = h /\ m.opt = opt
    BY <2>2 DEF OptBrought, IsOk
  <2>5. Head(adapterQ) \notin OptSpoken(g) => ~ok \/ g # h
    BY <1>0, <2>2 DEF OptSpoken, IsOk
  <2> QED BY <2>3, <2>4, <2>5 DEF maps
<1> QED BY <1>1, <1>2, <1>3, <1>4, <1>5 DEF AdapterThread

LEMMA AdapterWatched ==
    ASSUME Types, Lives, Watched, AdapterThread
    PROVE  Watched'
<1>1. /\ adapterQ # <<>> /\ adapterQ' = Tail(adapterQ) /\ adapterQ \in Seq(AdapterMessages) /\ UNCHANGED engine
      /\ Head(adapterQ) \in AdapterMessages
      /\ Len(adapterQ') \in 0..Len(Tail(adapterQ)) /\ Len(adapterQ') + 1 = Len(adapterQ)
  <2>1. /\ adapterQ # <<>> /\ adapterQ' = Tail(adapterQ) /\ adapterQ \in Seq(AdapterMessages) /\ UNCHANGED engine
    BY AdapterTakes
  <2>2. Head(adapterQ) \in AdapterMessages /\ Len(adapterQ) \in Nat \ {0} /\ Len(Tail(adapterQ)) = Len(adapterQ) - 1
    BY <2>1, Taken
  <2> QED BY <2>1, <2>2
<1>2. WatchedIsKept'
  <2> SUFFICES ASSUME NEW h \in HwIds, NEW id \in Ids, engine.fences[h].id = id
               PROVE  WillKeep(adapterQ', Len(adapterQ'), fences', h, id)
    BY <1>1 DEF WatchedIsKept
  <2>1. WillKeep(adapterQ, Len(adapterQ') + 1, fences, h, id)
    BY <1>1 DEF Watched, WatchedIsKept
  <2>2. Brings(Head(adapterQ), h, id) \/ (~Speaks(Head(adapterQ), h) /\ fences[h].id = id) => fences'[h].id = id
    BY AdapterKeeps
  <2> QED BY <1>1, <2>1, <2>2, KeepTaken
<1>3. OptionsWillFit'
  <2>0. engine' = engine
    BY <1>1
  <2> SUFFICES ASSUME NEW h \in HwIds, Held(h)'
               PROVE  Will(adapterQ', OptBrought(h, engine'.fences[h].opt), OptSpoken(h),
                           fences'[h].opt = engine'.fences[h].opt)
    BY DEF OptionsWillFit, OptSpoken, OptBrought
  <2>10. Held(h)
    BY <2>0 DEF Held
  <2> DEFINE opt == engine.fences[h].opt
             now == fences[h].opt = opt
             then == fences'[h].opt = opt
  <2>1. Will(adapterQ, OptBrought(h, opt), OptSpoken(h), now)
    BY <2>10 DEF Watched, OptionsWillFit
  <2>2. now \in BOOLEAN /\ then \in BOOLEAN
    OBVIOUS
  <2>3. engine.fences[h].id \in Ids
    BY <2>10, FenceFields DEF Held, Types
  <2>4. WillKeep(adapterQ, Len(adapterQ), fences, h, engine.fences[h].id)
    BY <2>3 DEF Watched, WatchedIsKept
  <2>5. ASSUME Unsaid(Tail(adapterQ), OptSpoken(h)), Head(adapterQ) \in OptBrought(h, opt),
               Head(adapterQ).to.op # "add"
        PROVE  fences[h] # NoFence
    <3>1. \A l \in 1..Len(adapterQ) : l = 1 \/ (l - 1 \in 1..Len(Tail(adapterQ)) /\ Tail(adapterQ)[l - 1] = adapterQ[l])
      BY <1>1, Shortened
    <3>2. \A k \in 1..Len(Tail(adapterQ)) : ~Speaks(Tail(adapterQ)[k], h)
      <4>1. \A k \in 1..Len(Tail(adapterQ)) : Tail(adapterQ)[k] \in AdapterMessages
        BY <1>1, Taken
      <4> QED BY <2>5, <4>1 DEF Unsaid, OptSpoken, Speaks
    <3>3. adapterQ[1] = Head(adapterQ)
      BY <1>1, Shortened
    <3>4. ~Brings(Head(adapterQ), h, engine.fences[h].id)
      BY <2>5 DEF Brings
    <3>5. \A l \in 1..Len(adapterQ) : ~Brings(adapterQ[l], h, engine.fences[h].id)
      BY <3>1, <3>2, <3>3, <3>4 DEF Brings, Speaks
    <3>6. fences[h].id = engine.fences[h].id
      BY <2>4, <3>5 DEF WillKeep, Last
    <3> QED BY <2>3, <3>6, Numbers DEF NoFence
  <2>6. Unsaid(Tail(adapterQ), OptSpoken(h)) =>
           (Head(adapterQ) \in OptBrought(h, opt) => then) /\ (Head(adapterQ) \notin OptSpoken(h) /\ now => then)
    BY <2>5, AdapterOptions
  <2> HIDE DEF now, then, opt
  <2>7. Will(Tail(adapterQ), OptBrought(h, opt), OptSpoken(h), then)
    BY <1>1, <2>1, <2>2, <2>6, WillTaken
  <2> QED BY <1>1, <2>0, <2>7 DEF opt, then
<1> QED BY <1>2, <1>3 DEF Watched

LEMMA ApiThreadWatched ==
    ASSUME Types, RestartsFit, Watched, ApiThread
    PROVE  Watched'
<1>1. CASE ReturnTurn
  <2>1. PICK m \in TurnMessages :
          /\ m \in AdapterMessages /\ m.type = "turn"
          /\ adapterQ' = Append(adapterQ, m)
          /\ UNCHANGED <<maps, clients, owner, batches, engine, strayed, answered, used>>
    BY <1>1, TurnReturns
  <2> QED BY <2>1, WatchedQuiet DEF maps
<1>2. CASE Serve
  <2>1. PICK m, h : ServeEffect(m, h)
    BY <1>2, Serves
  <2>2. /\ m \in Requests /\ h \in HwIds /\ Replies(m, TRUE, h) /\ UNCHANGED fences
        /\ \A g \in HwIds : g # h => engine'.fences[g] = engine.fences[g]
        /\ m.op = "add" => engine'.fences[h].id = m.id /\ engine'.fences[h].opt = m.opt
        /\ m.op # "add" => engine.fences[h] # NoFence
        /\ m.op = "remove" => engine'.fences[h] = NoFence
        /\ m.op \in {"pause", "resume", "modify"} =>
              /\ engine'.fences[h].id = engine.fences[h].id
              /\ engine'.fences[h].opt = IF m.op = "modify" THEN m.opt ELSE engine.fences[h].opt
    BY <2>1 DEF ServeEffect, maps
  <2>3. m.op \in Commands /\ (m.then.for = "nobody" => m.op = "pause") /\ NoFence.id \notin Ids
    BY <2>2, RequestFields, Numbers DEF NoFence
  <2>4. \A g \in HwIds : g # h => (Held(g)' <=> Held(g))
    BY <2>2 DEF Held
  <2>5. CASE m.then.for = "nobody" /\ adapterQ' = adapterQ
    <3>1. m.op = "pause"
      BY <2>3, <2>5
    <3>2. \A g \in HwIds : engine'.fences[g].id = engine.fences[g].id /\ engine'.fences[g].opt = engine.fences[g].opt
      BY <2>2, <3>1
    <3>3. \A g \in HwIds : Held(g)' => Held(g)
      BY <2>2, <2>4, <3>1 DEF Held
    <3> QED BY <2>2, <2>5, <3>2, <3>3, WatchedSame
  <2>6. CASE \E a \in Answers :
                /\ a \in AdapterMessages /\ adapterQ' = Append(adapterQ, a)
                /\ a.type = "answer" /\ a.ok = TRUE /\ a.hwId = h /\ a.to = m
    <3>1. PICK a \in Answers :
             /\ a \in AdapterMessages /\ adapterQ' = Append(adapterQ, a)
             /\ a.type = "answer" /\ a.ok = TRUE /\ a.hwId = h /\ a.to = m
      BY <2>6
    <3>2. ASSUME NEW g \in HwIds, g # h PROVE ~Speaks(a, g) /\ a \notin OptSpoken(g)
      BY <3>1, <3>2 DEF Speaks, OptSpoken, IsOk
    <3>3. m.op = "add" \/ m.op = "remove" \/ m.op = "modify" \/ m.op \in {"pause", "resume"}
      BY <2>3 DEF Commands
    <3>4. \A g \in HwIds, id \in Ids : engine'.fences[g].id = id =>
             Brings(a, g, id) \/ (~Speaks(a, g) /\ engine.fences[g].id = id)
      <4> SUFFICES ASSUME NEW g \in HwIds, NEW id \in Ids, engine'.fences[g].id = id
                   PROVE  Brings(a, g, id) \/ (~Speaks(a, g) /\ engine.fences[g].id = id)
        OBVIOUS
      <4>1. CASE g # h
        BY <2>2, <3>2, <4>1
      <4>2. CASE g = h /\ m.op = "add"
        BY <2>2, <3>1, <4>2 DEF Brings, IsOk
      <4>3. CASE g = h /\ m.op = "remove"
        BY <2>2, <2>3, <4>3
      <4>4. CASE g = h /\ m.op \in {"pause", "resume", "modify"}
        BY <2>2, <3>1, <4>4 DEF Speaks, IsOk
      <4> QED BY <3>3, <4>1, <4>2, <4>3, <4>4
    <3>5. \A g \in HwIds : Held(g)' =>
             \/ a \in OptBrought(g, engine'.fences[g].opt)
             \/ a \notin OptSpoken(g) /\ Held(g) /\ engine'.fences[g].opt = engine.fences[g].opt
      <4> SUFFICES ASSUME NEW g \in HwIds, Held(g)'
                   PROVE  \/ a \in OptBrought(g, engine'.fences[g].opt)
                          \/ a \notin OptSpoken(g) /\ Held(g) /\ engine'.fences[g].opt = engine.fences[g].opt
        OBVIOUS
      <4>1. CASE g # h
        BY <2>2, <2>4, <3>2, <4>1
      <4>2. CASE g = h /\ m.op \in {"add", "modify"}
        <5>1. engine'.fences[g].opt = m.opt
          BY <2>2, <4>2
        <5> QED BY <3>1, <4>2, <5>1 DEF OptBrought, IsOk
      <4>3. CASE g = h /\ m.op = "remove"
        BY <2>2, <4>3 DEF Held
      <4>4. CASE g = h /\ m.op \in {"pause", "resume"}
        BY <2>2, <3>1, <4>4 DEF OptSpoken, IsOk, Held
      <4> QED BY <3>3, <4>1, <4>2, <4>3, <4>4
    <3> QED BY <2>2, <3>1, <3>4, <3>5, WatchedAdded
  <2> QED BY <2>2, <2>5, <2>6 DEF Replies
<1>3. CASE Fail
  <2>1. PICK m : FailEffect(m)
    BY <1>3, Fails
  <2>2. Replies(m, FALSE, m.hwId) /\ UNCHANGED <<fences, engine>>
    BY <2>1 DEF FailEffect, maps
  <2>3. CASE adapterQ' = adapterQ
    BY <2>2, <2>3, WatchedSame DEF Held
  <2>4. CASE \E a \in AdapterMessages : adapterQ' = Append(adapterQ, a) /\ a.type = "answer" /\ a.ok = FALSE
    BY <2>2, <2>4, WatchedQuiet
  <2> QED BY <2>2, <2>3, <2>4 DEF Replies
<1>4. CASE Reopen
  <2>1. [type |-> "engineUp"] \in AdapterMessages
    BY DEF AdapterMessages, UpMessages
  <2>2. adapterQ' = Append(adapterQ, [type |-> "engineUp"]) /\ UNCHANGED fences
        /\ engine' = [engine EXCEPT !.up = TRUE] /\ apiQ # <<>> /\ Head(apiQ).op = "ssr"
    BY <1>4 DEF Reopen, maps
  <2>3. \A h \in HwIds : ~Held(h)
    <3>1. Head(apiQ) = apiQ[1] /\ 1 \in 1..Len(apiQ)
      BY <2>2, ApiTaken
    <3> QED BY <2>2, <3>1 DEF RestartsFit, IsRestart
  <2>4. \A h \in HwIds : ~Held(h)' /\ engine'.fences[h].id = 0
    <3>1. engine'.fences = engine.fences
      BY <2>2 DEF Types
    <3>2. \A h \in HwIds : engine'.fences[h] = NoFence
      BY <2>3, <3>1 DEF Held
    <3>3. NoFence.id = 0
      BY DEF NoFence
    <3>4. \A h \in HwIds : ~Held(h)'
      BY <3>2 DEF Held
    <3> QED BY <3>2, <3>3, <3>4
  <2> QED BY <2>1, <2>2, <2>4, WatchedAdded, Numbers
<1> QED BY <1>1, <1>2, <1>3, <1>4 DEF ApiThread

LEMMA CallsWatched ==
    ASSUME Types, Watched, AddGeofences \/ OtherCommand \/ RemoveClient \/ EngineCrash \/ Breach
    PROVE  Watched'
<1>1. ASSUME NEW batch, CommandEffect(batch) PROVE Watched'
  <2> DEFINE m == [type |-> "command", batch |-> Len(batches) + 1]
  <2>1. m \in AdapterMessages /\ adapterQ' = Append(adapterQ, m) /\ UNCHANGED <<fences, engine>> /\ m.type = "command"
    BY <1>1 DEF CommandEffect
  <2> HIDE DEF m
  <2> QED BY <2>1, WatchedQuiet
<1>2. CASE AddGeofences
  BY <1>1, <1>2, Adds DEF AddEffect
<1>3. CASE OtherCommand
  BY <1>1, <1>3, Others DEF OtherEffect
<1>4. CASE RemoveClient
  <2>1. PICK c \in clients :
          /\ adapterQ' = Append(adapterQ, [type |-> "removeClient", client |-> c])
          /\ UNCHANGED <<fences, engine>>
    BY <1>4 DEF RemoveClient, maps, engineSide
  <2>2. [type |-> "removeClient", client |-> c] \in AdapterMessages
    BY DEF Types, AdapterMessages, RemoveMessages
  <2>3. [type |-> "removeClient", client |-> c].type = "removeClient"
    OBVIOUS
  <2> QED BY <2>1, <2>2, <2>3, WatchedQuiet
<1>5. CASE EngineCrash
  <2>1. /\ UNCHANGED <<fences, adapterQ>>
        /\ engine' = [up |-> FALSE, fences |-> [h \in HwIds |-> NoFence]]
    BY <1>5 DEF EngineCrash, maps
  <2>2. \A h \in HwIds : ~Held(h)' /\ engine'.fences[h].id = 0
    BY <2>1 DEF Held, NoFence
  <2> QED BY <2>1, <2>2, WatchedSame, Numbers
<1>6. CASE Breach
  <2>1. PICK m \in AdapterMessages :
          /\ m.type = "breach" /\ adapterQ' = Append(adapterQ, m)
          /\ UNCHANGED <<fences, engine>>
    BY <1>6, BreachSent DEF maps, engineSide
  <2> QED BY <2>1, WatchedQuiet
<1> QED BY <1>2, <1>3, <1>4, <1>5, <1>6

LEMMA NextWatched == Types /\ Lives /\ RestartsFit /\ Watched /\ [Next]_vars => Watched'
<1> SUFFICES ASSUME Types, Lives, RestartsFit, Watched, [Next]_vars PROVE Watched'
  OBVIOUS
<1>1. CASE UNCHANGED vars
  <2>1. UNCHANGED <<adapterQ, fences, engine>>
    BY <1>1 DEF vars, maps, engineSide
  <2> QED BY <2>1, WatchedSame DEF Held
<1> QED BY <1>1, CallsWatched, AdapterWatched, ApiThreadWatched DEF Next

LEMMA InitWatched == Init => RestartsFit /\ Watched
<1> SUFFICES ASSUME Init PROVE RestartsFit /\ Watched
  OBVIOUS
<1>1. /\ apiQ = <<>> /\ Len(apiQ) = 0 /\ engine.up
      /\ engine.fences = [h \in HwIds |-> NoFence]
  BY DEF Init
<1>2. \A h \in HwIds : ~Held(h) /\ engine.fences[h].id = 0
  BY <1>1 DEF Held, NoFence
<1> QED BY <1>1, <1>2, Numbers DEF RestartsFit, Watched, WatchedIsKept, OptionsWillFit

\* At rest the engine watches every fence that is kept for a client that is there, and no
\* other one of such a client, under the same number and with the same options - whatever
\* restarts, refusals and departures crossed, and also after a request met another fence.
KeptWatched == AtRest => KeptAreWatched

LEMMA RestWatched ==
    ASSUME Sound, RestartsFit, Watched
    PROVE  KeptWatched
<1> SUFFICES ASSUME adapterQ = <<>>, apiQ = <<>>,
                    NEW h \in HwIds, Alive(fences[h]) \/ Alive(engine.fences[h])
             PROVE  engine.fences[h].id = fences[h].id /\ engine.fences[h].opt = fences[h].opt
  BY DEF KeptWatched, KeptAreWatched, AtRest
<1>0. Types /\ KnownIds /\ Mirror
  BY DEF Sound, Own
<1>1. engine.up /\ Len(adapterQ) = 0
  BY DEF RestartsFit
<1>2. \A id : WillKeep(adapterQ, Len(adapterQ), fences, h, id) <=> fences[h].id = id
  BY <1>1 DEF WillKeep, Last, Silent
<1>3. Held(h) => engine.fences[h].opt = fences[h].opt
  BY WillNow DEF Watched, OptionsWillFit
<1>4. CASE Alive(fences[h])
  <2>1. fences[h].id \in Known /\ Live(fences[h].id)
    BY <1>0, <1>4 DEF KnownIds, Live, Alive
  <2>2. engine.fences[h].id = fences[h].id
    BY <1>0, <1>1, <1>2, <2>1 DEF Mirror
  <2>3. Held(h)
    BY <1>0, <2>1, <2>2, KnownNumbers DEF Held, NoFence
  <2> QED BY <1>3, <2>2, <2>3
<1>5. CASE Alive(engine.fences[h])
  <2>1. Held(h) /\ engine.fences[h].id \in Ids
    BY <1>0, <1>5, FenceFields DEF Types, Held, Alive
  <2>2. fences[h].id = engine.fences[h].id
    BY <1>2, <2>1 DEF Watched, WatchedIsKept
  <2> QED BY <1>3, <2>1, <2>2
<1> QED BY <1>4, <1>5

-----------------------------------------------------------------------------
(* What the engine agreed to holds, if nothing is excepted: a restart brings *)
(* each fence back as it was, and no request meets the fence of another.     *)

\* Clients leave and ids are added.
LEMMA OwnersGrow ==
    ASSUME Types, [Next]_vars
    PROVE  /\ clients' \subseteq clients /\ Known \subseteq Known'
           /\ \A id \in Known : owner'[id] = owner[id]
           /\ \A id : Here(id)' => Here(id)
<1>1. clients' \subseteq clients
  BY DEF Next, vars, AddGeofences, OtherCommand, Command, RemoveClient, EngineCrash, Breach, ApiThread,
         ReturnTurn, Serve, Fail, Reopen, AdapterThread, HandleCommand, HandleTurn, HandleAnswer,
         HandleRemoveClient, HandleGone, HandleEngineUp, HandleRestored, HandleBreach
<1>2. CASE AddGeofences
  <2>1. PICK n, batch : AddEffect(n, batch)
    BY <1>2, Adds
  <2>2. /\ Len(owner') \in Nat /\ Len(owner) \in Nat /\ Len(owner) <= Len(owner')
        /\ \A id \in 1..Len(owner) : owner'[id] = owner[id]
    BY <2>1 DEF AddEffect
  <2> QED BY <1>1, <2>2 DEF Known, Here
<1>3. CASE ~AddGeofences
  <2>1. owner' = owner
    BY <1>3 DEF Next, vars, OtherCommand, Command, RemoveClient, EngineCrash, Breach, ApiThread,
         ReturnTurn, Serve, Fail, Reopen, AdapterThread, HandleCommand, HandleTurn, HandleAnswer,
         HandleRemoveClient, HandleGone, HandleEngineUp, HandleRestored, HandleBreach
  <2> QED BY <1>1, <2>1 DEF Known, Here
<1> QED BY <1>2, <1>3

\* The steps of others than the adapter thread, as the adapter sees them: a message comes.
Calling == AddGeofences \/ OtherCommand \/ RemoveClient \/ Breach
ComesFor(m) ==
    \/ m.type \notin {"answer", "engineUp"} /\ (Calling \/ ReturnTurn)
    \/ m.type = "engineUp" /\ Reopen
    \/ /\ m.type = "answer" /\ apiQ # <<>> /\ m.to = Head(apiQ) /\ m.to.op \in Commands
       /\ (m.ok /\ ServeEffect(m.to, m.hwId)) \/ (~m.ok /\ FailEffect(m.to))
Quiet == EngineCrash \/ (\E m : m.then.for = "nobody" /\ ((\E h : ServeEffect(m, h)) \/ FailEffect(m)))

LEMMA MessageComes ==
    ASSUME Types, Calling \/ EngineCrash \/ ApiThread
    PROVE  /\ UNCHANGED <<fences, hwIdOf, answered>>
           /\ \/ Quiet /\ adapterQ' = adapterQ
              \/ \E m \in AdapterMessages : adapterQ' = Append(adapterQ, m) /\ ComesFor(m)
<1>0. UNCHANGED <<fences, hwIdOf, answered>>
  BY DEF Calling, AddGeofences, OtherCommand, Command, RemoveClient, EngineCrash, Breach, ApiThread, ReturnTurn, Serve,
         Fail, Reopen, maps
<1>1. ASSUME Calling, NEW batch, CommandEffect(batch)
      PROVE  \E m \in AdapterMessages : adapterQ' = Append(adapterQ, m) /\ ComesFor(m)
  <2> DEFINE m == [type |-> "command", batch |-> Len(batches) + 1]
  <2>1. m \in AdapterMessages /\ adapterQ' = Append(adapterQ, m) /\ m.type = "command"
    BY <1>1 DEF CommandEffect
  <2> HIDE DEF m
  <2>2. ComesFor(m)
    BY <1>1, <2>1 DEF ComesFor
  <2> QED BY <2>1, <2>2
<1>2. CASE AddGeofences
  BY <1>0, <1>1, <1>2, Adds DEF AddEffect, Calling
<1>3. CASE OtherCommand
  BY <1>0, <1>1, <1>3, Others DEF OtherEffect, Calling
<1>4. CASE RemoveClient
  <2>1. PICK c \in clients : adapterQ' = Append(adapterQ, [type |-> "removeClient", client |-> c])
    BY <1>4 DEF RemoveClient
  <2>2. [type |-> "removeClient", client |-> c] \in AdapterMessages
    BY DEF Types, AdapterMessages, RemoveMessages
  <2>3. ComesFor([type |-> "removeClient", client |-> c])
    BY <1>4 DEF ComesFor, Calling
  <2> QED BY <1>0, <2>1, <2>2, <2>3
<1>5. CASE Breach
  <2>1. PICK m \in AdapterMessages : m.type = "breach" /\ adapterQ' = Append(adapterQ, m)
    BY <1>5, BreachSent
  <2> QED BY <1>0, <1>5, <2>1 DEF ComesFor, Calling
<1>6. CASE EngineCrash
  BY <1>0, <1>6 DEF EngineCrash, Quiet
<1>7. CASE ReturnTurn
  <2>1. PICK m \in TurnMessages : m \in AdapterMessages /\ m.type = "turn" /\ adapterQ' = Append(adapterQ, m)
    BY <1>7, TurnReturns
  <2> QED BY <1>0, <1>7, <2>1 DEF ComesFor
<1>8. CASE Serve
  <2>1. PICK m, h : ServeEffect(m, h)
    BY <1>8, Serves
  <2>2. Replies(m, TRUE, h) /\ m \in Requests /\ m = Head(apiQ) /\ apiQ # <<>> /\ m.op \in Commands
    BY <2>1, RequestFields DEF ServeEffect
  <2>3. CASE m.then.for = "nobody" /\ adapterQ' = adapterQ
    BY <1>0, <2>1, <2>3 DEF Quiet
  <2>4. CASE \E a \in Answers :
                /\ a \in AdapterMessages /\ adapterQ' = Append(adapterQ, a)
                /\ a.type = "answer" /\ a.ok = TRUE /\ a.hwId = h /\ a.to = m
    BY <1>0, <2>1, <2>2, <2>4 DEF ComesFor
  <2> QED BY <2>2, <2>3, <2>4 DEF Replies
<1>9. CASE Fail
  <2>1. PICK m : FailEffect(m)
    BY <1>9, Fails
  <2>2. Replies(m, FALSE, m.hwId) /\ m \in Requests /\ m = Head(apiQ) /\ apiQ # <<>> /\ m.op \in Commands
    BY <2>1, RequestFields DEF FailEffect
  <2>3. CASE m.then.for = "nobody" /\ adapterQ' = adapterQ
    BY <1>0, <2>1, <2>3 DEF Quiet
  <2>4. CASE \E a \in Answers :
                /\ a \in AdapterMessages /\ adapterQ' = Append(adapterQ, a)
                /\ a.type = "answer" /\ a.ok = FALSE /\ a.hwId = m.hwId /\ a.to = m
    BY <1>0, <2>1, <2>2, <2>4 DEF ComesFor
  <2> QED BY <2>2, <2>3, <2>4 DEF Replies
<1>10. CASE Reopen
  <2>1. [type |-> "engineUp"] \in AdapterMessages
    BY DEF AdapterMessages, UpMessages
  <2>2. adapterQ' = Append(adapterQ, [type |-> "engineUp"])
    BY <1>10 DEF Reopen
  <2>3. ComesFor([type |-> "engineUp"])
    BY <1>10 DEF ComesFor
  <2> QED BY <1>0, <2>1, <2>2, <2>3
<1> QED BY <1>2, <1>3, <1>4, <1>5, <1>6, <1>7, <1>8, <1>9, <1>10 DEF ApiThread, Calling

\* What is under way to the engine after such a step.
LEMMA EngineTakes ==
    ASSUME Types, Calling \/ EngineCrash \/ ApiThread
    PROVE  \/ Calling /\ apiQ' = apiQ
           \/ EngineCrash /\ apiQ' = Append(apiQ, [op |-> "ssr"])
           \/ ApiThread /\ apiQ # <<>> /\ apiQ' = Tail(apiQ)
BY DEF Calling, AddGeofences, OtherCommand, Command, RemoveClient, EngineCrash, Breach, ApiThread, ReturnTurn, Serve,
       Fail, Reopen, engineSide

LEMMA EngineHas ==
    ASSUME Types, Calling \/ EngineCrash \/ ApiThread
    PROVE  \A m \in Elements(apiQ') : m \in Elements(apiQ) \/ (EngineCrash /\ m.op = "ssr")
<1>0. apiQ \in Seq(ApiMessages) /\ [op |-> "ssr"] \in ApiMessages
  BY DEF Types, ApiMessages
<1>1. CASE apiQ' = Append(apiQ, [op |-> "ssr"]) /\ EngineCrash
  BY <1>0, <1>1, ElementsOfAppend
<1>2. CASE apiQ # <<>> /\ apiQ' = Tail(apiQ)
  BY <1>0, <1>2, ElementsOfTail
<1> QED BY <1>1, <1>2, EngineTakes

\* A fence that is removed because its client left is not of a client that is there.
GoneLeft ==
    /\ \A m \in Elements(adapterQ) : m.type = "answer" /\ m.to.then.for = "gone" => ~Here(m.to.id)
    /\ \A m \in Elements(apiQ) : m.op \in Commands /\ m.then.for = "gone" => ~Here(m.id)

LEMMA NextGoneLeft == Types /\ Lives /\ GoneLeft /\ [Next]_vars => GoneLeft'
<1> SUFFICES ASSUME Types, Lives, GoneLeft, [Next]_vars PROVE GoneLeft'
  OBVIOUS
<1>0. adapterQ \in Seq(AdapterMessages) /\ apiQ \in Seq(ApiMessages) /\ \A id : Here(id)' => Here(id)
  BY OwnersGrow DEF Types
<1>1. CASE UNCHANGED vars
  <2>1. UNCHANGED <<adapterQ, apiQ>>
    BY <1>1 DEF vars, engineSide
  <2> QED BY <1>0, <2>1 DEF GoneLeft
<1>2. CASE AdapterThread
  <2>1. PICK more \in Seq(ApiMessages) : apiQ' = apiQ \o more /\ \A m \in Elements(more) : SentFor(m)
    BY <1>2, ApiSent
  <2>2. Elements(apiQ') = Elements(apiQ) \cup Elements(more)
    BY <1>0, <2>1, ElementsOfJoin
  <2>3. adapterQ # <<>> /\ adapterQ' = Tail(adapterQ)
    BY <1>2, AdapterTakes
  <2>4. Elements(adapterQ') \subseteq Elements(adapterQ)
    BY <1>0, <2>3, ElementsOfTail
  <2>5. \A m \in Elements(more) : m.op \in Commands /\ m.then.for = "gone" => ~Here(m.id)'
    BY <2>1, Numbers DEF SentFor
  <2> QED BY <1>0, <2>2, <2>4, <2>5 DEF GoneLeft
<1>3. CASE Calling \/ EngineCrash \/ ApiThread
  <2>1. \A m \in Elements(apiQ') : m.op \in Commands => m \in Elements(apiQ)
    BY <1>3, EngineHas DEF Commands
  <2>2. \A m \in Elements(adapterQ') : m \in Elements(adapterQ) \/ ComesFor(m)
    <3>1. \/ adapterQ' = adapterQ
          \/ \E m \in AdapterMessages : adapterQ' = Append(adapterQ, m) /\ ComesFor(m)
      BY <1>3, MessageComes
    <3>2. CASE adapterQ' = adapterQ
      BY <3>2
    <3>3. ASSUME NEW m \in AdapterMessages, adapterQ' = Append(adapterQ, m), ComesFor(m)
          PROVE  \A n \in Elements(adapterQ') : n \in Elements(adapterQ) \/ ComesFor(n)
      <4>1. Elements(adapterQ') = Elements(adapterQ) \cup {m}
        BY <1>0, <3>3, ElementsOfAppend
      <4> QED BY <3>3, <4>1
    <3> QED BY <3>1, <3>2, <3>3
  <2>3. \A m : ComesFor(m) /\ m.type = "answer" => m.to \in Elements(apiQ) /\ m.to.op \in Commands
    BY ApiTaken DEF ComesFor
  <2> QED BY <1>0, <2>1, <2>2, <2>3 DEF GoneLeft
<1> QED BY <1>1, <1>2, <1>3 DEF Next, Calling

\* Of the answers that the adapter will get, one that changes a fence finds that fence under its
\* number.
AnswersFit ==
    \A k \in 1..Len(adapterQ), h \in HwIds :
        IsOk(adapterQ[k], h) /\ adapterQ[k].to.op # "add" =>
            WillKeep(adapterQ, k - 1, fences, h, adapterQ[k].to.id)

LEMMA NextAnswersFit ==
    Types /\ Lives /\ Watched /\ AnswersFit /\ [Next]_vars /\ ~strayed' => AnswersFit'
<1> SUFFICES ASSUME Types, Lives, Watched, AnswersFit, [Next]_vars, ~strayed' PROVE AnswersFit'
  OBVIOUS
<1>0. adapterQ \in Seq(AdapterMessages)
  BY DEF Types
<1>1. CASE UNCHANGED vars
  BY <1>1 DEF vars, maps, AnswersFit
<1>2. CASE AdapterThread
  <2> SUFFICES ASSUME NEW k \in 1..Len(adapterQ'), NEW h \in HwIds, IsOk(adapterQ'[k], h), adapterQ'[k].to.op # "add"
               PROVE  WillKeep(adapterQ', k - 1, fences', h, adapterQ'[k].to.id)
    BY DEF AnswersFit
  <2>1. /\ adapterQ # <<>> /\ adapterQ' = Tail(adapterQ)
        /\ k + 1 \in 1..Len(adapterQ) /\ adapterQ'[k] = adapterQ[k + 1]
    BY <1>2, AdapterTakes, Taken
  <2>2. k - 1 \in 0..Len(Tail(adapterQ)) /\ (k + 1) - 1 = (k - 1) + 1
    BY <2>1
  <2>3. adapterQ[k + 1].to.id \in Ids
    <3>1. adapterQ[k + 1] \in AdapterMessages
      BY <1>0, <2>1
    <3> QED BY <2>1, <3>1, AdapterFields, RequestFields DEF IsOk
  <2>4. WillKeep(adapterQ, (k + 1) - 1, fences, h, adapterQ[k + 1].to.id)
    BY <2>1 DEF AnswersFit
  <2>5. WillKeep(adapterQ, (k - 1) + 1, fences, h, adapterQ[k + 1].to.id)
    BY <2>2, <2>4
  <2>6. WillKeep(adapterQ', k - 1, fences', h, adapterQ[k + 1].to.id)
    BY <1>2, <2>1, <2>2, <2>3, <2>5, AdapterKeeps, KeepTaken
  <2> QED BY <2>1, <2>6
<1>3. CASE Calling \/ EngineCrash \/ ApiThread
  <2>0. UNCHANGED fences
    BY <1>3, MessageComes
  <2>1. CASE adapterQ' = adapterQ
    BY <2>0, <2>1 DEF AnswersFit
  <2>2. CASE \E m \in AdapterMessages : adapterQ' = Append(adapterQ, m) /\ ComesFor(m)
    <3>1. PICK m \in AdapterMessages : adapterQ' = Append(adapterQ, m) /\ ComesFor(m)
      BY <2>2
    <3>2. /\ Len(adapterQ') = Len(adapterQ) + 1 /\ Len(adapterQ) \in Nat
          /\ \A k \in 1..Len(adapterQ) : adapterQ'[k] = adapterQ[k]
          /\ adapterQ'[Len(adapterQ) + 1] = m
      BY <1>0, <3>1, Appended
    <3>3. \A h, id : \A k \in 0..Len(adapterQ) :
             WillKeep(adapterQ, k, fences, h, id) => WillKeep(adapterQ', k, fences', h, id)
      BY <2>0, <3>1, KeepAdded
    <3> SUFFICES ASSUME NEW k \in 1..Len(adapterQ'), NEW h \in HwIds, IsOk(adapterQ'[k], h), adapterQ'[k].to.op # "add"
                 PROVE  WillKeep(adapterQ', k - 1, fences', h, adapterQ'[k].to.id)
      BY DEF AnswersFit
    <3>4. k - 1 \in 0..Len(adapterQ) /\ (k \in 1..Len(adapterQ) \/ k = Len(adapterQ) + 1)
      BY <3>2
    <3>5. CASE k \in 1..Len(adapterQ)
      BY <3>2, <3>3, <3>4, <3>5 DEF AnswersFit
    <3>6. CASE k = Len(adapterQ) + 1
      <4>1. IsOk(m, h) /\ m.to.op # "add" /\ adapterQ'[k] = m /\ k - 1 = Len(adapterQ)
        BY <3>2, <3>6
      <4>2. ServeEffect(m.to, h) /\ m.to \in Requests
        BY <3>1, <4>1 DEF ComesFor, IsOk, ServeEffect
      <4>3. engine.fences[h].id = m.to.id
        BY <4>1, <4>2 DEF ServeEffect, Types
      <4>4. WillKeep(adapterQ, Len(adapterQ), fences, h, m.to.id)
        BY <4>2, <4>3, RequestFields DEF Watched, WatchedIsKept
      <4> QED BY <3>3, <3>4, <4>1, <4>4
    <3> QED BY <3>4, <3>5, <3>6
  <2> QED BY <1>3, <2>1, <2>2, MessageComes
<1> QED BY <1>1, <1>2, <1>3 DEF Next, Calling

\* A restart on its way to the adapter, what only a restart sends, and the time before it.
IsUp(m) == m.type = "engineUp"
UpComing == \E m \in Elements(adapterQ) : IsUp(m)
NoRestore ==
    /\ \A m \in Elements(adapterQ) : m.type = "answer" => m.to.then.for # "restore"
    /\ \A m \in Elements(apiQ) : m.op \in Commands => m.then.for \notin {"restore", "nobody"}
Early == used.crashes = 0 \/ ~engine.up \/ UpComing

\* Until the adapter handles its first restart it has sent nothing that restores.
Phases ==
    used.crashes <= 1 =>
        /\ used.crashes = 0 => engine.up
        /\ UpComing => engine.up /\ used.crashes # 0
        /\ \A k, l \in 1..Len(adapterQ) : IsUp(adapterQ[k]) /\ IsUp(adapterQ[l]) => k = l
        /\ Early => NoRestore

\* The faults are counted.
LEMMA FaultsGrow ==
    ASSUME Types, [Next]_vars
    PROVE  /\ used.crashes \in Nat /\ used'.crashes \in Nat
           /\ used.crashes <= used'.crashes /\ (used.refusals = 0 \/ used'.refusals # 0)
           /\ (EngineCrash => used'.crashes = used.crashes + 1)
           /\ (~EngineCrash => used'.crashes = used.crashes)
<1>0. used \in [calls : 0..MaxCalls, breaches : Nat, refusals : Nat, crashes : Nat]
  BY DEF Types
<1>1. CASE AddGeofences \/ OtherCommand \/ RemoveClient
  <2>1. used' = [used EXCEPT !.calls = @ + 1]
    BY <1>1 DEF AddGeofences, OtherCommand, Command, RemoveClient, Calls
  <2>2. ~EngineCrash
    BY <1>0, <2>1 DEF EngineCrash
  <2> QED BY <1>0, <2>1, <2>2
<1>2. CASE Breach
  <2>1. used' = [used EXCEPT !.breaches = @ + 1]
    BY <1>2 DEF Breach
  <2>2. ~EngineCrash
    BY <1>0, <2>1 DEF EngineCrash
  <2> QED BY <1>0, <2>1, <2>2
<1>3. CASE EngineCrash
  <2>1. used' = [used EXCEPT !.crashes = @ + 1]
    BY <1>3 DEF EngineCrash
  <2> QED BY <1>0, <1>3, <2>1
<1>4. CASE AdapterThread \/ ReturnTurn \/ Serve \/ Reopen \/ UNCHANGED vars
  <2>1. used' = used
    BY <1>4 DEF vars, AdapterThread, HandleCommand, HandleTurn, HandleAnswer, HandleRemoveClient, HandleGone, HandleEngineUp,
       HandleRestored, HandleBreach, ReturnTurn, Serve, Reopen
  <2>2. ~EngineCrash
    BY <1>0, <2>1 DEF EngineCrash
  <2> QED BY <1>0, <2>1, <2>2
<1>5. CASE Fail
  <2>1. PICK m : FailEffect(m)
    BY <1>5, Fails
  <2>2. used'.crashes = used.crashes
    BY <2>1 DEF FailEffect
  <2>3. used' = used \/ used' = [used EXCEPT !.refusals = @ + 1]
    BY <1>5 DEF Fail
  <2>4. ~EngineCrash
    BY <1>0, <2>2 DEF EngineCrash
  <2> QED BY <1>0, <2>2, <2>3, <2>4
<1> QED BY <1>1, <1>2, <1>3, <1>4, <1>5 DEF Next, ApiThread

LEMMA DisturbedStays == Types /\ [Next]_vars /\ Undisturbed' => Undisturbed
<1> SUFFICES ASSUME Types, [Next]_vars, Undisturbed' PROVE Undisturbed
  OBVIOUS
<1>1. ~strayed
  BY StaysStray DEF Undisturbed
<1>2. /\ used.crashes \in Nat /\ used'.crashes \in Nat
      /\ used.crashes <= used'.crashes /\ (used.refusals = 0 \/ used'.refusals # 0)
  BY FaultsGrow
<1> QED BY <1>1, <1>2 DEF Undisturbed

\* Only crash and restart change whether the engine is up.
LEMMA UpSame ==
    ASSUME Types, [Next]_vars, ~EngineCrash, ~Reopen
    PROVE  engine'.up = engine.up
<1>1. CASE Serve
  <2>1. PICK m, h : ServeEffect(m, h)
    BY <1>1, Serves
  <2> QED BY <2>1 DEF ServeEffect, Types
<1>2. CASE ~Serve
  <2>1. engine' = engine
    BY <1>2 DEF Next, vars, engineSide, AddGeofences, OtherCommand, Command, RemoveClient, Breach, ApiThread,
         ReturnTurn, Fail, AdapterThread, HandleCommand, HandleTurn, HandleAnswer,
         HandleRemoveClient, HandleGone, HandleEngineUp, HandleRestored, HandleBreach
  <2> QED BY <2>1
<1> QED BY <1>1, <1>2

\* The engine is opened again: it was down, and the message comes.
LEMMA Reopened ==
    ASSUME Types, RestartsFit, Reopen
    PROVE  /\ ~engine.up /\ engine'.up /\ engine'.fences = engine.fences /\ (\A h \in HwIds : ~Held(h))
           /\ apiQ # <<>> /\ apiQ' = Tail(apiQ) /\ Head(apiQ).op = "ssr"
           /\ [type |-> "engineUp"] \in AdapterMessages
           /\ adapterQ' = Append(adapterQ, [type |-> "engineUp"])
<1>1. apiQ # <<>> /\ Head(apiQ).op = "ssr"
  BY DEF Reopen
<1>2. Head(apiQ) = apiQ[1] /\ 1 \in 1..Len(apiQ)
  BY <1>1, ApiTaken
<1>3. ~engine.up
  BY <1>1, <1>2 DEF RestartsFit, IsRestart
<1>4. \A h \in HwIds : ~Held(h)
  BY <1>3 DEF RestartsFit
<1>5. engine'.up /\ engine'.fences = engine.fences
  BY DEF Reopen, Types
<1>6. [type |-> "engineUp"] \in AdapterMessages
  BY DEF AdapterMessages, UpMessages
<1> QED BY <1>1, <1>3, <1>4, <1>5, <1>6 DEF Reopen

\* The engine crashes.
LEMMA Crashed ==
    ASSUME Types, EngineCrash
    PROVE  /\ ~engine'.up /\ \A h \in HwIds : engine'.fences[h] = NoFence
           /\ adapterQ' = adapterQ /\ apiQ' = Append(apiQ, [op |-> "ssr"])
           /\ Elements(apiQ') = Elements(apiQ) \cup {[op |-> "ssr"]}
<1>1. [op |-> "ssr"] \in ApiMessages /\ apiQ \in Seq(ApiMessages) /\ apiQ' = Append(apiQ, [op |-> "ssr"])
  BY DEF Types, ApiMessages, EngineCrash
<1>2. Elements(apiQ') = Elements(apiQ) \cup {[op |-> "ssr"]}
  BY <1>1, ElementsOfAppend
<1> QED BY <1>1, <1>2 DEF EngineCrash

\* The adapter takes a restart: there is no other one, and nothing that restores.
LEMMA UpTaken ==
    ASSUME Types, Phases, used.crashes <= 1, HandleEngineUp
    PROVE  /\ adapterQ # <<>> /\ IsUp(Head(adapterQ)) /\ adapterQ' = Tail(adapterQ)
           /\ UpComing /\ NoRestore /\ engine.up /\ used.crashes # 0
           /\ \A k \in 1..Len(Tail(adapterQ)) : ~IsUp(Tail(adapterQ)[k])
<1>1. adapterQ # <<>> /\ IsUp(Head(adapterQ)) /\ adapterQ' = Tail(adapterQ)
  BY DEF HandleEngineUp, Take, IsUp
<1>2. /\ Head(adapterQ) = adapterQ[1] /\ Head(adapterQ) \in Elements(adapterQ) /\ 1 \in 1..Len(adapterQ)
      /\ \A k \in 1..Len(Tail(adapterQ)) :
            k + 1 \in 1..Len(adapterQ) /\ k + 1 # 1 /\ Tail(adapterQ)[k] = adapterQ[k + 1]
  BY <1>1, Taken
<1>3. UpComing
  BY <1>1, <1>2 DEF UpComing
<1>4. NoRestore /\ engine.up /\ used.crashes # 0
  BY <1>3 DEF Phases, Early
<1>5. \A k \in 1..Len(Tail(adapterQ)) : ~IsUp(Tail(adapterQ)[k])
  BY <1>1, <1>2 DEF Phases
<1> QED BY <1>1, <1>3, <1>4, <1>5

LEMMA AdapterPhases ==
    ASSUME Types, Lives, Phases, AdapterThread
    PROVE  Phases' /\ (used.crashes <= 1 /\ Early' => Early /\ ~HandleEngineUp /\ ~HandleRestored)
<1> SUFFICES ASSUME used.crashes <= 1
             PROVE  Phases' /\ (Early' => Early /\ ~HandleEngineUp /\ ~HandleRestored)
  BY AdapterTakes DEF Phases
<1>1. adapterQ # <<>> /\ adapterQ' = Tail(adapterQ) /\ adapterQ \in Seq(AdapterMessages) /\ UNCHANGED <<engine, used>>
  BY AdapterTakes
<1>2. Elements(adapterQ') \subseteq Elements(adapterQ) /\ Head(adapterQ) \in Elements(adapterQ)
  BY <1>1, ElementsOfTail
<1>3. \A k \in 1..Len(adapterQ') : k + 1 \in 1..Len(adapterQ) /\ adapterQ'[k] = adapterQ[k + 1]
  BY <1>1, Taken
<1>4. UpComing' => UpComing
  BY <1>2 DEF UpComing
<1>5. \A k, l \in 1..Len(adapterQ') : IsUp(adapterQ'[k]) /\ IsUp(adapterQ'[l]) => k = l
  BY <1>3 DEF Phases
<1>6. Early' => Early
  BY <1>1, <1>4 DEF Early
<1>7. ASSUME Early' PROVE ~HandleEngineUp
  <2> SUFFICES ASSUME HandleEngineUp PROVE FALSE
    OBVIOUS
  <2>1. engine.up /\ used.crashes # 0 /\ \A k \in 1..Len(adapterQ') : ~IsUp(adapterQ'[k])
    BY <1>1, UpTaken
  <2>2. ~UpComing'
    BY <2>1 DEF UpComing, Elements
  <2> QED BY <1>1, <1>7, <2>1, <2>2 DEF Early
<1>8. Early' => NoRestore
  BY <1>6 DEF Phases
<1>9. ASSUME NoRestore PROVE ~HandleRestored
  BY <1>2, <1>9 DEF HandleRestored, TakeAnswer, Take, NoRestore
<1>10. ASSUME Early' PROVE NoRestore'
  <2>1. PICK more \in Seq(ApiMessages) : apiQ' = apiQ \o more /\ \A m \in Elements(more) : SentFor(m)
    BY ApiSent
  <2>2. apiQ \in Seq(ApiMessages)
    BY DEF Types
  <2>3. Elements(apiQ') = Elements(apiQ) \cup Elements(more)
    BY <2>1, <2>2, ElementsOfJoin
  <2>4. \A m \in Elements(more) : m.op \in Commands => m.then.for \notin {"restore", "nobody"}
    BY <1>7, <1>8, <1>9, <1>10, <2>1 DEF SentFor
  <2> QED BY <1>2, <1>8, <1>10, <2>3, <2>4 DEF NoRestore
<1>11. Phases'
  BY <1>1, <1>4, <1>5, <1>10 DEF Phases
<1> QED BY <1>6, <1>7, <1>8, <1>9, <1>11

LEMMA OthersPhases ==
    ASSUME Types, RestartsFit, Phases, Calling \/ EngineCrash \/ ApiThread
    PROVE  Phases' /\ (used'.crashes <= 1 /\ Early' => Early)
<1> SUFFICES ASSUME used'.crashes <= 1 PROVE Phases' /\ (Early' => Early)
  BY DEF Phases
<1>0. adapterQ \in Seq(AdapterMessages) /\ apiQ \in Seq(ApiMessages)
  BY DEF Types
<1>1. [Next]_vars
  BY DEF Next, Calling
<1>2. /\ used.crashes <= 1 /\ used.crashes \in Nat
      /\ (EngineCrash => used'.crashes = used.crashes + 1)
      /\ (~EngineCrash => used'.crashes = used.crashes)
  BY <1>1, FaultsGrow
<1>3. \A m \in Elements(apiQ') : m \in Elements(apiQ) \/ m.op = "ssr"
  BY EngineHas
<1>4. CASE EngineCrash
  <2>1. used.crashes = 0 /\ used'.crashes = 1
    BY <1>2, <1>4
  <2>2. Early /\ NoRestore /\ ~UpComing
    BY <1>2, <2>1 DEF Early, Phases
  <2>3. adapterQ' = adapterQ
    BY <1>4, Crashed
  <2>4. NoRestore'
    BY <1>3, <2>2, <2>3 DEF NoRestore, Commands
  <2>5. ~UpComing' /\ \A k \in 1..Len(adapterQ) : ~IsUp(adapterQ[k])
    BY <2>2, <2>3 DEF UpComing, Elements
  <2> QED BY <2>1, <2>2, <2>3, <2>4, <2>5 DEF Phases
<1>5. CASE Reopen
  <2>1. /\ ~engine.up /\ engine'.up /\ [type |-> "engineUp"] \in AdapterMessages
        /\ adapterQ' = Append(adapterQ, [type |-> "engineUp"])
    BY <1>5, Reopened
  <2>2. ~EngineCrash
    BY <2>1 DEF EngineCrash
  <2>3. Early /\ NoRestore /\ ~UpComing /\ used'.crashes # 0
    BY <1>2, <2>1, <2>2 DEF Early, Phases
  <2>4. Elements(adapterQ') = Elements(adapterQ) \cup {[type |-> "engineUp"]}
    BY <1>0, <2>1, ElementsOfAppend
  <2>5. NoRestore'
    BY <1>3, <2>3, <2>4 DEF NoRestore, Commands
  <2>6. /\ Len(adapterQ') = Len(adapterQ) + 1 /\ Len(adapterQ) \in Nat
        /\ \A k \in 1..Len(adapterQ) : adapterQ'[k] = adapterQ[k]
    BY <1>0, <2>1, Appended
  <2>7. \A k \in 1..Len(adapterQ') : IsUp(adapterQ'[k]) => k = Len(adapterQ) + 1
    BY <2>3, <2>6 DEF UpComing, Elements
  <2> QED BY <2>1, <2>3, <2>5, <2>7 DEF Phases
<1>6. CASE ~EngineCrash /\ ~Reopen
  <2>1. engine'.up = engine.up /\ used'.crashes = used.crashes
    BY <1>1, <1>2, <1>6, UpSame
  <2>2. \/ adapterQ' = adapterQ
        \/ \E m \in AdapterMessages : adapterQ' = Append(adapterQ, m) /\ ComesFor(m)
    BY MessageComes
  <2>3. \A m : ComesFor(m) => ~IsUp(m) /\ (m.type = "answer" => m.to \in Elements(apiQ) /\ m.to.op \in Commands)
    BY <1>6, ApiTaken DEF ComesFor, IsUp
  <2>4. ASSUME adapterQ' = adapterQ
        PROVE  /\ \A m \in Elements(adapterQ') : m \in Elements(adapterQ) \/ ComesFor(m)
               /\ \A k, l \in 1..Len(adapterQ') : IsUp(adapterQ'[k]) /\ IsUp(adapterQ'[l]) => k = l
    BY <1>2, <2>4 DEF Phases
  <2>5. ASSUME NEW m \in AdapterMessages, adapterQ' = Append(adapterQ, m), ComesFor(m)
        PROVE  /\ \A n \in Elements(adapterQ') : n \in Elements(adapterQ) \/ ComesFor(n)
               /\ \A k, l \in 1..Len(adapterQ') : IsUp(adapterQ'[k]) /\ IsUp(adapterQ'[l]) => k = l
    <3>1. Elements(adapterQ') = Elements(adapterQ) \cup {m}
      BY <1>0, <2>5, ElementsOfAppend
    <3>2. /\ Len(adapterQ') = Len(adapterQ) + 1 /\ Len(adapterQ) \in Nat
          /\ \A k \in 1..Len(adapterQ) : adapterQ'[k] = adapterQ[k]
          /\ adapterQ'[Len(adapterQ) + 1] = m
      BY <1>0, <2>5, Appended
    <3>3. \A k \in 1..Len(adapterQ') : IsUp(adapterQ'[k]) => k \in 1..Len(adapterQ) /\ IsUp(adapterQ[k])
      BY <2>3, <2>5, <3>2
    <3> QED BY <1>2, <2>5, <3>1, <3>2, <3>3 DEF Phases
  <2>6. /\ \A m \in Elements(adapterQ') : m \in Elements(adapterQ) \/ ComesFor(m)
        /\ \A k, l \in 1..Len(adapterQ') : IsUp(adapterQ'[k]) /\ IsUp(adapterQ'[l]) => k = l
    BY <2>2, <2>4, <2>5
  <2>7. UpComing' => UpComing
    BY <2>3, <2>6 DEF UpComing
  <2>8. Early' => Early
    BY <2>1, <2>7 DEF Early
  <2>9. NoRestore => NoRestore'
    BY <1>3, <2>3, <2>6 DEF NoRestore, Commands
  <2> QED BY <1>2, <2>1, <2>6, <2>7, <2>8, <2>9 DEF Phases
<1> QED BY <1>4, <1>5, <1>6

LEMMA NextPhases ==
    ASSUME Types, Lives, RestartsFit, Phases, [Next]_vars
    PROVE  Phases' /\ (used'.crashes <= 1 /\ Early' => Early)
<1>1. CASE AdapterThread
  BY <1>1, AdapterPhases, AdapterTakes
<1>2. CASE Calling \/ EngineCrash \/ ApiThread
  BY <1>2, OthersPhases
<1>3. CASE UNCHANGED vars
  BY <1>3 DEF vars, engineSide, Phases, Early, NoRestore, UpComing
<1> QED BY <1>1, <1>2, <1>3 DEF Next, Calling

\* How a fence is, in the words of the engine's answers.
State(fence) == IF fence.paused THEN "paused" ELSE "running"

\* After an answer the adapter keeps the fence as the engine said.
LEMMA AnswerPauses ==
    ASSUME Types, HandleAnswer, NEW m, NEW ok, NEW h, NEW b, AnswerEffect(m, ok, h, b), ok
    PROVE  /\ m.op = "add" => State(fences'[h]) = Agreed(m.op)
           /\ m.op \in {"pause", "resume"} /\ fences[h] # NoFence => State(fences'[h]) = Agreed(m.op)
           /\ m.op = "modify" /\ fences[h] # NoFence => State(fences'[h]) = State(fences[h])
           /\ m.op = "remove" => Agreed(m.op) = "removed"
<1>1. Head(adapterQ).to = m /\ Head(adapterQ).ok = ok /\ Head(adapterQ).hwId = h /\ h \in HwIds
  BY DEF AnswerEffect
<1>2. Done(m, h)
  BY <1>1 DEF HandleAnswer, Applied
<1>3. fences \in [HwIds -> Fence \cup {NoFence}]
  BY DEF Types
<1>4. fences[h] # NoFence => fences[h] \in Fence
  BY <1>1, <1>3
<1>5. CASE m.op = "add"
  <2>1. fences' = [fences EXCEPT ![h] = [id |-> m.id, opt |-> m.opt, paused |-> FALSE]]
    BY <1>2, <1>5 DEF Done, SaveItem
  <2>2. fences'[h].paused = FALSE
    BY <1>1, <1>3, <2>1
  <2> QED BY <1>5, <2>2 DEF State, Agreed
<1>6. CASE m.op = "pause"
  <2>1. fences[h] # NoFence => fences' = [fences EXCEPT ![h] = [fences[h] EXCEPT !.paused = TRUE]]
    BY <1>2, <1>6 DEF Done, ChangeItem
  <2>2. fences[h] # NoFence => fences'[h].paused = TRUE
    BY <1>1, <1>3, <1>4, <2>1 DEF Fence
  <2> QED BY <1>6, <2>2 DEF State, Agreed
<1>7. CASE m.op = "resume"
  <2>1. fences[h] # NoFence => fences' = [fences EXCEPT ![h] = [fences[h] EXCEPT !.paused = FALSE]]
    BY <1>2, <1>7 DEF Done, ChangeItem
  <2>2. fences[h] # NoFence => fences'[h].paused = FALSE
    BY <1>1, <1>3, <1>4, <2>1 DEF Fence
  <2> QED BY <1>7, <2>2 DEF State, Agreed
<1>8. CASE m.op = "modify"
  <2>1. fences[h] # NoFence => fences' = [fences EXCEPT ![h] = [fences[h] EXCEPT !.opt = m.opt]]
    BY <1>2, <1>8 DEF Done, ChangeItem
  <2>2. fences[h] # NoFence => fences'[h].paused = fences[h].paused
    BY <1>1, <1>3, <1>4, <2>1 DEF Fence
  <2> QED BY <1>8, <2>2 DEF State
<1>9. m.op = "remove" => Agreed(m.op) = "removed"
  BY DEF Agreed
<1> QED BY <1>5, <1>6, <1>7, <1>8, <1>9

\* A fence kept for a client that is there is kept under the number that it is named by.
LEMMA KeptIsNamed ==
    ASSUME Types, KnownIds, Unique, LiveNamed, NamedAreKept, NEW h \in HwIds, NEW id \in Ids,
           fences[h].id = id, Here(id)
    PROVE  hwIdOf[id] = h
<1>1. fences[h] # NoFence
  BY Numbers DEF NoFence
<1>2. Live(id)
  BY <1>1 DEF KnownIds, Live, Here
<1>3. hwIdOf[id] # 0 /\ hwIdOf[id] \in HwIds
  BY <1>2 DEF LiveNamed, Types
<1>4. fences[hwIdOf[id]].id = id
  BY <1>3 DEF NamedAreKept
<1> QED BY <1>3, <1>4, OnceKept

\* The first answer in the queue, if it changes a fence, finds it under its number.
LEMMA HeadFits ==
    ASSUME Types, AnswersFit, adapterQ # <<>>, NEW h \in HwIds, IsOk(Head(adapterQ), h), Head(adapterQ).to.op # "add"
    PROVE  fences[h].id = Head(adapterQ).to.id
<1>1. Head(adapterQ) = adapterQ[1] /\ 1 \in 1..Len(adapterQ)
  BY Taken
<1>2. WillKeep(adapterQ, 1 - 1, fences, h, Head(adapterQ).to.id)
  BY <1>1 DEF AnswersFit
<1> QED BY <1>2 DEF WillKeep, Last

\* Until the adapter handles its first restart, what it keeps for the clients that are there is
\* what they were told.
KeptAs(id) ==
    /\ \A h \in HwIds : fences[h].id = id => answered[id] = State(fences[h])
    /\ ~IsKept(fences, id) => answered[id] = "removed"
KeptAsAnswered == Undisturbed /\ Early => \A id \in Ids : Here(id) => KeptAs(id)

LEMMA AnswerKeptAs ==
    ASSUME Types, Lives, KnownIds, Unique, Unique', LiveNamed, NamesFit, AnswersFit, HandleAnswer,
           NEW id \in Ids, Here(id), KeptAs(id)
    PROVE  KeptAs(id)'
<1>1. PICK m, ok, h, b : AnswerEffect(m, ok, h, b)
  BY AnswerHandled
<1>2. /\ adapterQ # <<>> /\ m \in Requests /\ m.op \in Commands /\ m.id \in Ids /\ ok \in BOOLEAN /\ (ok => h \in HwIds)
      /\ Head(adapterQ).type = "answer" /\ Head(adapterQ).to = m /\ Head(adapterQ).ok = ok /\ Head(adapterQ).hwId = h
      /\ answered' = IF ok /\ m.op # "modify" THEN [answered EXCEPT ![m.id] = Agreed(m.op)] ELSE answered
      /\ answered \in [Ids -> {"running", "paused", "removed"}]
  BY <1>1, RequestFields DEF AnswerEffect, Types
<1>3. /\ \A g \in HwIds : g # h => fences'[g] = fences[g]
      /\ ok /\ m.op = "add" => fences'[h] # NoFence /\ fences'[h].id = m.id /\ fences'[h].opt = m.opt
                               /\ hwIdOf'[m.id] = h
                               /\ \A x \in Ids : x # m.id => hwIdOf'[x] = hwIdOf[x]
      /\ ok /\ m.op = "remove" =>
            IF fences[h] # NoFence /\ hwIdOf[fences[h].id] # 0
            THEN /\ fences'[h] = NoFence /\ hwIdOf'[fences[h].id] = 0
                 /\ \A x \in Ids : x # fences[h].id => hwIdOf'[x] = hwIdOf[x]
            ELSE UNCHANGED maps
  BY <1>1, AnswerKeeps
<1>4. CASE ~ok
  <2>1. fences' = fences /\ answered' = answered
    BY <1>1, <1>2, <1>4, AnswerKeeps DEF maps
  <2> QED BY <2>1 DEF KeptAs, IsKept
<1>5. CASE ok /\ m.id # id
  <2>1. answered'[id] = answered[id]
    BY <1>2, <1>5
  <2>2. fences[h].id # id
    <3>1. CASE m.op = "add"
      <4>1. Frees(Head(adapterQ), h)
        BY <1>2, <1>5, <3>1 DEF Frees, IsOk
      <4>2. hwIdOf[id] # h
        BY <1>2, <1>5, <4>1, HeadFrees DEF NamesFit
      <4> QED BY <1>2, <1>5, <4>2, KeptIsNamed DEF NamesFit
    <3>2. CASE m.op # "add"
      <4>1. fences[h].id = m.id
        BY <1>2, <1>5, <3>2, HeadFits DEF IsOk
      <4> QED BY <1>5, <4>1
    <3> QED BY <3>1, <3>2
  <2>3. fences'[h].id # id
    <3>1. CASE m.op = "add"
      <4>1. fences'[h].id = m.id
        BY <1>3, <1>5, <3>1
      <4> QED BY <1>5, <4>1
    <3>2. CASE m.op = "remove"
      <4>1. fences'[h] = NoFence \/ fences'[h] = fences[h]
        BY <1>1, <1>5, <3>2, AnswerKeeps DEF maps
      <4>2. NoFence.id # id
        BY Numbers DEF NoFence
      <4> QED BY <2>2, <4>1, <4>2
    <3>3. CASE m.op \notin {"add", "remove"}
      <4>1. fences'[h].id = fences[h].id
        BY <1>1, <1>2, <1>5, <3>3, AnswerKeeps
      <4> QED BY <2>2, <4>1
    <3> QED BY <3>1, <3>2, <3>3
  <2>4. \A g \in HwIds : fences'[g].id = id => fences'[g] = fences[g]
    BY <1>3, <2>3
  <2>5. \A g \in HwIds : fences[g].id = id => fences'[g].id = id
    BY <1>3, <2>2
  <2> QED BY <2>1, <2>4, <2>5 DEF KeptAs, IsKept
<1>6. CASE ok /\ m.id = id /\ m.op = "add"
  <2>1. fences'[h].id = id
    BY <1>3, <1>6
  <2>2. State(fences'[h]) = answered'[id]
    <3>1. State(fences'[h]) = Agreed(m.op)
      BY <1>1, <1>6, AnswerPauses
    <3> QED BY <1>2, <1>6, <3>1
  <2>3. \A g \in HwIds : fences'[g].id = id => g = h
    BY <1>2, <1>6, <2>1 DEF Unique, OnceOf, IsKeptOnce
  <2> QED BY <1>2, <1>6, <2>1, <2>2, <2>3 DEF KeptAs, IsKept
<1>7. CASE ok /\ m.id = id /\ m.op # "add"
  <2>1. fences[h].id = id /\ h \in HwIds
    BY <1>2, <1>7, HeadFits DEF IsOk
  <2>2. fences[h] # NoFence /\ hwIdOf[id] = h
    BY <2>1, KeptIsNamed, Numbers DEF NoFence, NamesFit
  <2>3. \A g \in HwIds : g # h => fences'[g].id # id
    BY <1>3, <2>1, OnceKept
  <2>4. CASE m.op = "remove"
    <3>1. fences'[h] = NoFence
      <4>1. h # 0
        BY <2>1, Numbers
      <4> QED BY <1>3, <1>7, <2>1, <2>2, <2>4, <4>1
    <3>2. NoFence.id # id
      BY Numbers DEF NoFence
    <3>3. answered'[id] = "removed"
      BY <1>2, <1>7, <2>4 DEF Agreed
    <3> QED BY <2>3, <3>1, <3>2, <3>3 DEF KeptAs
  <2>5. CASE m.op # "remove"
    <3>1. fences'[h].id = id
      BY <1>1, <1>2, <1>7, <2>1, <2>5, AnswerKeeps
    <3>2. answered'[id] = State(fences'[h])
      <4>1. CASE m.op = "modify"
        <5>1. State(fences'[h]) = State(fences[h])
          BY <1>1, <1>7, <2>2, <4>1, AnswerPauses
        <5>2. answered'[id] = State(fences[h])
          BY <1>2, <2>1, <4>1 DEF KeptAs
        <5> QED BY <5>1, <5>2
      <4>2. CASE m.op # "modify"
        <5>1. m.op \in {"pause", "resume"}
          BY <1>2, <1>7, <2>5, <4>2 DEF Commands
        <5>2. State(fences'[h]) = Agreed(m.op)
          BY <1>1, <1>7, <2>2, <5>1, AnswerPauses
        <5> QED BY <1>2, <1>7, <4>2, <5>2
      <4> QED BY <4>1, <4>2
    <3> QED BY <2>1, <2>3, <3>1, <3>2 DEF KeptAs, IsKept
  <2> QED BY <2>4, <2>5
<1> QED BY <1>2, <1>4, <1>5, <1>6, <1>7

\* A step that leaves the fences of a client that is there.
LEMMA SameKeptAs ==
    ASSUME NEW id, KeptAs(id), answered'[id] = answered[id],
           \A h \in HwIds : fences'[h].id = id <=> fences[h].id = id,
           \A h \in HwIds : fences[h].id = id => fences'[h] = fences[h]
    PROVE  KeptAs(id)'
BY DEF KeptAs, IsKept

LEMMA GoneKeptAs ==
    ASSUME Types, GoneLeft, AnswersFit, HandleGone, NEW id \in Ids, Here(id), KeptAs(id)
    PROVE  KeptAs(id)'
<1>1. /\ adapterQ # <<>> /\ Head(adapterQ).type = "answer" /\ Head(adapterQ).to.then.for = "gone"
      /\ fences' = IF Head(adapterQ).ok THEN [fences EXCEPT ![Head(adapterQ).hwId] = NoFence] ELSE fences
      /\ answered' = answered
  BY DEF HandleGone, TakeAnswer, Take
<1>2. CASE ~Head(adapterQ).ok
  <2>1. fences' = fences
    BY <1>1, <1>2
  <2> QED BY <1>1, <2>1, SameKeptAs
<1>3. CASE Head(adapterQ).ok
  <2> DEFINE h == Head(adapterQ).hwId
  <2>1. Head(adapterQ) \in AdapterMessages /\ Head(adapterQ) \in Elements(adapterQ)
    BY <1>1, Taken
  <2>2. h \in HwIds /\ Head(adapterQ).to.op = "remove"
    BY <1>1, <1>3, <2>1, AdapterFields, RequestFields
  <2>3. ~Here(Head(adapterQ).to.id)
    BY <1>1, <2>1 DEF GoneLeft
  <2>4. IsOk(Head(adapterQ), h)
    BY <1>1, <1>3 DEF IsOk
  <2>5. fences' = [fences EXCEPT ![h] = NoFence]
    BY <1>1, <1>3
  <2> HIDE DEF h
  <2>6. fences[h].id # id
    BY <1>1, <2>2, <2>3, <2>4, HeadFits
  <2>7. NoFence.id # id
    BY Numbers DEF NoFence
  <2>8. \A g \in HwIds : g # h => fences'[g] = fences[g]
    BY <2>5 DEF Types
  <2>9. fences'[h] = NoFence
    BY <2>2, <2>5 DEF Types
  <2>10. \A g \in HwIds : fences'[g].id = id <=> fences[g].id = id
    BY <2>6, <2>7, <2>8, <2>9
  <2>11. \A g \in HwIds : fences[g].id = id => fences'[g] = fences[g]
    BY <2>6, <2>8
  <2> QED BY <1>1, <2>10, <2>11, SameKeptAs
<1> QED BY <1>2, <1>3

LEMMA NextKeptAs ==
    ASSUME Sound, Sound', RestartsFit, GoneLeft, strayed \/ NamesFit, strayed \/ AnswersFit, Phases, KeptAsAnswered,
           [Next]_vars
    PROVE  KeptAsAnswered'
<1> SUFFICES ASSUME Undisturbed', Early', NEW id \in Ids, Here(id)' PROVE KeptAs(id)'
  BY DEF KeptAsAnswered
<1>0. Types /\ Lives /\ KnownIds /\ Unique /\ LiveNamed /\ Unique'
  BY DEF Sound
<1>1. Undisturbed /\ used'.crashes <= 1
  BY <1>0, DisturbedStays DEF Undisturbed
<1>2. NamesFit /\ AnswersFit /\ used.crashes <= 1
  BY <1>1 DEF Undisturbed
<1>3. Early /\ Here(id)
  BY <1>0, <1>1, NextPhases, OwnersGrow
<1>4. KeptAs(id)
  BY <1>1, <1>3 DEF KeptAsAnswered
<1>5. CASE ~AdapterThread
  <2>1. UNCHANGED <<fences, answered>>
    <3>1. CASE UNCHANGED vars
      BY <3>1 DEF vars, maps
    <3>2. CASE Next
      BY <1>0, <1>5, <3>2, MessageComes DEF Next, Calling
    <3> QED BY <3>1, <3>2
  <2> QED BY <1>4, <2>1, SameKeptAs
<1>6. CASE AdapterThread
  <2>1. ~HandleEngineUp /\ ~HandleRestored
    BY <1>0, <1>2, <1>6, AdapterPhases
  <2>2. CASE HandleCommand \/ HandleTurn \/ HandleRemoveClient \/ HandleBreach
    <3>1. UNCHANGED <<fences, answered>>
      BY <2>2 DEF HandleCommand, HandleTurn, HandleRemoveClient, HandleBreach, maps
    <3> QED BY <1>4, <3>1, SameKeptAs
  <2>3. CASE HandleAnswer
    BY <1>0, <1>2, <1>3, <1>4, <2>3, AnswerKeptAs
  <2>4. CASE HandleGone
    BY <1>0, <1>2, <1>3, <1>4, <2>4, GoneKeptAs
  <2> QED BY <1>6, <2>1, <2>2, <2>3, <2>4 DEF AdapterThread
<1> QED BY <1>5, <1>6

-----------------------------------------------------------------------------
(* Requests of one fence in the queue to the engine.                       *)

\* A request for a fence, one that restores it, one that pauses it again.
Names(m, id) == m.op \in Commands /\ m.id = id
RestoreOf(m, id) == Names(m, id) /\ m.then.for = "restore"
PauseOf(m, id) == Names(m, id) /\ m.then.for = "nobody"

\* Nothing for the fence comes after its restoring, or before the pause that it gets again.
RestoreLast(pq, id) == \A k, l \in 1..Len(pq) : k < l /\ RestoreOf(pq[k], id) => ~Names(pq[l], id)
PauseFirst(pq, id) == \A k, l \in 1..Len(pq) : k < l /\ PauseOf(pq[l], id) => ~Names(pq[k], id)

LEMMA OrderTaken ==
    ASSUME NEW S, NEW pq \in Seq(S), pq # <<>>, NEW id
    PROVE  /\ RestoreLast(pq, id) => RestoreLast(Tail(pq), id)
           /\ RestoreLast(pq, id) /\ RestoreOf(Head(pq), id) => \A m \in Elements(Tail(pq)) : ~Names(m, id)
           /\ PauseFirst(pq, id) => PauseFirst(Tail(pq), id)
           /\ PauseFirst(pq, id) /\ Names(Head(pq), id) => \A m \in Elements(Tail(pq)) : ~PauseOf(m, id)
<1>1. /\ Head(pq) = pq[1] /\ 1 \in 1..Len(pq) /\ Len(Tail(pq)) \in Nat
      /\ \A k \in 1..Len(Tail(pq)) : k + 1 \in 1..Len(pq) /\ 1 < k + 1 /\ Tail(pq)[k] = pq[k + 1]
  BY Shortened
<1>2. \A k, l \in 1..Len(Tail(pq)) : k < l => k + 1 < l + 1
  BY <1>1
<1>3. RestoreLast(pq, id) => RestoreLast(Tail(pq), id)
  BY <1>1, <1>2 DEF RestoreLast
<1>4. PauseFirst(pq, id) => PauseFirst(Tail(pq), id)
  BY <1>1, <1>2 DEF PauseFirst
<1>5. RestoreLast(pq, id) /\ RestoreOf(Head(pq), id) => \A m \in Elements(Tail(pq)) : ~Names(m, id)
  BY <1>1 DEF RestoreLast, Elements
<1>6. PauseFirst(pq, id) /\ Names(Head(pq), id) => \A m \in Elements(Tail(pq)) : ~PauseOf(m, id)
  BY <1>1 DEF PauseFirst, Elements
<1> QED BY <1>3, <1>4, <1>5, <1>6

LEMMA OrderJoined ==
    ASSUME NEW S, NEW pq \in Seq(S), NEW s \in Seq(S), NEW id
    PROVE  /\ /\ RestoreLast(pq, id) /\ RestoreLast(s, id)
              /\ (\E m \in Elements(pq) : RestoreOf(m, id)) => \A m \in Elements(s) : ~Names(m, id)
              => RestoreLast(pq \o s, id)
           /\ /\ PauseFirst(pq, id) /\ PauseFirst(s, id)
              /\ (\E m \in Elements(s) : PauseOf(m, id)) => \A m \in Elements(pq) : ~Names(m, id)
              => PauseFirst(pq \o s, id)
<1> DEFINE q == pq \o s
<1>1. /\ Len(pq) \in Nat /\ Len(s) \in Nat /\ Len(q) = Len(pq) + Len(s)
      /\ \A k \in 1..Len(pq) : q[k] = pq[k]
      /\ \A k \in 1..Len(q) : k \notin 1..Len(pq) => k - Len(pq) \in 1..Len(s) /\ q[k] = s[k - Len(pq)]
  BY Joined
<1> HIDE DEF q
<1>2. \A k, l \in 1..Len(q) : k < l =>
         \/ k \in 1..Len(pq) /\ l \in 1..Len(pq)
         \/ k \notin 1..Len(pq) /\ l \notin 1..Len(pq) /\ k - Len(pq) < l - Len(pq)
         \/ k \in 1..Len(pq) /\ l \notin 1..Len(pq)
  BY <1>1
<1>3. ASSUME RestoreLast(pq, id), RestoreLast(s, id),
             (\E m \in Elements(pq) : RestoreOf(m, id)) => \A m \in Elements(s) : ~Names(m, id)
      PROVE  RestoreLast(q, id)
  <2> SUFFICES ASSUME NEW k \in 1..Len(q), NEW l \in 1..Len(q), k < l, RestoreOf(q[k], id) PROVE ~Names(q[l], id)
    BY DEF RestoreLast
  <2>1. CASE k \in 1..Len(pq) /\ l \in 1..Len(pq)
    BY <1>1, <1>3, <2>1 DEF RestoreLast
  <2>2. CASE k \notin 1..Len(pq) /\ l \notin 1..Len(pq) /\ k - Len(pq) < l - Len(pq)
    BY <1>1, <1>3, <2>2 DEF RestoreLast
  <2>3. CASE k \in 1..Len(pq) /\ l \notin 1..Len(pq)
    <3>1. q[k] \in Elements(pq) /\ q[l] \in Elements(s)
      BY <1>1, <2>3 DEF Elements
    <3> QED BY <1>3, <3>1
  <2> QED BY <1>2, <2>1, <2>2, <2>3
<1>4. ASSUME PauseFirst(pq, id), PauseFirst(s, id),
             (\E m \in Elements(s) : PauseOf(m, id)) => \A m \in Elements(pq) : ~Names(m, id)
      PROVE  PauseFirst(q, id)
  <2> SUFFICES ASSUME NEW k \in 1..Len(q), NEW l \in 1..Len(q), k < l, PauseOf(q[l], id) PROVE ~Names(q[k], id)
    BY DEF PauseFirst
  <2>1. CASE k \in 1..Len(pq) /\ l \in 1..Len(pq)
    BY <1>1, <1>4, <2>1 DEF PauseFirst
  <2>2. CASE k \notin 1..Len(pq) /\ l \notin 1..Len(pq) /\ k - Len(pq) < l - Len(pq)
    BY <1>1, <1>4, <2>2 DEF PauseFirst
  <2>3. CASE k \in 1..Len(pq) /\ l \notin 1..Len(pq)
    <3>1. q[k] \in Elements(pq) /\ q[l] \in Elements(s)
      BY <1>1, <2>3 DEF Elements
    <3> QED BY <1>4, <3>1
  <2> QED BY <1>2, <2>1, <2>2, <2>3
<1> QED BY <1>3, <1>4 DEF q

-----------------------------------------------------------------------------
(* What the engine has is what its last answer under way will tell, or else *)
(* what the last one told - but for a fence that is being restored.        *)

\* What tells how a fence is: an answer for an item, or that the engine has lost all.
SaysOf(m, id) == m.type = "answer" /\ m.ok /\ m.to.then.for = "item" /\ m.to.op # "modify" /\ m.to.id = id
Told(id) == {m \in AdapterMessages : IsUp(m) \/ SaysOf(m, id)}
ToldThat(id, v) ==
    {m \in AdapterMessages : (IsUp(m) /\ v = "removed") \/ (SaysOf(m, id) /\ Agreed(m.to.op) = v)}
WillAnswer(id, v) == Will(adapterQ, ToldThat(id, v), Told(id), answered[id] = v)
Untold(id) == Unsaid(adapterQ, Told(id))

\* A fence that is being restored: asked for, added, and asked to be paused again.
RestoredOf(m, id) == m.type = "answer" /\ RestoreOf(m.to, id)
RestoreOut(id) == \E m \in Elements(apiQ) : RestoreOf(m, id)
RestoreBack(id) == \E m \in Elements(adapterQ) : RestoredOf(m, id)
PauseOut(id) == \E m \in Elements(apiQ) : PauseOf(m, id)

WatchedTold(id) ==
    \A h \in HwIds :
        engine.fences[h].id = id /\ ~PauseOut(id) /\ ~RestoreBack(id)
            => WillAnswer(id, State(engine.fences[h]))
LackingTold(id) ==
    engine.up /\ (\A h \in HwIds : engine.fences[h].id # id) /\ ~RestoreOut(id)
        => WillAnswer(id, "removed")
OutFits(id) ==
    /\ RestoreLast(apiQ, id)
    /\ \A m \in Elements(apiQ) :
           RestoreOf(m, id) => answered[id] = State(m.then.fence) /\ Untold(id)
BackFits(id) ==
    \A m \in Elements(adapterQ) :
        RestoredOf(m, id) =>
            /\ m.ok /\ answered[id] = State(m.to.then.fence) /\ Untold(id)
            /\ engine.fences[m.hwId].id = id /\ ~engine.fences[m.hwId].paused
            /\ \A n \in Elements(apiQ) : ~Names(n, id)
AgainFits(id) ==
    /\ PauseFirst(apiQ, id)
    /\ \A m \in Elements(apiQ) :
           PauseOf(m, id) => engine.fences[m.hwId].id = id /\ WillAnswer(id, "paused")
ToldFits(id) == WatchedTold(id) /\ LackingTold(id) /\ OutFits(id) /\ BackFits(id) /\ AgainFits(id)
AnswersTold == Undisturbed => \A id \in Ids : Here(id) => ToldFits(id)

\* The answer that is handled is noted.
LEMMA HeadTold ==
    ASSUME Types, Lives, AdapterThread, ~HandleEngineUp, NEW id \in Ids
    PROVE  /\ ~IsUp(Head(adapterQ))
           /\ SaysOf(Head(adapterQ), id) => answered'[id] = Agreed(Head(adapterQ).to.op)
           /\ ~SaysOf(Head(adapterQ), id) => answered'[id] = answered[id]
<1>1. ~IsUp(Head(adapterQ))
  BY DEF AdapterThread, HandleCommand, HandleTurn, HandleAnswer, HandleRemoveClient, HandleGone,
         HandleRestored, HandleBreach, Take, TakeAnswer, IsUp
<1>2. CASE HandleAnswer
  <2>1. PICK m, ok, h, b : AnswerEffect(m, ok, h, b)
    BY <1>2, AnswerHandled
  <2>2. /\ Head(adapterQ).type = "answer" /\ Head(adapterQ).to = m /\ Head(adapterQ).ok = ok /\ ok \in BOOLEAN
        /\ m.then.for = "item" /\ m.id \in Ids
        /\ answered' = IF ok /\ m.op # "modify" THEN [answered EXCEPT ![m.id] = Agreed(m.op)] ELSE answered
    BY <2>1, RequestFields DEF AnswerEffect
  <2>3. CASE ok /\ m.op # "modify"
    <3>1. answered'[m.id] = Agreed(m.op) /\ (m.id # id => answered'[id] = answered[id])
      BY <2>2, <2>3 DEF Types
    <3> QED BY <1>1, <2>2, <2>3, <3>1 DEF SaysOf
  <2>4. CASE ~(ok /\ m.op # "modify")
    BY <1>1, <2>2, <2>4 DEF SaysOf
  <2> QED BY <2>3, <2>4
<1>3. CASE ~HandleAnswer
  <2>1. answered' = answered
    BY <1>3 DEF AdapterThread, HandleCommand, HandleTurn, HandleRemoveClient, HandleGone, HandleRestored, HandleBreach
  <2>2. ~SaysOf(Head(adapterQ), id)
    BY <1>3 DEF AdapterThread, HandleCommand, HandleTurn, HandleRemoveClient, HandleGone, HandleRestored, HandleBreach,
                Take, TakeAnswer, SaysOf
  <2> QED BY <1>1, <2>1, <2>2
<1> QED BY <1>2, <1>3

LEMMA AnswerTaken ==
    ASSUME Types, Lives, AdapterThread, ~HandleEngineUp, NEW id \in Ids
    PROVE  /\ \A v : WillAnswer(id, v) => Will(adapterQ', ToldThat(id, v), Told(id), answered'[id] = v)
           /\ Untold(id) => Untold(id)' /\ answered'[id] = answered[id]
<1>1. adapterQ # <<>> /\ adapterQ' = Tail(adapterQ) /\ adapterQ \in Seq(AdapterMessages) /\ Head(adapterQ) \in AdapterMessages
  BY AdapterTakes, Taken
<1>2. /\ ~IsUp(Head(adapterQ))
      /\ SaysOf(Head(adapterQ), id) => answered'[id] = Agreed(Head(adapterQ).to.op)
      /\ ~SaysOf(Head(adapterQ), id) => answered'[id] = answered[id]
  BY HeadTold
<1>3. ASSUME NEW v, WillAnswer(id, v)
      PROVE  Will(adapterQ', ToldThat(id, v), Told(id), answered'[id] = v)
  <2>1. Head(adapterQ) \in ToldThat(id, v) => answered'[id] = v
    BY <1>2 DEF ToldThat
  <2>2. Head(adapterQ) \notin Told(id) /\ answered[id] = v => answered'[id] = v
    BY <1>1, <1>2 DEF Told
  <2>3. Will(adapterQ, ToldThat(id, v), Told(id), answered[id] = v)
    BY <1>3 DEF WillAnswer
  <2>4. (answered[id] = v) \in BOOLEAN /\ (answered'[id] = v) \in BOOLEAN
    OBVIOUS
  <2>5. Will(Tail(adapterQ), ToldThat(id, v), Told(id), answered'[id] = v)
    BY <1>1, <2>1, <2>2, <2>3, <2>4, WillTaken
  <2> QED BY <1>1, <2>5
<1>4. ASSUME Untold(id) PROVE Untold(id)' /\ answered'[id] = answered[id]
  <2>1. Unsaid(Tail(adapterQ), Told(id)) /\ Head(adapterQ) \notin Told(id)
    BY <1>1, <1>4, UnsaidTaken DEF Untold
  <2>2. ~SaysOf(Head(adapterQ), id)
    BY <1>1, <2>1 DEF Told
  <2>3. Unsaid(adapterQ', Told(id))
    BY <1>1, <2>1
  <2> QED BY <1>2, <2>2, <2>3 DEF Untold, Told
<1> QED BY <1>3, <1>4

\* A fence that is being restored is nowhere else.
LEMMA RestoreAlone ==
    ASSUME Types, Unique, NamedAreKept, NEW id \in Ids
    PROVE  /\ RestoreOut(id) => IsOut(batches, apiQ, id) /\ ~IsBack(batches, adapterQ, id)
                                /\ ~IsKept(fences, id) /\ hwIdOf[id] = 0
           /\ RestoreBack(id) /\ BackFits(id) => IsBack(batches, adapterQ, id) /\ ~IsOut(batches, apiQ, id)
                                /\ ~IsKept(fences, id) /\ hwIdOf[id] = 0
<1>0. apiQ \in Seq(ApiMessages) /\ adapterQ \in Seq(AdapterMessages)
      /\ (hwIdOf[id] # 0 => IsKept(fences, id)) /\ OnceOf(batches, adapterQ, apiQ, fences, id)
  <2>1. hwIdOf[id] \in {0} \cup HwIds
    BY DEF Types
  <2>2. hwIdOf[id] # 0 => fences[hwIdOf[id]].id = id
    BY DEF NamedAreKept
  <2> QED BY <2>1, <2>2 DEF Types, Unique, IsKept
<1>1. ASSUME RestoreOut(id) PROVE IsOut(batches, apiQ, id)
  <2>1. PICK m \in Elements(apiQ) : RestoreOf(m, id)
    BY <1>1 DEF RestoreOut
  <2>2. m \in Requests
    BY <1>0, <2>1, ApiFields DEF Elements, RestoreOf, Names
  <2>3. m.op = "add" /\ m.id = id
    BY <2>1, <2>2, RequestFields DEF RestoreOf, Names
  <2> QED BY <2>1, <2>3 DEF IsOut, BearsOut
<1>2. ASSUME RestoreBack(id), BackFits(id) PROVE IsBack(batches, adapterQ, id)
  <2>1. PICK m \in Elements(adapterQ) : RestoredOf(m, id)
    BY <1>2 DEF RestoreBack
  <2>2. m.type = "answer" /\ m.to \in Requests
    BY <1>0, <2>1, AdapterFields DEF Elements, RestoredOf
  <2>3. m.to.op = "add" /\ m.to.id = id
    BY <2>1, <2>2, RequestFields DEF RestoredOf, RestoreOf, Names
  <2>4. m.ok
    BY <1>2, <2>1 DEF BackFits
  <2> QED BY <2>1, <2>2, <2>3, <2>4 DEF IsBack, BearsBack
<1> QED BY <1>0, <1>1, <1>2 DEF OnceOf

\* What the adapter asks for, but for a restart and the restoring of the fence itself.
LEMMA AsksOthers ==
    ASSUME Types, Unique, NamedAreKept, AdapterThread, ~HandleEngineUp, NEW id \in Ids, Here(id)', BackFits(id),
           ~RestoredOf(Head(adapterQ), id), NEW m, SentFor(m)
    PROVE  /\ ~RestoreOf(m, id) /\ ~PauseOf(m, id)
           /\ RestoreOut(id) \/ RestoreBack(id) => ~Names(m, id)
<1>0. adapterQ # <<>> /\ Head(adapterQ) \in AdapterMessages /\ Head(adapterQ) \in Elements(adapterQ)
  BY AdapterTakes, Taken
<1>1. ~RestoreOf(m, id)
  BY DEF SentFor, RestoreOf, Names
<1>2. ASSUME PauseOf(m, id) PROVE FALSE
  <2>1. HandleRestored /\ Head(adapterQ).to.id = id
    BY <1>2 DEF SentFor, PauseOf, Names
  <2>2. Head(adapterQ).type = "answer" /\ Head(adapterQ).to.then.for = "restore"
    BY <2>1 DEF HandleRestored, TakeAnswer, Take
  <2>3. Head(adapterQ).to.op \in Commands
    BY <1>0, <2>2, AdapterFields, RequestFields
  <2> QED BY <2>1, <2>2, <2>3 DEF RestoredOf, RestoreOf, Names
<1>3. ASSUME RestoreOut(id) \/ RestoreBack(id), Names(m, id) PROVE FALSE
  <2>1. /\ hwIdOf[id] = 0
        /\ \/ ~IsBack(batches, adapterQ, id)
           \/ RestoreBack(id)
    BY <1>3, RestoreAlone
  <2>2. ~PauseOf(m, id) /\ ~RestoreOf(m, id)
    BY <1>1, <1>2
  <2>3. m.op = "add" /\ BearsBack(batches, Head(adapterQ), id)
    BY <1>3, <2>1, <2>2 DEF SentFor, Names, PauseOf, RestoreOf
  <2>4. CASE ~IsBack(batches, adapterQ, id)
    BY <1>0, <2>3, <2>4 DEF IsBack
  <2>5. CASE RestoreBack(id)
    <3>1. PICK k \in 1..Len(adapterQ) : RestoredOf(adapterQ[k], id)
      BY <2>5 DEF RestoreBack, Elements
    <3>2. adapterQ[k] \in AdapterMessages /\ adapterQ[k] \in Elements(adapterQ)
      BY DEF Types, Elements
    <3>3. adapterQ[k].ok
      BY <3>1, <3>2 DEF BackFits
    <3>4. adapterQ[k].type = "answer" /\ adapterQ[k].to \in Requests
      BY <3>1, <3>2, AdapterFields DEF RestoredOf
    <3>5. adapterQ[k].to.op = "add" /\ adapterQ[k].to.id = id
      BY <3>1, <3>4, RequestFields DEF RestoredOf, RestoreOf, Names
    <3>6. BearsBack(batches, adapterQ[k], id)
      BY <3>3, <3>4, <3>5 DEF BearsBack
    <3>7. Head(adapterQ) = adapterQ[1] /\ 1 \in 1..Len(adapterQ)
      BY <1>0, Taken
    <3>8. BackOnce(batches, adapterQ, id)
      BY DEF Unique, OnceOf
    <3>9. k = 1
      BY <2>3, <3>6, <3>7, <3>8 DEF BackOnce
    <3> QED BY <3>1, <3>7, <3>9
  <2> QED BY <2>1, <2>4, <2>5
<1> QED BY <1>1, <1>2, <1>3

LEMMA AdapterTold ==
    ASSUME Types, Lives, Unique, NamedAreKept, AdapterThread, ~HandleEngineUp, NEW id \in Ids, Here(id)', ToldFits(id),
           ~RestoredOf(Head(adapterQ), id)
    PROVE  ToldFits(id)'
<1>0. /\ adapterQ # <<>> /\ adapterQ' = Tail(adapterQ) /\ adapterQ \in Seq(AdapterMessages) /\ engine' = engine
      /\ apiQ \in Seq(ApiMessages)
  BY AdapterTakes DEF Types
<1>1. Elements(adapterQ') \subseteq Elements(adapterQ) /\ Elements(adapterQ) = {Head(adapterQ)} \cup Elements(adapterQ')
  BY <1>0, ElementsOfTail
<1>2. PICK more \in Seq(ApiMessages) : apiQ' = apiQ \o more /\ \A m \in Elements(more) : SentFor(m)
  BY ApiSent
<1>3. Elements(apiQ') = Elements(apiQ) \cup Elements(more)
  BY <1>0, <1>2, ElementsOfJoin
<1>4. \A m \in Elements(more) :
         /\ ~RestoreOf(m, id) /\ ~PauseOf(m, id)
         /\ RestoreOut(id) \/ RestoreBack(id) => ~Names(m, id)
  BY <1>2, AsksOthers DEF ToldFits
<1>5. (RestoreOut(id)' <=> RestoreOut(id)) /\ (PauseOut(id)' <=> PauseOut(id))
  BY <1>3, <1>4 DEF RestoreOut, PauseOut
<1>6. RestoreBack(id)' <=> RestoreBack(id)
  BY <1>1 DEF RestoreBack
<1>7. /\ \A v : WillAnswer(id, v) => Will(adapterQ', ToldThat(id, v), Told(id), answered'[id] = v)
      /\ Untold(id) => Untold(id)' /\ answered'[id] = answered[id]
  BY AnswerTaken
<1>8. WatchedTold(id)'
  <2> SUFFICES ASSUME NEW h \in HwIds, (engine.fences[h].id = id)', ~PauseOut(id)', ~RestoreBack(id)'
               PROVE  WillAnswer(id, State(engine.fences[h]))'
    BY DEF WatchedTold
  <2>1. WillAnswer(id, State(engine.fences[h]))
    BY <1>0, <1>5, <1>6 DEF ToldFits, WatchedTold
  <2>2. Will(adapterQ', ToldThat(id, State(engine.fences[h])), Told(id), answered'[id] = State(engine.fences[h]))
    BY <1>7, <2>1
  <2> QED BY <1>0, <2>2 DEF WillAnswer, ToldThat, Told, State
<1>9. LackingTold(id)'
  <2>1. ASSUME WillAnswer(id, "removed") PROVE WillAnswer(id, "removed")'
    BY <1>7, <2>1 DEF WillAnswer, ToldThat, Told
  <2> QED BY <1>0, <1>5, <2>1 DEF ToldFits, LackingTold
<1>10. OutFits(id)'
  <2>1. RestoreLast(more, id)
    BY <1>4 DEF RestoreLast, Elements
  <2>2. (\E m \in Elements(apiQ) : RestoreOf(m, id)) => \A m \in Elements(more) : ~Names(m, id)
    BY <1>4 DEF RestoreOut
  <2>3. RestoreLast(apiQ, id)
    BY DEF ToldFits, OutFits
  <2>4. RestoreLast(apiQ \o more, id)
    BY <1>0, <2>1, <2>2, <2>3, OrderJoined
  <2>5. \A m \in Elements(apiQ') : RestoreOf(m, id) => answered'[id] = State(m.then.fence) /\ Untold(id)'
    BY <1>3, <1>4, <1>7 DEF ToldFits, OutFits
  <2> QED BY <1>2, <2>4, <2>5 DEF OutFits
<1>11. BackFits(id)'
  <2> SUFFICES ASSUME NEW m \in Elements(adapterQ'), RestoredOf(m, id)
               PROVE  /\ m.ok /\ answered'[id] = State(m.to.then.fence) /\ Untold(id)'
                      /\ engine'.fences[m.hwId].id = id /\ ~engine'.fences[m.hwId].paused
                      /\ \A n \in Elements(apiQ') : ~Names(n, id)
    BY DEF BackFits
  <2>1. m \in Elements(adapterQ) /\ RestoreBack(id)
    BY <1>1 DEF RestoreBack
  <2>2. /\ m.ok /\ answered[id] = State(m.to.then.fence) /\ Untold(id)
        /\ engine.fences[m.hwId].id = id /\ ~engine.fences[m.hwId].paused
        /\ \A n \in Elements(apiQ) : ~Names(n, id)
    BY <2>1 DEF ToldFits, BackFits
  <2> QED BY <1>0, <1>3, <1>4, <1>7, <2>1, <2>2
<1>12. AgainFits(id)'
  <2>1. PauseFirst(more, id) /\ ~(\E m \in Elements(more) : PauseOf(m, id))
    BY <1>4 DEF PauseFirst, Elements
  <2>2. PauseFirst(apiQ, id)
    BY DEF ToldFits, AgainFits
  <2>3. PauseFirst(apiQ \o more, id)
    BY <1>0, <2>1, <2>2, OrderJoined
  <2>4. ASSUME NEW m \in Elements(apiQ'), PauseOf(m, id)
        PROVE  engine'.fences[m.hwId].id = id /\ WillAnswer(id, "paused")'
    <3>1. m \in Elements(apiQ)
      BY <1>3, <1>4, <2>4
    <3>2. engine.fences[m.hwId].id = id /\ WillAnswer(id, "paused")
      BY <2>4, <3>1 DEF ToldFits, AgainFits
    <3>3. WillAnswer(id, "paused")'
      BY <1>7, <3>2 DEF WillAnswer, ToldThat, Told
    <3> QED BY <1>0, <3>2, <3>3
  <2> QED BY <1>2, <2>3, <2>4 DEF AgainFits
<1> QED BY <1>8, <1>9, <1>10, <1>11, <1>12 DEF ToldFits

\* A fence that the engine has is kept, or its answer is under way; the engine has it once.
LEMMA EnginePlaces ==
    ASSUME Types, Unique, Watched, NEW g \in HwIds, NEW id \in Ids, engine.fences[g].id = id
    PROVE  /\ ~IsOut(batches, apiQ, id) /\ ~RestoreOut(id)
           /\ \A h \in HwIds : engine.fences[h].id = id => h = g
           /\ UpComing => ~IsKept(fences, id)
<1>0. OnceOf(batches, adapterQ, apiQ, fences, id) /\ apiQ \in Seq(ApiMessages)
  BY DEF Unique, Types
<1>1. ASSUME NEW h \in HwIds, engine.fences[h].id = id
      PROVE  \/ \E j \in 1..Len(adapterQ) : Brings(adapterQ[j], h, id)
             \/ fences[h].id = id /\ Silent(adapterQ, Len(adapterQ), h)
  BY <1>1 DEF Watched, WatchedIsKept, WillKeep, Last
<1>2. \A j \in 1..Len(adapterQ), h \in HwIds :
         Brings(adapterQ[j], h, id) => BearsBack(batches, adapterQ[j], id) /\ adapterQ[j].hwId = h
  BY DEF Brings, IsOk, BearsBack
<1>3. \A j \in 1..Len(adapterQ), h \in HwIds : Brings(adapterQ[j], h, id) => IsBack(batches, adapterQ, id)
  BY <1>2 DEF IsBack, Elements
<1>4. ~IsOut(batches, apiQ, id)
  BY <1>0, <1>1, <1>3 DEF OnceOf, IsKept
<1>5. ~RestoreOut(id)
  <2> SUFFICES ASSUME NEW m \in Elements(apiQ), RestoreOf(m, id) PROVE FALSE
    BY DEF RestoreOut
  <2>1. m \in Requests
    BY <1>0, ApiFields DEF Elements, RestoreOf, Names
  <2>2. m.op = "add" /\ m.id = id
    BY <2>1, RequestFields DEF RestoreOf, Names
  <2> QED BY <1>4, <2>2 DEF IsOut, BearsOut
<1>6. ASSUME NEW h \in HwIds, engine.fences[h].id = id PROVE h = g
  <2>1. CASE \E j \in 1..Len(adapterQ) : Brings(adapterQ[j], g, id)
    <3>1. PICK j \in 1..Len(adapterQ) : Brings(adapterQ[j], g, id)
      BY <2>1
    <3>2. ~IsKept(fences, id)
      BY <1>0, <1>3, <3>1 DEF OnceOf
    <3>3. PICK k \in 1..Len(adapterQ) : Brings(adapterQ[k], h, id)
      BY <1>1, <1>6, <3>2 DEF IsKept
    <3>4. j = k
      BY <1>0, <1>2, <3>1, <3>3 DEF OnceOf, BackOnce
    <3> QED BY <1>2, <3>1, <3>3, <3>4
  <2>2. CASE fences[g].id = id
    <3>1. ~IsBack(batches, adapterQ, id)
      BY <1>0, <2>2 DEF OnceOf, IsKept
    <3>2. fences[h].id = id
      BY <1>1, <1>3, <1>6, <3>1
    <3> QED BY <1>0, <2>2, <3>2 DEF OnceOf, IsKeptOnce
  <2> QED BY <1>1, <2>1, <2>2
<1>7. UpComing => ~IsKept(fences, id)
  <2> SUFFICES ASSUME UpComing PROVE ~IsKept(fences, id)
    OBVIOUS
  <2>1. \E k \in 1..Len(adapterQ) : IsUp(adapterQ[k])
    BY DEF UpComing, Elements
  <2>2. ~Silent(adapterQ, Len(adapterQ), g)
    BY <2>1 DEF Silent, Speaks, IsUp
  <2>3. IsBack(batches, adapterQ, id)
    BY <1>1, <1>3, <2>2
  <2> QED BY <1>0, <2>3 DEF OnceOf
<1> QED BY <1>4, <1>5, <1>6, <1>7

\* A fence that was paused is paused again when it was restored.
LEMMA RestoredPauses ==
    ASSUME Types, HandleRestored, Head(adapterQ).ok
    PROVE  IF Head(adapterQ).to.then.fence.paused
           THEN \E r \in Requests :
                   /\ r \in ApiMessages /\ apiQ' = Append(apiQ, r) /\ r.hwId = Head(adapterQ).hwId
                   /\ r.op = "pause" /\ r.then.for = "nobody" /\ r.id = Head(adapterQ).to.id
           ELSE apiQ' = apiQ
<1> DEFINE m == Head(adapterQ).to
           h == Head(adapterQ).hwId
           fence == m.then.fence
<1>1. adapterQ # <<>> /\ Head(adapterQ).type = "answer" /\ m.then.for = "restore" /\ apiQ' = Restored(fence, h)
  BY DEF HandleRestored, Take, TakeAnswer
<1>2. m \in Requests /\ h \in HwIds
  BY <1>1, Taken, AdapterFields
<1>3. fence.id = m.id /\ m.id \in Ids
  BY <1>1, <1>2, RequestFields
<1>4. m = Head(adapterQ).to /\ h = Head(adapterQ).hwId /\ fence = Head(adapterQ).to.then.fence
  OBVIOUS
<1> HIDE DEF m, h, fence
<1>5. CASE fence.paused
  <2> DEFINE r == Request("pause", h, fence.id, NoOptions, ForNobody)
  <2>1. apiQ' = Append(apiQ, r)
    BY <1>1, <1>5 DEF Restored
  <2>2. "pause" \in Commands /\ NoOptions \in AllOptions /\ ForNobody \in Thens /\ ForNobody.for = "nobody"
    BY Purposes DEF Commands, AllOptions
  <2>3. r \in Requests /\ r \in ApiMessages /\ r.op = "pause" /\ r.then = ForNobody /\ r.id = m.id /\ r.hwId = h
    BY <1>2, <1>3, <2>2, RequestsMade
  <2> HIDE DEF r
  <2> QED BY <1>4, <1>5, <2>1, <2>2, <2>3
<1>6. CASE ~fence.paused
  BY <1>1, <1>4, <1>6 DEF Restored
<1> QED BY <1>4, <1>5, <1>6

\* A fence was restored.
LEMMA RestoredTold ==
    ASSUME Types, Lives, Unique, Watched, HandleRestored, NEW id \in Ids, ToldFits(id), RestoredOf(Head(adapterQ), id)
    PROVE  ToldFits(id)'
<1> DEFINE m == Head(adapterQ)
           h == m.hwId
<1>0. /\ adapterQ # <<>> /\ adapterQ' = Tail(adapterQ) /\ adapterQ \in Seq(AdapterMessages) /\ engine' = engine
      /\ apiQ \in Seq(ApiMessages) /\ m \in AdapterMessages /\ m \in Elements(adapterQ)
  BY AdapterTakes, Taken DEF Types, AdapterThread
<1>1. /\ m.ok /\ answered[id] = State(m.to.then.fence) /\ Untold(id)
      /\ engine.fences[h].id = id /\ ~engine.fences[h].paused
      /\ \A n \in Elements(apiQ) : ~Names(n, id)
  BY <1>0 DEF ToldFits, BackFits
<1>2. m.type = "answer" /\ m.to \in Requests /\ h \in HwIds /\ m.to.id = id /\ m.to.op = "add"
  BY <1>0, <1>1, AdapterFields, RequestFields DEF RestoredOf, RestoreOf, Names
<1>3. ~HandleEngineUp
  BY <1>2 DEF HandleEngineUp, Take
<1>4. Untold(id)' /\ answered'[id] = answered[id]
  BY <1>1, <1>3, AnswerTaken DEF AdapterThread
<1>5. \A g \in HwIds : engine.fences[g].id = id => g = h
  BY <1>1, <1>2, EnginePlaces
<1>6. ~RestoreBack(id)'
  <2> SUFFICES ASSUME NEW k \in 1..Len(Tail(adapterQ)), RestoredOf(Tail(adapterQ)[k], id) PROVE FALSE
    BY <1>0 DEF RestoreBack, Elements
  <2>1. k + 1 \in 1..Len(adapterQ) /\ Tail(adapterQ)[k] = adapterQ[k + 1] /\ m = adapterQ[1] /\ 1 \in 1..Len(adapterQ)
        /\ k + 1 # 1
    BY <1>0, Taken
  <2>2. adapterQ[k + 1] \in AdapterMessages /\ adapterQ[k + 1] \in Elements(adapterQ) /\ RestoredOf(adapterQ[k + 1], id)
    BY <1>0, <2>1 DEF Elements
  <2>3. adapterQ[k + 1].ok
    BY <2>2 DEF ToldFits, BackFits
  <2>4. adapterQ[k + 1].type = "answer" /\ adapterQ[k + 1].to \in Requests
    BY <2>2, AdapterFields DEF RestoredOf
  <2>5. adapterQ[k + 1].to.id = id /\ adapterQ[k + 1].to.op = "add"
    BY <2>2, <2>4, RequestFields DEF RestoredOf, RestoreOf, Names
  <2>6. BearsBack(batches, adapterQ[k + 1], id) /\ BearsBack(batches, adapterQ[1], id)
    BY <1>1, <1>2, <2>1, <2>3, <2>4, <2>5 DEF BearsBack
  <2> QED BY <2>1, <2>6 DEF Unique, OnceOf, BackOnce
<1> HIDE DEF m, h
<1>7. ASSUME NEW v, answered[id] = v PROVE WillAnswer(id, v)'
  <2>1. Unsaid(adapterQ', Told(id)) /\ answered'[id] = v
    BY <1>4, <1>7 DEF Untold, Told
  <2> QED BY <2>1 DEF WillAnswer, Will, Told, ToldThat
<1>8. BackFits(id)'
  BY <1>6 DEF BackFits, RestoreBack
<1>9. LackingTold(id)'
  BY <1>0, <1>1, <1>2 DEF LackingTold
<1>10. CASE ~m.to.then.fence.paused
  <2>1. apiQ' = apiQ
    BY <1>1, <1>10, RestoredPauses DEF m
  <2>2. OutFits(id)'
    BY <1>1, <2>1 DEF OutFits, RestoreOf, ToldFits
  <2>3. AgainFits(id)'
    BY <1>1, <2>1 DEF AgainFits, PauseOf, ToldFits
  <2>4. WatchedTold(id)'
    <3> SUFFICES ASSUME NEW g \in HwIds, (engine.fences[g].id = id)' PROVE WillAnswer(id, State(engine.fences[g]))'
      BY DEF WatchedTold
    <3>1. g = h
      BY <1>0, <1>5
    <3>2. answered[id] = State(engine.fences[g])
      BY <1>1, <1>10, <3>1 DEF State
    <3>3. answered[id] = State(engine'.fences[g])
      BY <1>0, <3>2
    <3> QED BY <1>7, <3>3 DEF WillAnswer, State
  <2> QED BY <1>8, <1>9, <2>2, <2>3, <2>4 DEF ToldFits
<1>11. CASE m.to.then.fence.paused
  <2>1. PICK r \in Requests :
           /\ r \in ApiMessages /\ apiQ' = Append(apiQ, r) /\ r.hwId = h
           /\ r.op = "pause" /\ r.then.for = "nobody" /\ r.id = m.to.id
    BY <1>1, <1>11, RestoredPauses DEF m, h
  <2>2. Elements(apiQ') = Elements(apiQ) \cup {r} /\ apiQ' = apiQ \o <<r>> /\ <<r>> \in Seq(ApiMessages)
        /\ Elements(<<r>>) = {r} /\ Len(<<r>>) = 1
    BY <1>0, <2>1, ElementsOfAppend, AppendJoins DEF Elements
  <2>3. PauseOf(r, id) /\ ~RestoreOf(r, id)
    BY <1>2, <2>1, RequestFields DEF PauseOf, RestoreOf, Names
  <2>4. RestoreLast(<<r>>, id) /\ PauseFirst(<<r>>, id)
    BY <2>2 DEF RestoreLast, PauseFirst
  <2>5. RestoreLast(apiQ \o <<r>>, id) /\ PauseFirst(apiQ \o <<r>>, id)
    <3>1. RestoreLast(apiQ, id) /\ PauseFirst(apiQ, id)
      BY DEF ToldFits, OutFits, AgainFits
    <3>2. \A n \in Elements(apiQ) : ~Names(n, id) /\ ~RestoreOf(n, id)
      BY <1>1 DEF RestoreOf
    <3>3. RestoreLast(apiQ \o <<r>>, id)
      BY <1>0, <2>2, <2>4, <3>1, <3>2, OrderJoined
    <3>4. PauseFirst(apiQ \o <<r>>, id)
      BY <1>0, <2>2, <2>4, <3>1, <3>2, OrderJoined
    <3> QED BY <3>3, <3>4
  <2>6. OutFits(id)'
    BY <1>1, <2>2, <2>3, <2>5 DEF OutFits, RestoreOf
  <2>7. WillAnswer(id, "paused")'
    BY <1>1, <1>7, <1>11 DEF State
  <2>8. \A n \in Elements(apiQ') : PauseOf(n, id) => n = r
    BY <1>1, <2>2 DEF PauseOf
  <2>9. AgainFits(id)'
    BY <1>0, <1>1, <2>1, <2>2, <2>5, <2>7, <2>8 DEF AgainFits
  <2>10. PauseOut(id)'
    BY <2>2, <2>3 DEF PauseOut
  <2> QED BY <1>8, <1>9, <2>6, <2>9, <2>10 DEF ToldFits, WatchedTold
<1> QED BY <1>10, <1>11

\* The adapter handles a restart: what it keeps is asked for again.
LEMMA RestartedFits ==
    ASSUME Types, Unique, AnswersFit, Phases, used.crashes <= 1, HandleEngineUp, NEW id \in Ids, IsKept(fences, id)
    PROVE  Unsaid(Tail(adapterQ), Told(id))
<1>1. /\ adapterQ # <<>> /\ IsUp(Head(adapterQ)) /\ adapterQ' = Tail(adapterQ)
      /\ \A k \in 1..Len(Tail(adapterQ)) : ~IsUp(Tail(adapterQ)[k])
  BY UpTaken
<1>2. /\ Head(adapterQ) = adapterQ[1] /\ Len(adapterQ) \in Nat
      /\ \A k \in 1..Len(Tail(adapterQ)) :
            k + 1 \in 1..Len(adapterQ) /\ Tail(adapterQ)[k] = adapterQ[k + 1]
  BY <1>1, Taken
<1>3. OnceOf(batches, adapterQ, apiQ, fences, id)
  BY DEF Unique
<1>4. ~IsBack(batches, adapterQ, id)
  BY <1>3 DEF OnceOf
<1> SUFFICES ASSUME NEW k \in 1..Len(Tail(adapterQ)), Tail(adapterQ)[k] \in Told(id) PROVE FALSE
  BY DEF Unsaid
<1> DEFINE j == k + 1
           m == adapterQ[j]
<1>5. j \in 1..Len(adapterQ) /\ j - 1 = k /\ k \in 1..k /\ 1 \in 1..k /\ m = Tail(adapterQ)[k]
  BY <1>2
<1>6. m \in AdapterMessages /\ m \in Elements(adapterQ) /\ SaysOf(m, id)
  BY <1>1, <1>5 DEF Told, Elements
<1>7. m.type = "answer" /\ m.ok /\ m.to.id = id /\ m.hwId \in HwIds
  BY <1>6, AdapterFields DEF SaysOf
<1> HIDE DEF j, m
<1>8. CASE m.to.op = "add"
  BY <1>4, <1>6, <1>7, <1>8 DEF BearsBack, IsBack
<1>9. CASE m.to.op # "add"
  <2>1. IsOk(m, m.hwId)
    BY <1>7 DEF IsOk
  <2>2. WillKeep(adapterQ, j - 1, fences, m.hwId, id)
    BY <1>5, <1>7, <1>9, <2>1 DEF AnswersFit, m
  <2>3. ~Silent(adapterQ, k, m.hwId)
    BY <1>1, <1>2, <1>5 DEF Silent, Speaks, IsUp
  <2>4. PICK l \in 1..k : Brings(adapterQ[l], m.hwId, id)
    BY <1>5, <2>2, <2>3 DEF WillKeep, Last
  <2>5. l \in 1..Len(adapterQ)
    BY <1>2
  <2>6. BearsBack(batches, adapterQ[l], id)
    BY <2>4 DEF Brings, IsOk, BearsBack
  <2> QED BY <1>4, <2>5, <2>6 DEF IsBack, Elements
<1> QED BY <1>8, <1>9

LEMMA RestartTold ==
    ASSUME Types, Unique, Watched, AnswersFit, Phases, used.crashes <= 1, HandleEngineUp,
           NEW id \in Ids, ToldFits(id), KeptAs(id)
    PROVE  ToldFits(id)'
<1>1. PICK old, requests : RestartEffect(old, requests)
  BY EngineUpHandled
<1>2. /\ adapterQ # <<>> /\ IsUp(Head(adapterQ)) /\ adapterQ' = Tail(adapterQ)
      /\ UpComing /\ NoRestore
  BY UpTaken
<1>3. /\ adapterQ \in Seq(AdapterMessages) /\ apiQ \in Seq(ApiMessages) /\ requests \in Seq(ApiMessages)
      /\ apiQ' = apiQ \o requests /\ engine' = engine /\ answered' = answered
  BY <1>1 DEF Types, RestartEffect
<1>4. /\ \A k \in 1..Len(requests) :
            /\ requests[k].op = "add" /\ requests[k].then.for = "restore" /\ requests[k].id = fences[old[k]].id
            /\ requests[k].then.fence = fences[old[k]] /\ old[k] \in HwIds
      /\ \A k, l \in 1..Len(requests) : old[k] = old[l] => k = l
      /\ \A h \in HwIds : fences[h] # NoFence => \E k \in 1..Len(requests) : old[k] = h
  <2>1. /\ \A k \in 1..Len(requests) :
              LET r == requests[k]
                  fence == fences[old[k]]
              IN  /\ old[k] \in HwIds /\ fence \in Fence
                  /\ r.op = "add" /\ r.id = fence.id /\ r.opt = fence.opt
                  /\ r.then = ForRestore(fence) /\ r.then.for = "restore"
        /\ \A k, l \in 1..Len(requests) : old[k] = old[l] => k = l
        /\ \A h \in HwIds : fences[h] # NoFence => \E k \in 1..Len(requests) : old[k] = h
    BY <1>1 DEF RestartEffect
  <2>2. \A fence \in Fence : ForRestore(fence).fence = fence
    BY Purposes
  <2> QED BY <2>1, <2>2
<1>5. Elements(apiQ') = Elements(apiQ) \cup Elements(requests) /\ Elements(adapterQ') \subseteq Elements(adapterQ)
      /\ Head(adapterQ) \in AdapterMessages
  <2>1. Elements(apiQ') = Elements(apiQ) \cup Elements(requests)
    BY <1>3, ElementsOfJoin
  <2>2. Elements(adapterQ') \subseteq Elements(adapterQ)
    BY <1>2, <1>3, ElementsOfTail
  <2> QED BY <1>2, <2>1, <2>2, Taken
<1>6. (\A m \in Elements(apiQ) : ~RestoreOf(m, id) /\ ~PauseOf(m, id)) /\ \A m \in Elements(adapterQ') : ~RestoredOf(m, id)
  BY <1>2, <1>5 DEF NoRestore, RestoreOf, PauseOf, RestoredOf, Names
<1>7. \A m \in Elements(requests) : ~PauseOf(m, id)
  BY <1>4 DEF PauseOf, Elements
<1>8. BackFits(id)'
  BY <1>6 DEF BackFits
<1>9. AgainFits(id)'
  <2>1. PauseFirst(requests, id) /\ ~(\E m \in Elements(requests) : PauseOf(m, id))
    BY <1>7 DEF PauseFirst, Elements
  <2>2. PauseFirst(apiQ, id)
    BY DEF ToldFits, AgainFits
  <2>3. PauseFirst(apiQ', id)
    BY <1>3, <2>1, <2>2, OrderJoined
  <2> QED BY <1>5, <1>6, <1>7, <2>3 DEF AgainFits
<1>10. RestoreLast(requests, id) => RestoreLast(apiQ', id)
  <2>1. RestoreLast(apiQ, id)
    BY DEF ToldFits, OutFits
  <2> QED BY <1>3, <1>6, <2>1, OrderJoined
<1>11. CASE IsKept(fences, id)
  <2>1. PICK h \in HwIds : fences[h].id = id
    BY <1>11 DEF IsKept
  <2>2. \A g \in HwIds : fences[g].id = id => g = h
    BY <2>1, OnceKept
  <2>3. fences[h] # NoFence /\ answered[id] = State(fences[h])
    BY <2>1, Numbers DEF KeptAs, NoFence
  <2>4. \A k \in 1..Len(requests) : requests[k].id = id => old[k] = h
    BY <1>4, <2>2
  <2>5. Unsaid(adapterQ', Told(id))
    BY <1>2, <1>11, RestartedFits
  <2>6. RestoreLast(requests, id)
    <3> SUFFICES ASSUME NEW k \in 1..Len(requests), NEW l \in 1..Len(requests), k < l,
                        RestoreOf(requests[k], id), Names(requests[l], id)
                 PROVE  FALSE
      BY DEF RestoreLast
    <3>1. old[k] = h /\ old[l] = h
      BY <2>4 DEF RestoreOf, Names
    <3>2. k = l
      BY <1>4, <3>1
    <3> QED BY <3>2
  <2>7. \A m \in Elements(apiQ') : RestoreOf(m, id) => answered'[id] = State(m.then.fence) /\ Untold(id)'
    <3> SUFFICES ASSUME NEW m \in Elements(requests), RestoreOf(m, id)
                 PROVE  answered'[id] = State(m.then.fence) /\ Untold(id)'
      BY <1>5, <1>6
    <3>1. PICK k \in 1..Len(requests) : m = requests[k]
      BY DEF Elements
    <3>2. m.then.fence = fences[h]
      BY <1>4, <2>4, <3>1 DEF RestoreOf, Names
    <3> QED BY <1>3, <2>3, <2>5, <3>2 DEF Untold, Told
  <2>8. OutFits(id)'
    BY <1>10, <2>6, <2>7 DEF OutFits
  <2>9. RestoreOut(id)'
    <3>1. PICK k \in 1..Len(requests) : old[k] = h
      BY <1>4, <2>3
    <3>2. RestoreOf(requests[k], id) /\ requests[k] \in Elements(requests)
      BY <1>4, <2>1, <3>1 DEF RestoreOf, Names, Elements, Commands
    <3> QED BY <1>5, <3>2 DEF RestoreOut
  <2>10. \A g \in HwIds : engine.fences[g].id # id
    BY <1>2, <1>11, EnginePlaces
  <2>11. WatchedTold(id)' /\ LackingTold(id)'
    BY <1>3, <2>9, <2>10 DEF WatchedTold, LackingTold
  <2> QED BY <1>8, <1>9, <2>8, <2>11 DEF ToldFits
<1>12. CASE ~IsKept(fences, id)
  <2>1. \A m \in Elements(requests) : ~Names(m, id)
    BY <1>4, <1>12 DEF Names, Elements, IsKept
  <2>2. RestoreLast(requests, id) /\ \A m \in Elements(requests) : ~RestoreOf(m, id)
    BY <2>1 DEF RestoreLast, RestoreOf, Elements
  <2>3. OutFits(id)'
    BY <1>5, <1>6, <1>10, <2>2 DEF OutFits
  <2>4. ~PauseOut(id) /\ ~RestoreOut(id) /\ ~RestoreBack(id)
    BY <1>2, <1>6 DEF PauseOut, RestoreOut, RestoreBack, NoRestore, RestoredOf, RestoreOf
  <2>5. ASSUME NEW v, WillAnswer(id, v), v = "removed" => answered[id] = v
        PROVE  Will(adapterQ', ToldThat(id, v), Told(id), answered'[id] = v)
    <3>1. Head(adapterQ) \in Told(id)
      BY <1>2, <1>5 DEF Told
    <3>2. Head(adapterQ) \in ToldThat(id, v) => v = "removed"
      BY <1>2, <1>5, AdapterFields DEF ToldThat, IsUp, SaysOf
    <3>3. (answered[id] = v) \in BOOLEAN /\ (answered'[id] = v) \in BOOLEAN
      OBVIOUS
    <3>4. Head(adapterQ) \in ToldThat(id, v) => answered'[id] = v
      BY <1>3, <2>5, <3>2
    <3>5. Will(adapterQ, ToldThat(id, v), Told(id), answered[id] = v)
      BY <2>5 DEF WillAnswer
    <3>6. Will(Tail(adapterQ), ToldThat(id, v), Told(id), answered'[id] = v)
      BY <1>2, <1>3, <3>1, <3>3, <3>4, <3>5, WillTaken
    <3> QED BY <1>2, <3>6
  <2>6. WatchedTold(id)'
    <3> SUFFICES ASSUME NEW h \in HwIds, (engine.fences[h].id = id)' PROVE WillAnswer(id, State(engine.fences[h]))'
      BY DEF WatchedTold
    <3>1. WillAnswer(id, State(engine.fences[h]))
      BY <1>3, <2>4 DEF ToldFits, WatchedTold
    <3>2. State(engine.fences[h]) # "removed"
      BY DEF State
    <3>3. Will(adapterQ', ToldThat(id, State(engine.fences[h])), Told(id), answered'[id] = State(engine.fences[h]))
      BY <2>5, <3>1, <3>2
    <3> QED BY <1>3, <3>3 DEF WillAnswer, ToldThat, Told, State
  <2>7. LackingTold(id)'
    <3>1. ASSUME WillAnswer(id, "removed") PROVE WillAnswer(id, "removed")'
      <4>1. answered[id] = "removed"
        BY <1>12 DEF KeptAs
      <4> QED BY <2>5, <3>1, <4>1 DEF WillAnswer, ToldThat, Told
    <3> QED BY <1>3, <2>4, <3>1 DEF ToldFits, LackingTold
  <2> QED BY <1>8, <1>9, <2>3, <2>6, <2>7 DEF ToldFits
<1> QED BY <1>11, <1>12

\* A message comes to the adapter.
LEMMA AnswerAdded ==
    ASSUME Types, NEW m \in AdapterMessages, adapterQ' = Append(adapterQ, m), answered' = answered, NEW id
    PROVE  /\ \A v : m \in ToldThat(id, v) \/ (m \notin Told(id) /\ WillAnswer(id, v)) => WillAnswer(id, v)'
           /\ m \notin Told(id) /\ Untold(id) => Untold(id)'
<1>1. adapterQ \in Seq(AdapterMessages)
  BY DEF Types
<1>2. ASSUME NEW v, m \in ToldThat(id, v) \/ (m \notin Told(id) /\ WillAnswer(id, v))
      PROVE  WillAnswer(id, v)'
  <2>1. (answered[id] = v) \in BOOLEAN
    OBVIOUS
  <2>2. m \in ToldThat(id, v) \/ (m \notin Told(id) /\ Will(adapterQ, ToldThat(id, v), Told(id), answered[id] = v))
    BY <1>2 DEF WillAnswer
  <2>3. Will(Append(adapterQ, m), ToldThat(id, v), Told(id), answered[id] = v)
    BY <1>1, <2>1, <2>2, WillAdded
  <2>4. Will(adapterQ', ToldThat(id, v), Told(id), answered'[id] = v)
    BY <2>3
  <2> QED BY <2>4 DEF WillAnswer, ToldThat, Told
<1>3. ASSUME m \notin Told(id), Untold(id) PROVE Untold(id)'
  <2>1. Unsaid(Append(adapterQ, m), Told(id))
    BY <1>1, <1>3, UnsaidAdded DEF Untold
  <2>2. Unsaid(adapterQ', Told(id))
    BY <2>1
  <2> QED BY <2>2 DEF Untold, Told
<1> QED BY <1>2, <1>3

\* A step that neither tells of a fence nor restores it nor changes it in the engine.
LEMMA QuietTold ==
    ASSUME Types, NEW id \in Ids, ToldFits(id), answered' = answered,
           \/ adapterQ' = adapterQ
           \/ \E m \in AdapterMessages :
                 adapterQ' = Append(adapterQ, m) /\ m \notin Told(id) /\ ~RestoredOf(m, id),
           \/ apiQ' = apiQ
           \/ apiQ # <<>> /\ apiQ' = Tail(apiQ) /\ ~RestoreOf(Head(apiQ), id) /\ ~PauseOf(Head(apiQ), id),
           engine'.up => engine.up,
           \A h \in HwIds : engine'.fences[h].id = id <=> engine.fences[h].id = id,
           \A h \in HwIds : engine.fences[h].id = id => engine'.fences[h].paused = engine.fences[h].paused
    PROVE  ToldFits(id)'
<1>0. adapterQ \in Seq(AdapterMessages) /\ apiQ \in Seq(ApiMessages)
  BY DEF Types
<1>1. /\ \A v : WillAnswer(id, v) => WillAnswer(id, v)'
      /\ Untold(id) => Untold(id)'
      /\ \A m \in Elements(adapterQ') : RestoredOf(m, id) => m \in Elements(adapterQ)
      /\ Elements(adapterQ) \subseteq Elements(adapterQ')
  <2>1. CASE adapterQ' = adapterQ
    BY <2>1 DEF WillAnswer, Untold, ToldThat, Told
  <2>2. ASSUME NEW m \in AdapterMessages, adapterQ' = Append(adapterQ, m), m \notin Told(id), ~RestoredOf(m, id)
        PROVE  /\ \A v : WillAnswer(id, v) => WillAnswer(id, v)'
               /\ Untold(id) => Untold(id)'
               /\ \A n \in Elements(adapterQ') : RestoredOf(n, id) => n \in Elements(adapterQ)
               /\ Elements(adapterQ) \subseteq Elements(adapterQ')
    <3>1. Elements(adapterQ') = Elements(adapterQ) \cup {m}
      BY <1>0, <2>2, ElementsOfAppend
    <3>2. /\ \A v : m \in ToldThat(id, v) \/ (m \notin Told(id) /\ WillAnswer(id, v)) => WillAnswer(id, v)'
          /\ m \notin Told(id) /\ Untold(id) => Untold(id)'
      BY <2>2, AnswerAdded
    <3> QED BY <2>2, <3>1, <3>2
  <2> QED BY <2>1, <2>2
<1>2. /\ Elements(apiQ') \subseteq Elements(apiQ)
      /\ \A m \in Elements(apiQ) : RestoreOf(m, id) \/ PauseOf(m, id) => m \in Elements(apiQ')
      /\ RestoreLast(apiQ', id) /\ PauseFirst(apiQ', id)
  <2>1. RestoreLast(apiQ, id) /\ PauseFirst(apiQ, id)
    BY DEF ToldFits, OutFits, AgainFits
  <2>2. CASE apiQ' = apiQ
    BY <2>1, <2>2
  <2>3. CASE apiQ # <<>> /\ apiQ' = Tail(apiQ) /\ ~RestoreOf(Head(apiQ), id) /\ ~PauseOf(Head(apiQ), id)
    <3>1. Elements(apiQ') \subseteq Elements(apiQ) /\ Elements(apiQ) = {Head(apiQ)} \cup Elements(apiQ')
      BY <1>0, <2>3, ElementsOfTail
    <3>2. RestoreLast(apiQ', id) /\ PauseFirst(apiQ', id)
      BY <1>0, <2>1, <2>3, OrderTaken
    <3> QED BY <2>3, <3>1, <3>2
  <2> QED BY <2>2, <2>3
<1>3. (PauseOut(id)' <=> PauseOut(id)) /\ (RestoreOut(id)' <=> RestoreOut(id)) /\ (RestoreBack(id)' <=> RestoreBack(id))
  <2>1. PauseOut(id)' <=> PauseOut(id)
    BY <1>2 DEF PauseOut
  <2>2. RestoreOut(id)' <=> RestoreOut(id)
    BY <1>2 DEF RestoreOut
  <2>3. RestoreBack(id)' <=> RestoreBack(id)
    BY <1>1 DEF RestoreBack
  <2> QED BY <2>1, <2>2, <2>3
<1>4. WatchedTold(id)'
  <2> SUFFICES ASSUME NEW h \in HwIds, (engine.fences[h].id = id)', ~PauseOut(id)', ~RestoreBack(id)'
               PROVE  WillAnswer(id, State(engine.fences[h]))'
    BY DEF WatchedTold
  <2>1. engine.fences[h].id = id /\ State(engine'.fences[h]) = State(engine.fences[h])
    BY DEF State
  <2>2. WillAnswer(id, State(engine.fences[h]))
    BY <1>3, <2>1 DEF ToldFits, WatchedTold
  <2>3. Will(adapterQ', ToldThat(id, State(engine.fences[h])), Told(id), answered'[id] = State(engine.fences[h]))
    <3>1. ASSUME NEW v, WillAnswer(id, v)
          PROVE  Will(adapterQ', ToldThat(id, v), Told(id), answered'[id] = v)
      <4>1. WillAnswer(id, v)'
        BY <1>1, <3>1
      <4> QED BY ONLY <4>1 DEF WillAnswer, ToldThat, Told
    <3> QED BY <2>2, <3>1
  <2>4. Will(adapterQ', ToldThat(id, State(engine'.fences[h])), Told(id), answered'[id] = State(engine'.fences[h]))
    BY <2>1, <2>3
  <2> QED BY <2>4 DEF WillAnswer, ToldThat, Told, State
<1>5. LackingTold(id)'
  <2>1. WillAnswer(id, "removed") => WillAnswer(id, "removed")'
    BY <1>1
  <2> QED BY <1>3, <2>1 DEF ToldFits, LackingTold
<1>6. OutFits(id)'
  BY <1>1, <1>2 DEF ToldFits, OutFits
<1>7. BackFits(id)'
  <2> SUFFICES ASSUME NEW m \in Elements(adapterQ'), RestoredOf(m, id)
               PROVE  /\ m.ok /\ answered'[id] = State(m.to.then.fence) /\ Untold(id)'
                      /\ engine'.fences[m.hwId].id = id /\ ~engine'.fences[m.hwId].paused
                      /\ \A n \in Elements(apiQ') : ~Names(n, id)
    BY DEF BackFits
  <2>1. m \in Elements(adapterQ)
    BY <1>1
  <2>2. /\ m.ok /\ answered[id] = State(m.to.then.fence) /\ Untold(id)
        /\ engine.fences[m.hwId].id = id /\ ~engine.fences[m.hwId].paused
        /\ \A n \in Elements(apiQ) : ~Names(n, id)
    BY <2>1 DEF ToldFits, BackFits
  <2>3. m.hwId \in HwIds
    <3>1. m \in AdapterMessages
      BY <1>0, <2>1 DEF Elements
    <3> QED BY <2>2, <3>1, AdapterFields DEF RestoredOf
  <2> QED BY <1>1, <1>2, <2>2, <2>3
<1>8. AgainFits(id)'
  <2>1. ASSUME NEW m \in Elements(apiQ'), PauseOf(m, id)
        PROVE  engine'.fences[m.hwId].id = id /\ WillAnswer(id, "paused")'
    <3>1. m \in Elements(apiQ)
      BY <1>2
    <3>2. engine.fences[m.hwId].id = id /\ WillAnswer(id, "paused")
      BY <2>1, <3>1 DEF ToldFits, AgainFits
    <3>3. m \in Requests
      BY <1>0, <2>1, <3>1, ApiFields DEF PauseOf, Names, Elements
    <3>4. m.hwId \in HwIds
      BY <2>1, <3>3, RequestFields DEF PauseOf
    <3> QED BY <1>1, <3>2, <3>4
  <2> QED BY <1>2, <2>1 DEF AgainFits
<1> QED BY <1>4, <1>5, <1>6, <1>7, <1>8 DEF ToldFits

\* A fence that is to be added has room in the engine.
LEMMA HasRoom ==
    ASSUME Types, Unique, Watched, NEW id \in Ids, IsOut(batches, apiQ, id)
    PROVE  Free # {}
<1> SUFFICES ASSUME Free = {} PROVE FALSE
  OBVIOUS
<1>1. \A h \in HwIds : Held(h) /\ engine.fences[h].id \in Ids
  <2> TAKE h \in HwIds
  <2>1. Held(h)
    BY DEF Free
  <2> QED BY <2>1, FenceFields DEF Types, Held
<1>2. \A h \in HwIds : engine.fences[h].id # id
  BY EnginePlaces
<1> DEFINE f == [h \in HwIds |-> engine.fences[h].id]
           OtherIds == Ids \ {id}
<1>3. f \in [HwIds -> OtherIds]
  BY <1>1, <1>2
<1>4. IsFiniteSet(HwIds) /\ IsFiniteSet(Ids) /\ Ids = HwIds /\ Cardinality(Ids) \in Nat
  <2>1. IsFiniteSet(HwIds) /\ IsFiniteSet(Ids) /\ Ids = HwIds
    BY Numbers DEF Ids, HwIds
  <2> QED BY <2>1, FS_CardinalityType
<1>5. IsFiniteSet(OtherIds) /\ Cardinality(OtherIds) = Cardinality(Ids) - 1
  BY <1>4, FS_RemoveElement
<1>6. Cardinality(OtherIds) < Cardinality(HwIds)
  BY <1>4, <1>5
<1> HIDE DEF f, OtherIds
<1>7. PICK g \in HwIds, h \in HwIds : g # h /\ f[g] = f[h]
  BY <1>3, <1>4, <1>5, <1>6, FS_PigeonHole
<1>8. engine.fences[g].id = engine.fences[h].id
  BY <1>7 DEF f
<1> QED BY <1>1, <1>7, <1>8, EnginePlaces

\* The engine refuses nothing that restores a fence, if it refuses nothing that it need not.
LEMMA FailTold ==
    ASSUME Types, Unique, Watched, Phases, NEW m, FailEffect(m), Undisturbed, Undisturbed', NEW id \in Ids, ToldFits(id)
    PROVE  ToldFits(id)'
<1>1. /\ m \in Requests /\ apiQ # <<>> /\ Head(apiQ) = m /\ apiQ' = Tail(apiQ) /\ Replies(m, FALSE, m.hwId)
      /\ engine' = engine /\ answered' = answered /\ m.op \in Commands /\ m.op # "ssr"
      /\ MustFail(m) \/ used'.refusals = used.refusals + 1
  BY RequestFields DEF FailEffect, Commands
<1>2. Head(apiQ) \in Elements(apiQ)
  BY <1>1, ApiTaken
<1>3. ASSUME m.then.for \in {"restore", "nobody"} PROVE MustFail(m) /\ engine.up
  <2>1. ~NoRestore
    BY <1>1, <1>2, <1>3 DEF NoRestore
  <2>2. engine.up /\ used.crashes # 0
    BY <2>1 DEF Phases, Early, Undisturbed
  <2>3. used'.crashes = used.crashes /\ used.refusals \in Nat
    BY DEF FailEffect, Types
  <2>4. used'.refusals = 0
    BY <2>2, <2>3 DEF Undisturbed
  <2> QED BY <1>1, <2>2, <2>3, <2>4
<1>4. ~RestoreOf(m, id)
  <2> SUFFICES ASSUME RestoreOf(m, id) PROVE FALSE
    OBVIOUS
  <2>1. m.op = "add" /\ m.id = id
    BY <1>1, RequestFields DEF RestoreOf, Names
  <2>2. IsOut(batches, apiQ, id)
    BY <1>1, <1>2, <2>1 DEF IsOut, BearsOut
  <2>3. Free # {}
    BY <2>2, HasRoom
  <2> QED BY <1>3, <2>1, <2>3 DEF RestoreOf, MustFail
<1>5. ~PauseOf(m, id)
  <2> SUFFICES ASSUME PauseOf(m, id) PROVE FALSE
    OBVIOUS
  <2>1. m.op = "pause"
    BY <1>1, RequestFields DEF PauseOf
  <2>2. engine.fences[m.hwId].id = id
    BY <1>1, <1>2 DEF ToldFits, AgainFits
  <2>3. Held(m.hwId)
    BY <2>2, Numbers DEF Held, NoFence
  <2> QED BY <1>3, <2>1, <2>3 DEF PauseOf, MustFail
<1>6. \/ adapterQ' = adapterQ
      \/ \E a \in AdapterMessages : adapterQ' = Append(adapterQ, a) /\ a \notin Told(id) /\ ~RestoredOf(a, id)
  <2>1. CASE m.then.for = "nobody" /\ adapterQ' = adapterQ
    BY <2>1
  <2>2. ASSUME NEW a \in Answers, a \in AdapterMessages, adapterQ' = Append(adapterQ, a),
               a.type = "answer", a.ok = FALSE, a.to = m
        PROVE  a \notin Told(id) /\ ~RestoredOf(a, id)
    BY <1>4, <2>2 DEF Told, IsUp, SaysOf, RestoredOf
  <2> QED BY <1>1, <2>1, <2>2 DEF Replies
<1> QED BY <1>1, <1>4, <1>5, <1>6, QuietTold

\* A request for another fence is served.
LEMMA ServeOther ==
    ASSUME Types, NEW m, NEW h, ServeEffect(m, h), ~strayed', NEW id \in Ids, m.id # id, ToldFits(id)
    PROVE  ToldFits(id)'
<1>1. /\ m \in Requests /\ h \in HwIds /\ apiQ # <<>> /\ Head(apiQ) = m /\ apiQ' = Tail(apiQ) /\ Replies(m, TRUE, h)
      /\ engine.up /\ answered' = answered /\ m.op \in Commands
      /\ \A g \in HwIds : g # h => engine'.fences[g] = engine.fences[g]
  BY RequestFields DEF ServeEffect
<1>2. engine.fences[h].id # id
  <2>1. CASE m.op = "add"
    BY <2>1, Numbers DEF ServeEffect, NoFence
  <2>2. CASE m.op # "add"
    BY <2>2 DEF ServeEffect
  <2> QED BY <2>1, <2>2
<1>3. engine'.fences[h].id # id
  <2>1. CASE m.op = "add"
    BY <2>1 DEF ServeEffect
  <2>2. CASE m.op = "remove"
    BY <2>2, Numbers DEF ServeEffect, NoFence
  <2>3. CASE m.op \in {"pause", "resume", "modify"}
    BY <1>2, <2>3 DEF ServeEffect
  <2> QED BY <1>1, <2>1, <2>2, <2>3 DEF Commands
<1>4. \/ adapterQ' = adapterQ
      \/ \E a \in AdapterMessages : adapterQ' = Append(adapterQ, a) /\ a \notin Told(id) /\ ~RestoredOf(a, id)
  <2>1. CASE m.then.for = "nobody" /\ adapterQ' = adapterQ
    BY <2>1
  <2>2. ASSUME NEW a \in Answers, a \in AdapterMessages, adapterQ' = Append(adapterQ, a), a.type = "answer", a.to = m
        PROVE  a \notin Told(id) /\ ~RestoredOf(a, id)
    BY <2>2 DEF Told, IsUp, SaysOf, RestoredOf, RestoreOf, Names
  <2> QED BY <1>1, <2>1, <2>2 DEF Replies
<1>5. ~RestoreOf(Head(apiQ), id) /\ ~PauseOf(Head(apiQ), id)
  BY <1>1 DEF RestoreOf, PauseOf, Names
<1>6. \A g \in HwIds : engine'.fences[g].id = id <=> engine.fences[g].id = id
  BY <1>1, <1>2, <1>3
<1>7. \A g \in HwIds : engine.fences[g].id = id => engine'.fences[g].paused = engine.fences[g].paused
  BY <1>1, <1>2
<1> QED BY <1>1, <1>4, <1>5, <1>6, <1>7, QuietTold

\* How the engine has a fence after a request.
LEMMA ServedState ==
    ASSUME Types, NEW m, NEW h, ServeEffect(m, h)
    PROVE  /\ m.op = "add" => engine'.fences[h].paused = FALSE
           /\ m.op \in {"add", "pause", "resume"} => State(engine'.fences[h]) = Agreed(m.op)
           /\ m.op = "modify" => engine'.fences[h].paused = engine.fences[h].paused
<1>1. engine'.fences[h] = Served(m, h) /\ h \in HwIds /\ (m.op # "add" => engine.fences[h] # NoFence)
  BY DEF ServeEffect
<1>2. m.op # "add" => engine.fences[h] \in Fence
  BY <1>1 DEF Types
<1>3. CASE m.op = "add"
  BY <1>1, <1>3 DEF Served, State, Agreed
<1>4. CASE m.op = "pause"
  <2>1. engine'.fences[h] = [engine.fences[h] EXCEPT !.paused = TRUE]
    BY <1>1, <1>4 DEF Served
  <2>2. engine'.fences[h].paused = TRUE
    BY <1>2, <1>4, <2>1 DEF Fence
  <2> QED BY <1>4, <2>2 DEF State, Agreed
<1>5. CASE m.op = "resume"
  <2>1. engine'.fences[h] = [engine.fences[h] EXCEPT !.paused = FALSE]
    BY <1>1, <1>5 DEF Served
  <2>2. engine'.fences[h].paused = FALSE
    BY <1>2, <1>5, <2>1 DEF Fence
  <2> QED BY <1>5, <2>2 DEF State, Agreed
<1>6. CASE m.op = "modify"
  <2>1. engine'.fences[h] = [engine.fences[h] EXCEPT !.opt = m.opt]
    BY <1>1, <1>6 DEF Served
  <2>2. engine'.fences[h].paused = engine.fences[h].paused
    BY <1>2, <1>6, <2>1 DEF Fence
  <2> QED BY <1>6, <2>2
<1> QED BY <1>3, <1>4, <1>5, <1>6

\* A request that is served meets its fence in the engine, or adds it.
LEMMA ServedOwn ==
    ASSUME Types, Unique, Watched, NEW m, NEW h, ServeEffect(m, h), ~strayed', m.id \in Ids
    PROVE  /\ \A g \in HwIds : g # h => engine'.fences[g] = engine.fences[g] /\ engine'.fences[g].id # m.id
           /\ m.op # "remove" => engine'.fences[h].id = m.id
           /\ m.op = "remove" => engine'.fences[h].id # m.id
           /\ m.op # "add" => ~IsOut(batches, apiQ, m.id) /\ ~RestoreOut(m.id) /\ engine.fences[h].id = m.id
           /\ m.op = "add" => IsOut(batches, apiQ, m.id)
<1>1. /\ m \in Requests /\ h \in HwIds /\ apiQ # <<>> /\ Head(apiQ) = m /\ m.op \in Commands
      /\ \A g \in HwIds : g # h => engine'.fences[g] = engine.fences[g]
  BY RequestFields DEF ServeEffect
<1>2. NoFence.id # m.id
  BY Numbers DEF NoFence
<1>3. CASE m.op = "add"
  <2>1. m \in Elements(apiQ)
    BY <1>1, ApiTaken
  <2>2. IsOut(batches, apiQ, m.id)
    BY <1>3, <2>1 DEF IsOut, BearsOut
  <2>3. \A g \in HwIds : engine.fences[g].id # m.id
    BY <2>2, EnginePlaces
  <2>4. engine'.fences[h].id = m.id
    BY <1>3 DEF ServeEffect
  <2> QED BY <1>1, <1>3, <2>2, <2>3, <2>4
<1>4. CASE m.op # "add"
  <2>1. engine.fences[h].id = m.id
    BY <1>4 DEF ServeEffect
  <2>2. /\ ~IsOut(batches, apiQ, m.id) /\ ~RestoreOut(m.id)
        /\ \A g \in HwIds : engine.fences[g].id = m.id => g = h
    BY <1>1, <2>1, EnginePlaces
  <2>3. m.op = "remove" => engine'.fences[h] = NoFence
    BY DEF ServeEffect
  <2>4. m.op \in {"pause", "resume", "modify"} => engine'.fences[h].id = m.id
    BY <2>1 DEF ServeEffect
  <2> QED BY <1>1, <1>2, <1>4, <2>1, <2>2, <2>3, <2>4 DEF Commands
<1> QED BY <1>3, <1>4

\* A client's request is served, and the answer will tell what the engine has.
LEMMA ServeItem ==
    ASSUME Types, Unique, Watched, NEW m, NEW h, ServeEffect(m, h), ~strayed', m.id \in Ids, ToldFits(m.id),
           m.then.for = "item"
    PROVE  ToldFits(m.id)'
<1> DEFINE id == m.id
<1>1. /\ m \in Requests /\ h \in HwIds /\ apiQ # <<>> /\ Head(apiQ) = m /\ apiQ' = Tail(apiQ)
      /\ engine.up /\ answered' = answered /\ m.op \in Commands /\ apiQ \in Seq(ApiMessages)
      /\ adapterQ \in Seq(AdapterMessages) /\ m \in Elements(apiQ)
  BY RequestFields, ApiTaken DEF ServeEffect, Types
<1>2. PICK a \in AdapterMessages :
         adapterQ' = Append(adapterQ, a) /\ a.type = "answer" /\ a.ok = TRUE /\ a.to = m
  BY <1>1 DEF ServeEffect, Replies
<1>3. /\ \A g \in HwIds : g # h => engine'.fences[g] = engine.fences[g] /\ engine'.fences[g].id # id
      /\ m.op # "remove" => engine'.fences[h].id = id
      /\ m.op = "remove" => engine'.fences[h].id # id
      /\ m.op # "add" => ~IsOut(batches, apiQ, id) /\ ~RestoreOut(id) /\ engine.fences[h].id = id
  BY ServedOwn
<1>4. Names(m, id) /\ ~RestoreOf(m, id) /\ ~PauseOf(m, id) /\ ~RestoredOf(a, id)
  BY <1>1, <1>2 DEF Names, RestoreOf, PauseOf, RestoredOf
<1> HIDE DEF id
<1>5. CASE m.op = "modify"
  <2>1. a \notin Told(id)
    BY <1>2, <1>5 DEF Told, IsUp, SaysOf
  <2>2. engine'.fences[h].paused = engine.fences[h].paused
    BY <1>5, ServedState
  <2>3. \A g \in HwIds : engine'.fences[g].id = id <=> engine.fences[g].id = id
    BY <1>3, <1>5
  <2>4. \A g \in HwIds : engine.fences[g].id = id => engine'.fences[g].paused = engine.fences[g].paused
    BY <1>3, <2>2
  <2>5. ToldFits(id) /\ id \in Ids
    BY DEF id
  <2>6. ToldFits(id)'
    BY <1>1, <1>2, <1>4, <2>1, <2>3, <2>4, <2>5, QuietTold
  <2> QED BY <2>6 DEF id
<1>6. CASE m.op # "modify"
  <2>0. ToldFits(id) /\ id \in Ids
    BY DEF id
  <2>1. /\ Elements(apiQ') \subseteq Elements(apiQ)
        /\ \A n \in Elements(apiQ') : ~PauseOf(n, id)
        /\ RestoreLast(apiQ', id) /\ PauseFirst(apiQ', id)
    <3>1. RestoreLast(apiQ, id) /\ PauseFirst(apiQ, id)
      BY <2>0 DEF ToldFits, OutFits, AgainFits
    <3>2. Elements(apiQ') \subseteq Elements(apiQ)
      BY <1>1, ElementsOfTail
    <3> QED BY <1>1, <1>4, <3>1, <3>2, OrderTaken
  <2>2. \A n \in Elements(apiQ') : ~RestoreOf(n, id)
    <3>1. CASE m.op # "add"
      BY <1>3, <2>1, <3>1 DEF RestoreOut
    <3>2. CASE m.op = "add"
      <4> SUFFICES ASSUME NEW k \in 1..Len(Tail(apiQ)), RestoreOf(Tail(apiQ)[k], id) PROVE FALSE
        BY <1>1 DEF Elements
      <4>1. k + 1 \in 1..Len(apiQ) /\ Tail(apiQ)[k] = apiQ[k + 1] /\ m = apiQ[1] /\ 1 \in 1..Len(apiQ) /\ k + 1 # 1
        BY <1>1, ApiTaken
      <4>2. apiQ[k + 1] \in Requests
        BY <1>1, <4>1, ApiFields DEF RestoreOf, Names
      <4>3. apiQ[k + 1].op = "add" /\ apiQ[k + 1].id = id
        BY <4>1, <4>2, RequestFields DEF RestoreOf, Names
      <4>4. BearsOut(batches, apiQ[k + 1], id) /\ BearsOut(batches, apiQ[1], id)
        BY <3>2, <4>1, <4>3 DEF BearsOut, id
      <4> QED BY <2>0, <4>1, <4>4 DEF Unique, OnceOf, OutOnce
    <3> QED BY <3>1, <3>2
  <2>3. \A n \in Elements(adapterQ') : ~RestoredOf(n, id)
    <3>1. Elements(adapterQ') = Elements(adapterQ) \cup {a}
      BY <1>1, <1>2, ElementsOfAppend
    <3>2. \A n \in Elements(adapterQ) : ~RestoredOf(n, id)
      BY <1>1, <1>4, <2>0 DEF ToldFits, BackFits
    <3> QED BY <1>4, <3>1, <3>2
  <2>4. OutFits(id)' /\ BackFits(id)' /\ AgainFits(id)'
    BY <2>1, <2>2, <2>3 DEF OutFits, BackFits, AgainFits
  <2>5. a \in ToldThat(id, Agreed(m.op))
    BY <1>2, <1>6 DEF ToldThat, SaysOf, id
  <2>6. Will(adapterQ', ToldThat(id, Agreed(m.op)), Told(id), answered'[id] = Agreed(m.op))
    <3>1. \A v : a \in ToldThat(id, v) => WillAnswer(id, v)'
      BY <1>1, <1>2, AnswerAdded
    <3> QED BY <2>5, <3>1 DEF WillAnswer, ToldThat, Told
  <2>7. CASE m.op = "remove"
    <3>1. Agreed(m.op) = "removed"
      BY <2>7 DEF Agreed
    <3>2. WillAnswer(id, "removed")'
      BY <2>6, <3>1 DEF WillAnswer, ToldThat, Told
    <3>3. \A g \in HwIds : engine'.fences[g].id # id
      BY <1>3, <2>7
    <3>4. WatchedTold(id)' /\ LackingTold(id)'
      BY <3>2, <3>3 DEF WatchedTold, LackingTold
    <3>5. ToldFits(id)'
      BY <2>4, <3>4 DEF ToldFits
    <3> QED BY <3>5 DEF id
  <2>8. CASE m.op # "remove"
    <3>1. State(engine'.fences[h]) = Agreed(m.op)
      BY <1>1, <1>6, <2>8, ServedState DEF Commands
    <3>2. WatchedTold(id)'
      <4> SUFFICES ASSUME NEW g \in HwIds, (engine.fences[g].id = id)' PROVE WillAnswer(id, State(engine.fences[g]))'
        BY DEF WatchedTold
      <4>1. g = h
        BY <1>3
      <4>2. Will(adapterQ', ToldThat(id, State(engine'.fences[g])), Told(id), answered'[id] = State(engine'.fences[g]))
        BY <2>6, <3>1, <4>1
      <4> QED BY <4>2 DEF WillAnswer, ToldThat, Told, State
    <3>3. LackingTold(id)'
      BY <1>1, <1>3, <2>8 DEF LackingTold
    <3>4. ToldFits(id)'
      BY <2>4, <3>2, <3>3 DEF ToldFits
    <3> QED BY <3>4 DEF id
  <2> QED BY <2>7, <2>8
<1> QED BY <1>5, <1>6

\* A request that restores a fence is served: the answer says where it is, unpaused.
LEMMA ServeRestore ==
    ASSUME Types, Unique, Watched, NEW m, NEW h, ServeEffect(m, h), ~strayed', m.id \in Ids, ToldFits(m.id),
           m.then.for = "restore"
    PROVE  ToldFits(m.id)'
<1> DEFINE id == m.id
<1>1. /\ m \in Requests /\ h \in HwIds /\ apiQ # <<>> /\ Head(apiQ) = m /\ apiQ' = Tail(apiQ)
      /\ engine.up /\ answered' = answered /\ m.op = "add" /\ m.op \in Commands /\ apiQ \in Seq(ApiMessages)
      /\ adapterQ \in Seq(AdapterMessages) /\ m \in Elements(apiQ)
  BY RequestFields, ApiTaken DEF ServeEffect, Types, Commands
<1>2. PICK a \in AdapterMessages :
         adapterQ' = Append(adapterQ, a) /\ a.type = "answer" /\ a.ok = TRUE /\ a.hwId = h /\ a.to = m
  BY DEF ServeEffect, Replies
<1>3. engine'.fences[h].id = id /\ engine'.fences[h].paused = FALSE
  <2>1. m.op # "remove" => engine'.fences[h].id = m.id
    BY ServedOwn
  <2>2. m.op = "add" => engine'.fences[h].paused = FALSE
    BY ServedState
  <2> QED BY <1>1, <2>1, <2>2
<1>4. Names(m, id) /\ RestoreOf(m, id) /\ RestoredOf(a, id) /\ a \notin Told(id)
  BY <1>1, <1>2 DEF Names, RestoreOf, RestoredOf, Told, IsUp, SaysOf
<1>5. ToldFits(id) /\ id \in Ids
  OBVIOUS
<1> HIDE DEF id
<1>6. answered[id] = State(m.then.fence) /\ Untold(id) /\ RestoreLast(apiQ, id)
  BY <1>1, <1>4, <1>5 DEF ToldFits, OutFits
<1>7. \A n \in Elements(apiQ') : ~Names(n, id)
  BY <1>1, <1>4, <1>6, OrderTaken
<1>8. Untold(id)'
  BY <1>1, <1>2, <1>4, <1>6, AnswerAdded
<1>9. Elements(adapterQ') = Elements(adapterQ) \cup {a}
  BY <1>1, <1>2, ElementsOfAppend
<1>10. \A n \in Elements(adapterQ) : ~RestoredOf(n, id)
  BY <1>1, <1>4, <1>5 DEF ToldFits, BackFits
<1>11. BackFits(id)'
  <2> SUFFICES ASSUME NEW n \in Elements(adapterQ'), RestoredOf(n, id)
               PROVE  /\ n.ok /\ answered'[id] = State(n.to.then.fence) /\ Untold(id)'
                      /\ engine'.fences[n.hwId].id = id /\ ~engine'.fences[n.hwId].paused
                      /\ \A r \in Elements(apiQ') : ~Names(r, id)
    BY DEF BackFits, State
  <2>1. n = a
    BY <1>9, <1>10
  <2> QED BY <1>1, <1>2, <1>3, <1>6, <1>7, <1>8, <2>1
<1>12. RestoreBack(id)'
  BY <1>4, <1>9 DEF RestoreBack
<1>13. WatchedTold(id)' /\ LackingTold(id)'
  BY <1>1, <1>3, <1>12 DEF WatchedTold, LackingTold
<1>14. OutFits(id)' /\ AgainFits(id)'
  <2>1. \A n \in Elements(apiQ') : ~RestoreOf(n, id) /\ ~PauseOf(n, id)
    BY <1>7 DEF RestoreOf, PauseOf
  <2>2. RestoreLast(apiQ', id) /\ PauseFirst(apiQ', id)
    BY <1>1, <1>5, OrderTaken DEF ToldFits, OutFits, AgainFits
  <2> QED BY <2>1, <2>2 DEF OutFits, AgainFits
<1>15. ToldFits(id)'
  BY <1>11, <1>13, <1>14 DEF ToldFits
<1> QED BY <1>15 DEF id

\* The fence that was restored is paused again.
LEMMA ServePause ==
    ASSUME Types, Unique, Watched, NEW m, NEW h, ServeEffect(m, h), ~strayed', m.id \in Ids, ToldFits(m.id),
           m.then.for = "nobody"
    PROVE  ToldFits(m.id)'
<1> DEFINE id == m.id
<1>1. /\ m \in Requests /\ h \in HwIds /\ apiQ # <<>> /\ Head(apiQ) = m /\ apiQ' = Tail(apiQ)
      /\ engine.up /\ answered' = answered /\ m.op = "pause" /\ m.op \in Commands /\ apiQ \in Seq(ApiMessages)
      /\ adapterQ' = adapterQ /\ m \in Elements(apiQ) /\ m.hwId = h
  BY RequestFields, ApiTaken DEF ServeEffect, Types, Commands, Replies
<1>2. /\ \A g \in HwIds : g # h => engine'.fences[g] = engine.fences[g] /\ engine'.fences[g].id # id
      /\ engine'.fences[h].id = id /\ ~RestoreOut(id)
  BY <1>1, ServedOwn
<1>3. State(engine'.fences[h]) = "paused"
  <2>1. State(engine'.fences[h]) = Agreed(m.op)
    BY <1>1, ServedState
  <2> QED BY <1>1, <2>1 DEF Agreed
<1>4. Names(m, id) /\ PauseOf(m, id)
  BY <1>1 DEF Names, PauseOf
<1>5. ToldFits(id) /\ id \in Ids
  OBVIOUS
<1> HIDE DEF id
<1>6. WillAnswer(id, "paused") /\ PauseFirst(apiQ, id) /\ RestoreLast(apiQ, id)
  BY <1>1, <1>4, <1>5 DEF ToldFits, AgainFits, OutFits
<1>7. \A n \in Elements(apiQ') : ~PauseOf(n, id)
  BY <1>1, <1>4, <1>6, OrderTaken
<1>8. Elements(apiQ') \subseteq Elements(apiQ)
  BY <1>1, ElementsOfTail
<1>9. \A n \in Elements(apiQ') : ~RestoreOf(n, id)
  BY <1>2, <1>8 DEF RestoreOut
<1>10. \A n \in Elements(adapterQ') : ~RestoredOf(n, id)
  BY <1>1, <1>4, <1>5 DEF ToldFits, BackFits
<1>11. RestoreLast(apiQ', id) /\ PauseFirst(apiQ', id)
  BY <1>1, <1>6, OrderTaken
<1>12. OutFits(id)' /\ BackFits(id)' /\ AgainFits(id)'
  BY <1>7, <1>9, <1>10, <1>11 DEF OutFits, BackFits, AgainFits
<1>13. Will(adapterQ', ToldThat(id, "paused"), Told(id), answered'[id] = "paused")
  BY <1>1, <1>6 DEF WillAnswer
<1>14. WatchedTold(id)'
  <2> SUFFICES ASSUME NEW g \in HwIds, (engine.fences[g].id = id)' PROVE WillAnswer(id, State(engine.fences[g]))'
    BY DEF WatchedTold
  <2>1. g = h
    BY <1>2
  <2>2. Will(adapterQ', ToldThat(id, State(engine'.fences[g])), Told(id), answered'[id] = State(engine'.fences[g]))
    BY <1>3, <1>13, <2>1
  <2> QED BY <2>2 DEF WillAnswer, ToldThat, Told, State
<1>15. LackingTold(id)'
  BY <1>1, <1>2 DEF LackingTold
<1>16. ToldFits(id)'
  BY <1>12, <1>14, <1>15 DEF ToldFits
<1> QED BY <1>16 DEF id

\* The engine serves a request.
LEMMA ServeTold ==
    ASSUME Types, Unique, Watched, GoneLeft, NEW m, NEW h, ServeEffect(m, h), ~strayed', NEW id \in Ids, Here(id), ToldFits(id)
    PROVE  ToldFits(id)'
<1>1. CASE m.id # id
  BY <1>1, ServeOther
<1>2. CASE m.id = id
  <2>1. m \in Requests /\ m \in Elements(apiQ) /\ m.op \in Commands /\ m.then.for \in {"item", "restore", "gone", "nobody"}
    BY RequestFields, ApiTaken DEF ServeEffect
  <2>2. m.then.for # "gone"
    BY <1>2, <2>1 DEF GoneLeft
  <2>3. m.id \in Ids /\ ToldFits(m.id)
    BY <1>2
  <2>4. ToldFits(m.id)'
    BY <2>1, <2>2, <2>3, ServeItem, ServeRestore, ServePause
  <2> QED BY <1>2, <2>4
<1> QED BY <1>1, <1>2

\* The engine crashes for the first time: nothing was restored before.
LEMMA CrashTold ==
    ASSUME Types, Phases, EngineCrash, used'.crashes <= 1, NEW id \in Ids, ToldFits(id)
    PROVE  ToldFits(id)'
<1>1. NoRestore
  <2>1. [Next]_vars
    BY DEF Next
  <2>2. used.crashes \in Nat /\ used'.crashes = used.crashes + 1
    BY <2>1, FaultsGrow
  <2>3. used.crashes = 0
    BY <2>2
  <2> QED BY <2>3 DEF Phases, Early
<1>2. /\ ~engine'.up /\ \A h \in HwIds : engine'.fences[h] = NoFence
      /\ adapterQ' = adapterQ /\ apiQ' = Append(apiQ, [op |-> "ssr"])
      /\ Elements(apiQ') = Elements(apiQ) \cup {[op |-> "ssr"]}
  BY Crashed
<1>3. NoFence.id # id
  BY Numbers DEF NoFence
<1>4. \A m \in Elements(apiQ') : ~RestoreOf(m, id) /\ ~PauseOf(m, id)
  BY <1>1, <1>2 DEF RestoreOf, PauseOf, Names, NoRestore, Commands
<1>5. \A m \in Elements(adapterQ') : ~RestoredOf(m, id)
  BY <1>1, <1>2 DEF RestoredOf, RestoreOf, NoRestore
<1>6. \A h \in HwIds : engine'.fences[h].id # id
  BY <1>2, <1>3
<1>7. RestoreLast(apiQ', id) /\ PauseFirst(apiQ', id)
  BY <1>4 DEF RestoreLast, PauseFirst, Elements
<1>8. OutFits(id)' /\ BackFits(id)' /\ AgainFits(id)'
  BY <1>4, <1>5, <1>7 DEF OutFits, BackFits, AgainFits
<1>9. WatchedTold(id)' /\ LackingTold(id)'
  BY <1>2, <1>6 DEF WatchedTold, LackingTold
<1> QED BY <1>8, <1>9 DEF ToldFits

\* The engine is opened for the first time: it lacks all fences, and the adapter is told.
LEMMA ReopenTold ==
    ASSUME Types, RestartsFit, Phases, Reopen, used.crashes <= 1, NEW id \in Ids, ToldFits(id)
    PROVE  ToldFits(id)'
<1> DEFINE a == [type |-> "engineUp"]
<1>1. /\ ~engine.up /\ engine'.up /\ engine'.fences = engine.fences /\ (\A h \in HwIds : ~Held(h))
      /\ apiQ # <<>> /\ apiQ' = Tail(apiQ) /\ a \in AdapterMessages /\ adapterQ' = Append(adapterQ, a)
  BY Reopened
<1>2. NoRestore
  BY <1>1 DEF Phases, Early
<1>3. NoFence.id # id
  BY Numbers DEF NoFence
<1>4. \A h \in HwIds : engine'.fences[h].id # id
  BY <1>1, <1>3 DEF Held
<1>5. IsUp(a) /\ a.type # "answer"
  BY DEF IsUp
<1> HIDE DEF a
<1>6. apiQ \in Seq(ApiMessages) /\ adapterQ \in Seq(AdapterMessages) /\ answered' = answered
  BY DEF Types, Reopen
<1>7. Elements(apiQ') \subseteq Elements(apiQ) /\ Elements(adapterQ') = Elements(adapterQ) \cup {a}
  BY <1>1, <1>6, ElementsOfTail, ElementsOfAppend
<1>8. \A m \in Elements(apiQ') : ~RestoreOf(m, id) /\ ~PauseOf(m, id)
  BY <1>2, <1>7 DEF RestoreOf, PauseOf, Names, NoRestore
<1>9. \A m \in Elements(adapterQ') : ~RestoredOf(m, id)
  BY <1>2, <1>5, <1>7 DEF RestoredOf, RestoreOf, NoRestore
<1>10. RestoreLast(apiQ', id) /\ PauseFirst(apiQ', id)
  BY <1>8 DEF RestoreLast, PauseFirst, Elements
<1>11. OutFits(id)' /\ BackFits(id)' /\ AgainFits(id)'
  BY <1>8, <1>9, <1>10 DEF OutFits, BackFits, AgainFits
<1>12. WillAnswer(id, "removed")'
  <2>1. a \in ToldThat(id, "removed")
    BY <1>1, <1>5 DEF ToldThat
  <2> QED BY <1>1, <1>6, <2>1, AnswerAdded
<1>13. WatchedTold(id)' /\ LackingTold(id)'
  BY <1>4, <1>12 DEF WatchedTold, LackingTold
<1> QED BY <1>11, <1>13 DEF ToldFits

\* A call of a client, a breach, or an item that comes back.
LEMMA CallTold ==
    ASSUME Types, Calling \/ ReturnTurn, NEW id \in Ids, ToldFits(id)
    PROVE  ToldFits(id)'
<1>1. engine' = engine /\ answered' = answered
  BY DEF Calling, AddGeofences, OtherCommand, Command, RemoveClient, Breach, ReturnTurn, engineSide
<1>2. apiQ' = apiQ \/ (apiQ # <<>> /\ apiQ' = Tail(apiQ) /\ Head(apiQ).op = "turn")
  BY DEF Calling, AddGeofences, OtherCommand, Command, RemoveClient, Breach, ReturnTurn, engineSide
<1>3. apiQ # <<>> => Tail(apiQ) # apiQ
  BY ApiTaken
<1>4. ~EngineCrash
  BY <1>1 DEF EngineCrash
<1>5. \A m, h : ~ServeEffect(m, h)
  <2> SUFFICES ASSUME NEW m, NEW h, ServeEffect(m, h) PROVE FALSE
    OBVIOUS
  <2>1. m \in Requests /\ apiQ # <<>> /\ Head(apiQ) = m /\ apiQ' = Tail(apiQ)
    BY DEF ServeEffect
  <2> QED BY <1>2, <1>3, <2>1, RequestFields DEF Commands
<1>6. \A m : ~FailEffect(m)
  <2> SUFFICES ASSUME NEW m, FailEffect(m) PROVE FALSE
    OBVIOUS
  <2>1. m \in Requests /\ apiQ # <<>> /\ Head(apiQ) = m /\ apiQ' = Tail(apiQ)
    BY DEF FailEffect
  <2> QED BY <1>2, <1>3, <2>1, RequestFields DEF Commands
<1>7. ~Reopen
  BY <1>2, <1>3 DEF Reopen
<1>8. PICK m \in AdapterMessages : adapterQ' = Append(adapterQ, m) /\ m.type \notin {"answer", "engineUp"}
  <2>1. \/ Quiet /\ adapterQ' = adapterQ
        \/ \E m \in AdapterMessages : adapterQ' = Append(adapterQ, m) /\ ComesFor(m)
    BY MessageComes DEF ApiThread
  <2>2. ~Quiet
    BY <1>4, <1>5, <1>6 DEF Quiet
  <2>3. \A m : ComesFor(m) => m.type \notin {"answer", "engineUp"}
    BY <1>5, <1>6, <1>7 DEF ComesFor
  <2> QED BY <2>1, <2>2, <2>3
<1>9. m \notin Told(id) /\ ~RestoredOf(m, id)
  BY <1>8 DEF Told, IsUp, SaysOf, RestoredOf
<1>10. \/ apiQ' = apiQ
       \/ apiQ # <<>> /\ apiQ' = Tail(apiQ) /\ ~RestoreOf(Head(apiQ), id) /\ ~PauseOf(Head(apiQ), id)
  BY <1>2 DEF RestoreOf, PauseOf, Names, Commands
<1> QED BY <1>1, <1>8, <1>9, <1>10, QuietTold

\* What the engine has, as the answers will have told it, after every step.
LEMMA NextTold ==
    ASSUME Sound, Sound', RestartsFit, Watched, GoneLeft, Phases, strayed \/ NamesFit, strayed \/ AnswersFit,
           KeptAsAnswered, AnswersTold, [Next]_vars
    PROVE  AnswersTold'
<1> SUFFICES ASSUME Undisturbed', NEW id \in Ids, Here(id)' PROVE ToldFits(id)'
  BY DEF AnswersTold
<1>0. Types /\ Lives /\ KnownIds /\ Unique /\ LiveNamed
  BY DEF Sound
<1>1. Undisturbed /\ used'.crashes <= 1 /\ ~strayed' /\ ~strayed /\ used.crashes <= 1
  BY <1>0, DisturbedStays DEF Undisturbed
<1>2. NamesFit /\ AnswersFit /\ NamedAreKept /\ Here(id)
  BY <1>0, <1>1, OwnersGrow DEF NamesFit
<1>3. ToldFits(id)
  BY <1>1, <1>2 DEF AnswersTold
<1>4. CASE UNCHANGED vars
  <2>1. UNCHANGED <<adapterQ, apiQ, engine, answered>>
    BY <1>4 DEF vars, engineSide
  <2> QED BY <1>0, <1>3, <2>1, QuietTold
<1>5. CASE AdapterThread
  <2>1. CASE HandleEngineUp
    <3>1. KeptAs(id)
      BY <1>0, <1>1, <1>2, <2>1, UpTaken DEF KeptAsAnswered, Early
    <3> QED BY <1>0, <1>1, <1>2, <1>3, <2>1, <3>1, RestartTold
  <2>2. CASE ~HandleEngineUp /\ RestoredOf(Head(adapterQ), id)
    <3>1. adapterQ # <<>> /\ Head(adapterQ).type = "answer" /\ Head(adapterQ).to.then.for = "restore"
      BY <1>0, <1>5, <2>2, AdapterTakes DEF RestoredOf, RestoreOf
    <3>2. HandleRestored
      BY <1>5, <3>1 DEF AdapterThread, HandleCommand, HandleTurn, HandleAnswer, HandleRemoveClient, HandleGone,
                        HandleEngineUp, HandleBreach, Take, TakeAnswer
    <3> QED BY <1>0, <1>3, <2>2, <3>2, RestoredTold
  <2>3. CASE ~HandleEngineUp /\ ~RestoredOf(Head(adapterQ), id)
    BY <1>0, <1>2, <1>3, <1>5, <2>3, AdapterTold
  <2> QED BY <2>1, <2>2, <2>3
<1>6. CASE Calling \/ ReturnTurn
  BY <1>0, <1>3, <1>6, CallTold
<1>7. CASE Serve
  <2>1. PICK m, h : ServeEffect(m, h)
    BY <1>0, <1>7, Serves
  <2> QED BY <1>0, <1>1, <1>2, <1>3, <2>1, ServeTold
<1>8. CASE Fail
  <2>1. PICK m : FailEffect(m)
    BY <1>0, <1>8, Fails
  <2> QED BY <1>0, <1>1, <1>3, <2>1, FailTold
<1>9. CASE Reopen
  BY <1>0, <1>1, <1>3, <1>9, ReopenTold
<1>10. CASE EngineCrash
  BY <1>0, <1>1, <1>3, <1>10, CrashTold
<1> QED BY <1>4, <1>5, <1>6, <1>7, <1>8, <1>9, <1>10 DEF Next, ApiThread, Calling

LEMMA InitTold == Init => GoneLeft /\ Phases /\ AnswersFit /\ KeptAsAnswered /\ AnswersTold
<1> SUFFICES ASSUME Init PROVE GoneLeft /\ Phases /\ AnswersFit /\ KeptAsAnswered /\ AnswersTold
  OBVIOUS
<1>1. /\ adapterQ = <<>> /\ apiQ = <<>> /\ Len(adapterQ) = 0 /\ Len(apiQ) = 0
      /\ Elements(adapterQ) = {} /\ Elements(apiQ) = {}
      /\ engine.up /\ engine.fences = [h \in HwIds |-> NoFence] /\ fences = [h \in HwIds |-> NoFence]
      /\ used.crashes = 0 /\ answered = [id \in Ids |-> "removed"]
  BY DEF Init, Elements
<1>2. \A id \in Ids : NoFence.id # id
  BY Numbers DEF NoFence
<1>3. \A id \in Ids, h \in HwIds : engine.fences[h].id # id /\ fences[h].id # id
  BY <1>1, <1>2
<1>4. GoneLeft /\ Phases /\ AnswersFit
  BY <1>1 DEF GoneLeft, Phases, AnswersFit, UpComing, NoRestore
<1>5. KeptAsAnswered
  BY <1>1, <1>3 DEF KeptAsAnswered, KeptAs, IsKept
<1>6. AnswersTold
  <2> SUFFICES ASSUME NEW id \in Ids PROVE ToldFits(id)
    BY DEF AnswersTold
  <2>1. Unsaid(adapterQ, Told(id)) /\ answered[id] = "removed"
    BY <1>1 DEF Unsaid
  <2>2. WillAnswer(id, "removed")
    BY <2>1 DEF WillAnswer, Will
  <2>3. WatchedTold(id) /\ LackingTold(id)
    BY <1>3, <2>2 DEF WatchedTold, LackingTold
  <2>4. OutFits(id) /\ BackFits(id) /\ AgainFits(id)
    BY <1>1 DEF OutFits, BackFits, AgainFits, RestoreLast, PauseFirst
  <2> QED BY <2>3, <2>4 DEF ToldFits
<1> QED BY <1>4, <1>5, <1>6

\* At rest all answers have been handled.
LEMMA RestAnswers ==
    ASSUME Sound, RestartsFit, Watched, strayed \/ NamesFit, AnswersTold, AtRest, Undisturbed
    PROVE  AnswersHold
<1>0. /\ Types /\ KnownIds /\ Unique /\ LiveNamed /\ Mirror /\ WatchedIsKept
      /\ adapterQ = <<>> /\ apiQ = <<>> /\ NamedAreKept
  BY DEF Sound, Own, Watched, AtRest, Undisturbed, NamesFit
<1>1. engine.up /\ Len(adapterQ) = 0 /\ Elements(adapterQ) = {} /\ Elements(apiQ) = {}
  BY <1>0 DEF RestartsFit, Elements
<1>2. \A id, h : WillKeep(adapterQ, Len(adapterQ), fences, h, id) <=> fences[h].id = id
  BY <1>1 DEF WillKeep, Last, Silent
<1>3. \A id, v : WillAnswer(id, v) => answered[id] = v
  BY <1>0, WillNow DEF WillAnswer
<1> SUFFICES ASSUME NEW id \in Known, owner[id] \in clients
             PROVE  /\ answered[id] = "removed" <=> hwIdOf[id] = 0
                    /\ hwIdOf[id] # 0 => engine.fences[hwIdOf[id]].paused = (answered[id] = "paused")
  BY DEF AnswersHold, Known
<1>4. id \in Ids /\ Here(id) /\ Live(id)
  BY <1>0, KnownNumbers DEF Here, Live
<1>5. ToldFits(id) /\ ~PauseOut(id) /\ ~RestoreBack(id) /\ ~RestoreOut(id)
  BY <1>1, <1>4 DEF AnswersTold, PauseOut, RestoreBack, RestoreOut
<1>6. CASE hwIdOf[id] = 0
  <2>1. \A h \in HwIds : fences[h].id # id
    BY <1>0, <1>4, <1>6, KeptIsNamed, Numbers
  <2>2. \A h \in HwIds : engine.fences[h].id # id
    BY <1>0, <1>2, <1>4, <2>1 DEF WatchedIsKept
  <2>3. answered[id] = "removed"
    BY <1>1, <1>3, <1>5, <2>2 DEF ToldFits, LackingTold
  <2> QED BY <1>6, <2>3
<1>7. CASE hwIdOf[id] # 0
  <2>1. hwIdOf[id] \in HwIds
    BY <1>0, <1>4, <1>7 DEF Types
  <2>2. fences[hwIdOf[id]].id = id
    BY <1>0, <1>4, <1>7 DEF NamedAreKept
  <2>3. engine.fences[hwIdOf[id]].id = id
    BY <1>0, <1>1, <1>2, <1>4, <2>1, <2>2 DEF Mirror
  <2>4. answered[id] = State(engine.fences[hwIdOf[id]])
    BY <1>3, <1>5, <2>1, <2>3 DEF ToldFits, WatchedTold
  <2>5. engine.fences[hwIdOf[id]].paused \in BOOLEAN
    <3>1. engine.fences[hwIdOf[id]] \in Fence \cup {NoFence}
      BY <1>0, <2>1 DEF Types
    <3>2. NoFence.paused \in BOOLEAN /\ \A f \in Fence : f.paused \in BOOLEAN
      BY DEF NoFence, Fence
    <3> QED BY <3>1, <3>2
  <2> QED BY <1>7, <2>4, <2>5 DEF State
<1> QED BY <1>6, <1>7

\* At rest the adapter and the engine agree, for every number of clients, fences, refusals and
\* crashes: what mGeofences keeps for the clients that are there is watched, under the same numbers
\* and with the same options, and if no request met the fence of another and one crash or refusals
\* happened, but not both, each fence is watched, paused or gone as its client was last answered
\* (GeofenceAdapter.cpp:212-260, 600-760).
THEOREM GeofenceEngineAgrees == Spec => []EngineAgrees
<1> DEFINE IInv ==
      /\ Sound /\ RestartsFit /\ Watched /\ GoneLeft /\ Phases
      /\ strayed \/ NamesFit
      /\ strayed \/ AnswersFit
      /\ KeptAsAnswered /\ AnswersTold
<1>1. Init => IInv
  BY InitSound, InitWatched, InitNamesFit, InitTold
<1>2. IInv /\ [Next]_vars => IInv'
  <2> SUFFICES ASSUME IInv, [Next]_vars PROVE IInv'
    OBVIOUS
  <2>1. Types /\ Lives
    BY DEF Sound
  <2>2. Sound' /\ RestartsFit' /\ Watched' /\ GoneLeft' /\ Phases'
    BY <2>1, NextSound, NextRestarts, NextWatched, NextGoneLeft, NextPhases
  <2>3. (strayed \/ NamesFit)'
    BY NextNamesFit
  <2>4. (strayed \/ AnswersFit)'
    BY <2>1, NextAnswersFit, StaysStray
  <2>5. KeptAsAnswered'
    BY <2>2, NextKeptAs
  <2>6. AnswersTold'
    BY <2>2, NextTold
  <2> QED BY <2>2, <2>3, <2>4, <2>5, <2>6
<1>3. IInv => EngineAgrees
  <2> SUFFICES ASSUME IInv, AtRest PROVE KeptAreWatched /\ (Undisturbed => AnswersHold)
    BY DEF EngineAgrees
  <2>1. KeptAreWatched
    BY RestWatched DEF KeptWatched
  <2> QED BY <2>1, RestAnswers
<1> HIDE DEF IInv
<1> QED BY <1>1, <1>2, <1>3, PTL DEF Spec
=============================================================================
