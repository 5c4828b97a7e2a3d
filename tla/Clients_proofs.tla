--------------------------- MODULE Clients_proofs ---------------------------
(***************************************************************************)
(* Proofs about what a client of the HAL is promised, in two parts.        *)
(* About LocationAPI: its variables keep their types, no adapter and no    *)
(* message refers to an object that is gone, every adapter forgets a       *)
(* client that was destroyed, the framework's instance lives as long as a  *)
(* client, and at rest live clients have their newest callbacks where they *)
(* want them and know the capabilities of the engine.                      *)
(* About NiSessions, for any number of requests: a raw request has one     *)
(* owner and ends once, a busy session has a thread of its own, the        *)
(* sessions implement NiRequests, and a session ends for a reason.         *)
(***************************************************************************)
EXTENDS LocationAPI, NiSessions, TLAPS, FiniteSetTheorems, SequenceTheorems

(* LocationAPI *)

CapabilityRequests ==
    [type : {"capabilities"}, adapter : Adapters, client : Clients, callbacks : Callbacks]
LocationMessages ==
    [type : {"add"}, adapter : Adapters, client : Clients, callbacks : Callbacks]
    \cup [type : {"remove"}, adapter : Adapters, client : Clients, callbacks : {NoCallbacks}]
    \cup CapabilityRequests \cup [type : {"up"}, adapter : Adapters]

\* The message at k of q is of a type, about a client and to an adapter.
At(q, k, type, a, c) ==
    k \in 1..Len(q) /\ q[k].type = type /\ q[k].adapter = a /\ q[k].client = c

Named(q, type, a, c) == \E k \in 1..Len(q) : At(q, k, type, a, c)

-----------------------------------------------------------------------------
(* Queues                                                                   *)

LEMMA NoCallbacksIsNone == NoCallbacks \notin Callbacks
<1>1. MaxUpdates \in Nat
  BY LocationAPIAssumption
<1> QED BY <1>1 DEF NoCallbacks, Callbacks

\* A sequence joined to a queue leaves what was there.
LEMMA Joined ==
    ASSUME NEW q \in Seq(LocationMessages), NEW s \in Seq(LocationMessages)
    PROVE  /\ q \o s \in Seq(LocationMessages) /\ Len(q \o s) = Len(q) + Len(s)
           /\ \A k \in 1..Len(q) : (q \o s)[k] = q[k]
           /\ \A k \in 1..Len(s) : (q \o s)[Len(q) + k] = s[k]
           /\ \A k \in 1..Len(q \o s) : k > Len(q) => (q \o s)[k] = s[k - Len(q)]
                                                        /\ k - Len(q) \in 1..Len(s)
<1>1. q \o s \in Seq(LocationMessages) /\ Len(q \o s) = Len(q) + Len(s)
  BY ConcatProperties
<1>2. \A k \in 1..Len(q) : (q \o s)[k] = q[k]
  BY ConcatProperties
<1>3. \A k \in 1..(Len(q) + Len(s)) : k > Len(q) => (q \o s)[k] = s[k - Len(q)]
  BY ConcatProperties
<1>4. Len(q) \in Nat /\ Len(s) \in Nat
  OBVIOUS
<1>5. ASSUME NEW k \in 1..Len(s) PROVE (q \o s)[Len(q) + k] = s[k]
  <2>1. Len(q) + k \in 1..(Len(q) + Len(s)) /\ Len(q) + k > Len(q) /\ Len(q) + k - Len(q) = k
    BY <1>4
  <2> QED BY <2>1, <1>3
<1>6. ASSUME NEW k \in 1..Len(q \o s), k > Len(q)
      PROVE  (q \o s)[k] = s[k - Len(q)] /\ k - Len(q) \in 1..Len(s)
  BY <1>1, <1>3, <1>4, <1>6
<1> QED BY <1>1, <1>2, <1>5, <1>6

LEMMA Taken ==
    ASSUME NEW q \in Seq(LocationMessages), q # <<>>
    PROVE  /\ Head(q) \in LocationMessages /\ Head(q) = q[1] /\ 1 \in 1..Len(q)
           /\ Tail(q) \in Seq(LocationMessages) /\ Len(Tail(q)) = Len(q) - 1
           /\ \A i \in 1..(Len(q) - 1) : Tail(q)[i] = q[i + 1]
OBVIOUS

LEMMA JoinedAt ==
    ASSUME NEW q \in Seq(LocationMessages), NEW s \in Seq(LocationMessages), NEW type, NEW a, NEW c,
           NEW k \in Int
    PROVE  At(q \o s, k, type, a, c) <=> \/ At(q, k, type, a, c)
                                          \/ At(s, k - Len(q), type, a, c)
<1>1. Len(q) \in Nat /\ Len(s) \in Nat
  OBVIOUS
<1>2. ASSUME At(q, k, type, a, c) PROVE At(q \o s, k, type, a, c)
  BY <1>1, <1>2, Joined DEF At
<1>3. ASSUME At(s, k - Len(q), type, a, c) PROVE At(q \o s, k, type, a, c)
  <2>1. k - Len(q) \in 1..Len(s)
    BY <1>3 DEF At
  <2>2. k \in 1..Len(q \o s) /\ k > Len(q)
    BY <2>1, <1>1, <1>3, Joined
  <2>3. (q \o s)[k] = s[k - Len(q)]
    BY <2>2, Joined
  <2> QED BY <2>2, <2>3, <1>3 DEF At
<1>4. ASSUME At(q \o s, k, type, a, c), ~(k \in 1..Len(q))
      PROVE  At(s, k - Len(q), type, a, c)
  <2>1. k \in 1..Len(q \o s)
    BY <1>4 DEF At
  <2>2. k \in Int /\ k > Len(q)
    BY <2>1, <1>1, <1>4, Joined
  <2>3. (q \o s)[k] = s[k - Len(q)] /\ k - Len(q) \in 1..Len(s)
    BY <2>1, <2>2, Joined
  <2> QED BY <2>2, <2>3, <1>4 DEF At
<1>5. ASSUME At(q \o s, k, type, a, c), k \in 1..Len(q) PROVE At(q, k, type, a, c)
  BY <1>5, Joined DEF At
<1> QED BY <1>2, <1>3, <1>4, <1>5

LEMMA TakenAt ==
    ASSUME NEW q \in Seq(LocationMessages), q # <<>>, NEW type, NEW a, NEW c, NEW k \in Int
    PROVE  At(Tail(q), k, type, a, c) <=> k > 0 /\ At(q, k + 1, type, a, c)
<1>1. Len(q) \in Nat /\ Len(Tail(q)) = Len(q) - 1
  BY Taken
<1>2. k \in 1..Len(Tail(q)) <=> k > 0 /\ k + 1 \in 1..Len(q)
  BY <1>1
<1>3. k \in 1..Len(Tail(q)) => Tail(q)[k] = q[k + 1]
  BY <1>1, Taken
<1> QED BY <1>2, <1>3 DEF At

LEMMA JoinedNamed ==
    ASSUME NEW q \in Seq(LocationMessages), NEW s \in Seq(LocationMessages), NEW type, NEW a, NEW c
    PROVE  Named(q \o s, type, a, c) <=> Named(q, type, a, c) \/ Named(s, type, a, c)
<1>1. ASSUME Named(q \o s, type, a, c) PROVE Named(q, type, a, c) \/ Named(s, type, a, c)
  <2>1. PICK k \in 1..Len(q \o s) : At(q \o s, k, type, a, c)
    BY <1>1 DEF Named
  <2>2. At(q, k, type, a, c) \/ At(s, k - Len(q), type, a, c)
    BY <2>1, JoinedAt
  <2> QED BY <2>2 DEF Named, At
<1>2. ASSUME Named(q, type, a, c) PROVE Named(q \o s, type, a, c)
  <2>1. PICK k \in 1..Len(q) : At(q, k, type, a, c)
    BY <1>2 DEF Named
  <2>2. k \in Int
    OBVIOUS
  <2>3. At(q \o s, k, type, a, c)
    BY <2>1, <2>2, JoinedAt
  <2> QED BY <2>3 DEF Named, At
<1>3. ASSUME Named(s, type, a, c) PROVE Named(q \o s, type, a, c)
  <2>1. PICK k \in 1..Len(s) : At(s, k, type, a, c)
    BY <1>3 DEF Named
  <2>2. k + Len(q) \in Int /\ (k + Len(q)) - Len(q) = k
    OBVIOUS
  <2>3. At(q \o s, k + Len(q), type, a, c)
    BY <2>1, <2>2, JoinedAt
  <2> QED BY <2>3 DEF Named, At
<1> QED BY <1>1, <1>2, <1>3

\* The message at the head of the queue.
IsHead(q, type, a, c) == At(q, 1, type, a, c)

LEMMA TakenNamed ==
    ASSUME NEW q \in Seq(LocationMessages), q # <<>>, NEW type, NEW a, NEW c
    PROVE  Named(q, type, a, c) <=> IsHead(q, type, a, c) \/ Named(Tail(q), type, a, c)
<1>1. ASSUME Named(q, type, a, c), ~IsHead(q, type, a, c) PROVE Named(Tail(q), type, a, c)
  <2>1. PICK k \in 1..Len(q) : At(q, k, type, a, c)
    BY <1>1 DEF Named
  <2>2. k # 1
    BY <2>1, <1>1 DEF IsHead
  <2>3. k - 1 \in Int /\ k - 1 > 0 /\ (k - 1) + 1 = k
    BY <2>2
  <2>4. At(Tail(q), k - 1, type, a, c)
    BY <2>1, <2>3, TakenAt
  <2> QED BY <2>4 DEF Named, At
<1>2. ASSUME IsHead(q, type, a, c) PROVE Named(q, type, a, c)
  BY <1>2 DEF IsHead, Named, At
<1>3. ASSUME Named(Tail(q), type, a, c) PROVE Named(q, type, a, c)
  <2>1. PICK k \in 1..Len(Tail(q)) : At(Tail(q), k, type, a, c)
    BY <1>3 DEF Named
  <2>2. At(q, k + 1, type, a, c)
    BY <2>1, TakenAt
  <2> QED BY <2>2 DEF Named, At
<1> QED BY <1>1, <1>2, <1>3

-----------------------------------------------------------------------------
(* What a queue promises, when it grows and when its head is taken          *)

\* Adapter a, which may know c now, forgets c: behind every addition in q there is a
\* removal.
Forgets(q, knows, a, c) ==
    /\ knows => Named(q, "remove", a, c)
    /\ \A k \in 1..Len(q) : At(q, k, "add", a, c) =>
           \E j \in 1..Len(q) : k < j /\ At(q, j, "remove", a, c)

\* c is removed from a once at most.
Once(q, a, c) ==
    \A i, j \in 1..Len(q) : At(q, i, "remove", a, c) /\ At(q, j, "remove", a, c) => i = j

\* Whatever q adds, in the end a has the callbacks cbs of c.
Hears(q, before, cbs, a, c) ==
    \/ /\ before = cbs
       /\ \A j \in 1..Len(q) : At(q, j, "add", a, c) => q[j].callbacks = cbs
    \/ \E k \in 1..Len(q) :
           /\ At(q, k, "add", a, c) /\ q[k].callbacks = cbs
           /\ \A j \in 1..Len(q) : k < j /\ At(q, j, "add", a, c) => q[j].callbacks = cbs

\* A request for the capabilities reaches a when it knows c.
Asks(q, knows, a, c) ==
    \E k \in 1..Len(q) :
        /\ At(q, k, "capabilities", a, c)
        /\ knows \/ \E j \in 1..Len(q) : j < k /\ At(q, j, "add", a, c)

LEMMA JoinedForgets ==
    ASSUME NEW q \in Seq(LocationMessages), NEW s \in Seq(LocationMessages), NEW knows \in BOOLEAN,
           NEW a, NEW c, ~Named(s, "add", a, c),
           Forgets(q, knows, a, c) \/ Named(s, "remove", a, c)
    PROVE  Forgets(q \o s, knows, a, c)
<1>1. CASE Named(s, "remove", a, c)
  <2>1. PICK n \in 1..Len(s) : At(s, n, "remove", a, c)
    BY <1>1 DEF Named
  <2>2. Len(q) + n \in Int /\ (Len(q) + n) - Len(q) = n /\ Len(q) \in Nat
    OBVIOUS
  <2>3. At(q \o s, Len(q) + n, "remove", a, c)
    BY <2>1, <2>2, JoinedAt
  <2>4. Len(q) + n \in 1..Len(q \o s)
    BY <2>3 DEF At
  <2>5. ASSUME NEW k \in 1..Len(q \o s), At(q \o s, k, "add", a, c)
        PROVE  k < Len(q) + n
    <3>1. ~At(s, k - Len(q), "add", a, c)
      BY DEF Named, At
    <3>2. At(q, k, "add", a, c)
      BY <2>5, <3>1, JoinedAt
    <3> QED BY <3>2, <2>2 DEF At
  <2> QED BY <2>3, <2>4, <2>5 DEF Forgets, Named
<1>2. CASE Forgets(q, knows, a, c)
  <2>1. knows => Named(q \o s, "remove", a, c)
    BY <1>2, JoinedNamed DEF Forgets
  <2>2. ASSUME NEW k \in 1..Len(q \o s), At(q \o s, k, "add", a, c)
        PROVE  \E j \in 1..Len(q \o s) : k < j /\ At(q \o s, j, "remove", a, c)
    <3>1. ~At(s, k - Len(q), "add", a, c)
      BY DEF Named, At
    <3>2. At(q, k, "add", a, c) /\ k \in 1..Len(q)
      BY <2>2, <3>1, JoinedAt DEF At
    <3>3. PICK j \in 1..Len(q) : k < j /\ At(q, j, "remove", a, c)
      BY <3>2, <1>2 DEF Forgets
    <3>4. j \in Int
      OBVIOUS
    <3>5. At(q \o s, j, "remove", a, c)
      BY <3>3, <3>4, JoinedAt
    <3>6. j \in 1..Len(q \o s)
      BY <3>5 DEF At
    <3> QED BY <3>3, <3>5, <3>6
  <2> QED BY <2>1, <2>2 DEF Forgets
<1> QED BY <1>1, <1>2

LEMMA TakenForgets ==
    ASSUME NEW q \in Seq(LocationMessages), q # <<>>, NEW knows \in BOOLEAN, NEW a, NEW c,
           Forgets(q, knows, a, c)
    PROVE  /\ ~IsHead(q, "remove", a, c) => Forgets(Tail(q), knows, a, c)
           /\ IsHead(q, "add", a, c) => Forgets(Tail(q), TRUE, a, c)
           /\ Forgets(Tail(q), FALSE, a, c)
<1> DEFINE t == Tail(q)
<1>1. ASSUME NEW k \in 1..Len(t), At(t, k, "add", a, c)
      PROVE  \E j \in 1..Len(t) : k < j /\ At(t, j, "remove", a, c)
  <2>1. k \in Int /\ k > 0
    OBVIOUS
  <2>2. At(q, k + 1, "add", a, c) /\ k + 1 \in 1..Len(q)
    BY <1>1, <2>1, TakenAt DEF At
  <2>3. PICK j \in 1..Len(q) : k + 1 < j /\ At(q, j, "remove", a, c)
    BY <2>2 DEF Forgets
  <2>4. j - 1 \in Int /\ j - 1 > 0 /\ (j - 1) + 1 = j /\ k < j - 1
    BY <2>1, <2>3
  <2>5. At(t, j - 1, "remove", a, c)
    BY <2>3, <2>4, TakenAt
  <2> QED BY <2>4, <2>5 DEF At
<1>2. ASSUME knows, ~IsHead(q, "remove", a, c) PROVE Named(t, "remove", a, c)
  BY <1>2, TakenNamed DEF Forgets
<1>3. ASSUME IsHead(q, "add", a, c) PROVE Named(t, "remove", a, c)
  <2>1. 1 \in 1..Len(q) /\ At(q, 1, "add", a, c)
    BY <1>3, Taken DEF IsHead
  <2>2. PICK j \in 1..Len(q) : 1 < j /\ At(q, j, "remove", a, c)
    BY <2>1 DEF Forgets
  <2>3. j - 1 \in Int /\ j - 1 > 0 /\ (j - 1) + 1 = j
    BY <2>2
  <2>4. At(t, j - 1, "remove", a, c)
    BY <2>2, <2>3, TakenAt
  <2> QED BY <2>4 DEF At, Named
<1> QED BY <1>1, <1>2, <1>3 DEF Forgets

LEMMA JoinedOnce ==
    ASSUME NEW q \in Seq(LocationMessages), NEW s \in Seq(LocationMessages), NEW a, NEW c,
           \/ ~Named(s, "remove", a, c) /\ Once(q, a, c)
           \/ ~Named(q, "remove", a, c) /\ Once(s, a, c)
    PROVE  Once(q \o s, a, c)
<1> SUFFICES ASSUME NEW i \in 1..Len(q \o s), NEW j \in 1..Len(q \o s),
                    At(q \o s, i, "remove", a, c), At(q \o s, j, "remove", a, c)
             PROVE  i = j
  BY DEF Once
<1>1. At(q, i, "remove", a, c) \/ At(s, i - Len(q), "remove", a, c)
  BY JoinedAt
<1>2. At(q, j, "remove", a, c) \/ At(s, j - Len(q), "remove", a, c)
  BY JoinedAt
<1>3. CASE ~Named(s, "remove", a, c) /\ Once(q, a, c)
  <2>1. At(q, i, "remove", a, c) /\ At(q, j, "remove", a, c)
    BY <1>1, <1>2, <1>3 DEF Named, At
  <2> QED BY <2>1, <1>3 DEF Once, At
<1>4. CASE ~Named(q, "remove", a, c) /\ Once(s, a, c)
  <2>1. At(s, i - Len(q), "remove", a, c) /\ At(s, j - Len(q), "remove", a, c)
    BY <1>1, <1>2, <1>4 DEF Named, At
  <2>2. i - Len(q) = j - Len(q)
    BY <2>1, <1>4 DEF Once, At
  <2>3. Len(q) \in Nat
    OBVIOUS
  <2> QED BY <2>2, <2>3
<1> QED BY <1>3, <1>4

LEMMA TakenOnce ==
    ASSUME NEW q \in Seq(LocationMessages), q # <<>>, NEW a, NEW c, Once(q, a, c)
    PROVE  /\ Once(Tail(q), a, c)
           /\ IsHead(q, "remove", a, c) => ~Named(Tail(q), "remove", a, c)
<1>1. ASSUME NEW k \in 1..Len(Tail(q)), At(Tail(q), k, "remove", a, c)
      PROVE  k + 1 \in 1..Len(q) /\ At(q, k + 1, "remove", a, c) /\ k + 1 # 1
  <2>1. k \in Int /\ k > 0
    OBVIOUS
  <2>2. At(q, k + 1, "remove", a, c)
    BY <1>1, <2>1, TakenAt
  <2> QED BY <2>1, <2>2 DEF At
<1>2. Once(Tail(q), a, c)
  <2> SUFFICES ASSUME NEW i \in 1..Len(Tail(q)), NEW j \in 1..Len(Tail(q)),
                      At(Tail(q), i, "remove", a, c), At(Tail(q), j, "remove", a, c)
               PROVE  i = j
    BY DEF Once
  <2>1. i + 1 = j + 1
    BY <1>1 DEF Once
  <2> QED BY <2>1
<1>3. ASSUME IsHead(q, "remove", a, c) PROVE ~Named(Tail(q), "remove", a, c)
  <2>1. 1 \in 1..Len(q) /\ At(q, 1, "remove", a, c)
    BY <1>3, Taken DEF IsHead
  <2> QED BY <1>1, <2>1 DEF Once, Named
<1> QED BY <1>2, <1>3

LEMMA JoinedHears ==
    ASSUME NEW q \in Seq(LocationMessages), NEW s \in Seq(LocationMessages), NEW before, NEW cbs, NEW a, NEW c,
           Hears(q, before, cbs, a, c), ~Named(s, "add", a, c)
    PROVE  Hears(q \o s, before, cbs, a, c)
<1>1. ASSUME NEW j \in 1..Len(q \o s), At(q \o s, j, "add", a, c)
      PROVE  j \in 1..Len(q) /\ At(q, j, "add", a, c) /\ (q \o s)[j] = q[j]
  <2>1. ~At(s, j - Len(q), "add", a, c)
    BY DEF Named, At
  <2>2. At(q, j, "add", a, c)
    BY <1>1, <2>1, JoinedAt
  <2> QED BY <2>2, Joined DEF At
<1>2. CASE /\ before = cbs
           /\ \A j \in 1..Len(q) : At(q, j, "add", a, c) => q[j].callbacks = cbs
  BY <1>1, <1>2 DEF Hears
<1>3. ASSUME NEW k \in 1..Len(q), At(q, k, "add", a, c), q[k].callbacks = cbs,
             \A j \in 1..Len(q) : k < j /\ At(q, j, "add", a, c) => q[j].callbacks = cbs
      PROVE  Hears(q \o s, before, cbs, a, c)
  <2>1. k \in Int
    OBVIOUS
  <2>2. At(q \o s, k, "add", a, c) /\ (q \o s)[k] = q[k]
    BY <1>3, <2>1, JoinedAt, Joined
  <2>3. k \in 1..Len(q \o s)
    BY <2>2 DEF At
  <2>4. \A j \in 1..Len(q \o s) : k < j /\ At(q \o s, j, "add", a, c) =>
            (q \o s)[j].callbacks = cbs
    BY <1>1, <1>3
  <2> QED BY <1>3, <2>2, <2>3, <2>4 DEF Hears
<1> QED BY <1>2, <1>3 DEF Hears

\* What was told last counts.
LEMMA ToldHears ==
    ASSUME NEW q \in Seq(LocationMessages), NEW s \in Seq(LocationMessages), NEW before, NEW cbs, NEW a, NEW c,
           Named(s, "add", a, c),
           \A j \in 1..Len(s) : At(s, j, "add", a, c) => s[j].callbacks = cbs
    PROVE  Hears(q \o s, before, cbs, a, c)
<1>1. PICK n \in 1..Len(s) : At(s, n, "add", a, c)
  BY DEF Named
<1>2. Len(q) + n \in Int /\ (Len(q) + n) - Len(q) = n /\ Len(q) \in Nat /\ Len(q) + n > Len(q)
  OBVIOUS
<1>3. At(q \o s, Len(q) + n, "add", a, c)
  BY <1>1, <1>2, JoinedAt
<1>4. Len(q) + n \in 1..Len(q \o s)
  BY <1>3 DEF At
<1>5. (q \o s)[Len(q) + n].callbacks = cbs
  BY <1>1, Joined
<1>6. ASSUME NEW j \in 1..Len(q \o s), Len(q) + n < j, At(q \o s, j, "add", a, c)
      PROVE  (q \o s)[j].callbacks = cbs
  <2>1. j > Len(q)
    BY <1>2, <1>6
  <2>2. ~At(q, j, "add", a, c)
    BY <2>1, <1>2 DEF At
  <2>3. At(s, j - Len(q), "add", a, c)
    BY <1>6, <2>2, JoinedAt
  <2>4. (q \o s)[j] = s[j - Len(q)] /\ j - Len(q) \in 1..Len(s)
    BY <2>1, Joined
  <2> QED BY <2>3, <2>4
<1> QED BY <1>3, <1>4, <1>5, <1>6 DEF Hears

LEMMA TakenHears ==
    ASSUME NEW q \in Seq(LocationMessages), q # <<>>, NEW before, NEW cbs, NEW a, NEW c,
           Hears(q, before, cbs, a, c)
    PROVE  /\ ~IsHead(q, "add", a, c) => Hears(Tail(q), before, cbs, a, c)
           /\ IsHead(q, "add", a, c) => Hears(Tail(q), Head(q).callbacks, cbs, a, c)
<1>1. ASSUME NEW j \in 1..Len(Tail(q)), At(Tail(q), j, "add", a, c)
      PROVE  /\ j + 1 \in 1..Len(q) /\ At(q, j + 1, "add", a, c)
             /\ Tail(q)[j] = q[j + 1]
  <2>1. j \in Int /\ j > 0
    OBVIOUS
  <2>2. At(q, j + 1, "add", a, c)
    BY <1>1, <2>1, TakenAt
  <2>3. Tail(q)[j] = q[j + 1]
    BY Taken
  <2> QED BY <2>2, <2>3 DEF At
<1>2. CASE /\ before = cbs
           /\ \A j \in 1..Len(q) : At(q, j, "add", a, c) => q[j].callbacks = cbs
  <2>1. \A j \in 1..Len(Tail(q)) : At(Tail(q), j, "add", a, c) => Tail(q)[j].callbacks = cbs
    BY <1>1, <1>2
  <2>2. IsHead(q, "add", a, c) => Head(q).callbacks = cbs
    BY <1>2, Taken DEF IsHead
  <2> QED BY <1>2, <2>1, <2>2 DEF Hears
<1>3. ASSUME NEW k \in 1..Len(q), At(q, k, "add", a, c), q[k].callbacks = cbs,
             \A j \in 1..Len(q) : k < j /\ At(q, j, "add", a, c) => q[j].callbacks = cbs
      PROVE  /\ ~IsHead(q, "add", a, c) => Hears(Tail(q), before, cbs, a, c)
             /\ IsHead(q, "add", a, c) => Hears(Tail(q), Head(q).callbacks, cbs, a, c)
  <2>1. CASE k = 1
    <3>1. \A j \in 1..Len(Tail(q)) : At(Tail(q), j, "add", a, c) => Tail(q)[j].callbacks = cbs
      <4> SUFFICES ASSUME NEW j \in 1..Len(Tail(q)), At(Tail(q), j, "add", a, c)
                   PROVE  Tail(q)[j].callbacks = cbs
        OBVIOUS
      <4>1. k < j + 1
        BY <2>1
      <4> QED BY <4>1, <1>1, <1>3
    <3>2. IsHead(q, "add", a, c) /\ Head(q).callbacks = cbs
      BY <1>3, <2>1, Taken DEF IsHead
    <3> QED BY <3>1, <3>2 DEF Hears
  <2>2. CASE k # 1
    <3>1. k - 1 \in Int /\ k - 1 > 0 /\ (k - 1) + 1 = k
      BY <2>2
    <3>2. At(Tail(q), k - 1, "add", a, c)
      BY <3>1, <1>3, TakenAt
    <3>3. k - 1 \in 1..Len(Tail(q)) /\ Tail(q)[k - 1].callbacks = cbs
      BY <3>2, <1>1, <1>3, <3>1 DEF At
    <3>4. \A j \in 1..Len(Tail(q)) : k - 1 < j /\ At(Tail(q), j, "add", a, c) =>
              Tail(q)[j].callbacks = cbs
      <4> SUFFICES ASSUME NEW j \in 1..Len(Tail(q)), k - 1 < j, At(Tail(q), j, "add", a, c)
                   PROVE  Tail(q)[j].callbacks = cbs
        OBVIOUS
      <4>1. k < j + 1
        BY <3>1
      <4> QED BY <4>1, <1>1, <1>3
    <3> QED BY <3>2, <3>3, <3>4 DEF Hears
  <2> QED BY <2>1, <2>2
<1> QED BY <1>2, <1>3 DEF Hears

LEMMA JoinedAsks ==
    ASSUME NEW q \in Seq(LocationMessages), NEW s \in Seq(LocationMessages), NEW knows \in BOOLEAN,
           NEW a, NEW c, Asks(q, knows, a, c)
    PROVE  Asks(q \o s, knows, a, c)
<1>1. PICK k \in 1..Len(q) : /\ At(q, k, "capabilities", a, c)
                             /\ knows \/ \E j \in 1..Len(q) : j < k /\ At(q, j, "add", a, c)
  BY DEF Asks
<1>2. ASSUME NEW i \in 1..Len(q), NEW type, At(q, i, type, a, c)
      PROVE  i \in 1..Len(q \o s) /\ At(q \o s, i, type, a, c)
  <2>1. i \in Int
    OBVIOUS
  <2>2. At(q \o s, i, type, a, c)
    BY <1>2, <2>1, JoinedAt
  <2> QED BY <2>2 DEF At
<1>3. k \in 1..Len(q \o s) /\ At(q \o s, k, "capabilities", a, c)
  BY <1>1, <1>2
<1>4. knows \/ \E j \in 1..Len(q \o s) : j < k /\ At(q \o s, j, "add", a, c)
  BY <1>1, <1>2
<1> QED BY <1>3, <1>4 DEF Asks

LEMMA TakenAsks ==
    ASSUME NEW q \in Seq(LocationMessages), q # <<>>, NEW knows \in BOOLEAN, NEW a, NEW c,
           Asks(q, knows, a, c)
    PROVE  \/ IsHead(q, "capabilities", a, c) /\ knows
           \/ Asks(Tail(q), knows, a, c)
           \/ IsHead(q, "add", a, c) /\ Asks(Tail(q), TRUE, a, c)
<1>1. PICK k \in 1..Len(q) : /\ At(q, k, "capabilities", a, c)
                             /\ knows \/ \E j \in 1..Len(q) : j < k /\ At(q, j, "add", a, c)
  BY DEF Asks
<1>2. CASE k = 1
  <2>1. ~\E j \in 1..Len(q) : j < k
    BY <1>2
  <2>2. knows
    BY <1>1, <2>1
  <2>3. IsHead(q, "capabilities", a, c)
    BY <1>1, <1>2 DEF IsHead
  <2> QED BY <2>2, <2>3
<1>3. CASE k # 1
  <2>1. k - 1 \in Int /\ k - 1 > 0 /\ (k - 1) + 1 = k
    BY <1>3
  <2>2. At(Tail(q), k - 1, "capabilities", a, c) /\ k - 1 \in 1..Len(Tail(q))
    BY <2>1, <1>1, TakenAt DEF At
  <2>3. CASE knows
    BY <2>2, <2>3 DEF Asks
  <2>4. ASSUME NEW j \in 1..Len(q), j < k, At(q, j, "add", a, c), j # 1
        PROVE  Asks(Tail(q), knows, a, c)
    <3>1. j - 1 \in Int /\ j - 1 > 0 /\ (j - 1) + 1 = j /\ j - 1 < k - 1
      BY <2>4
    <3>2. At(Tail(q), j - 1, "add", a, c) /\ j - 1 \in 1..Len(Tail(q))
      BY <3>1, <2>4, TakenAt DEF At
    <3> QED BY <2>2, <3>1, <3>2 DEF Asks
  <2>5. ASSUME At(q, 1, "add", a, c)
        PROVE  IsHead(q, "add", a, c) /\ Asks(Tail(q), TRUE, a, c)
    BY <2>2, <2>5 DEF Asks, IsHead
  <2> QED BY <1>1, <2>3, <2>4, <2>5
<1> QED BY <1>2, <1>3

-----------------------------------------------------------------------------
(* The messages of a call                                                   *)

\* A set of adapters can be put in order, and each of them is in it once.
LEMMA InOrderIsThere ==
    ASSUME NEW some \in SUBSET Adapters
    PROVE  /\ IsFiniteSet(some) /\ Cardinality(some) \in Nat
           /\ InOrder(some) \in [1..Cardinality(some) -> some]
           /\ \A i, j \in 1..Cardinality(some) : i # j => InOrder(some)[i] # InOrder(some)[j]
           /\ \A a \in some : \E i \in 1..Cardinality(some) : InOrder(some)[i] = a
<1> DEFINE n == Cardinality(some)
           Fine(s) == /\ \A i, j \in DOMAIN s : i # j => s[i] # s[j]
                      /\ \A i \in DOMAIN s : s[i] = "gnss" => i = 1
<1>1. IsFiniteSet(some)
  BY LocationAPIAssumption, FS_Subset
<1>2. n \in Nat /\ ExistsBijection(1..n, some)
  BY <1>1, FS_CardinalityType
<1>3. PICK f : f \in Bijection(1..n, some)
  BY <1>2 DEF ExistsBijection
<1>4. /\ f \in [1..n -> some]
      /\ \A i, j \in 1..n : f[i] = f[j] => i = j
      /\ \A a \in some : \E i \in 1..n : f[i] = a
  BY <1>3 DEF Bijection, Injection, IsInjective, Surjection
<1>5. \E s \in [1..n -> some] : Fine(s)
  <2>1. CASE "gnss" \in some
    <3>1. PICK p \in 1..n : f[p] = "gnss"
      BY <2>1, <1>4
    <3>2. 1 \in 1..n
      BY <1>2, <3>1
    <3> DEFINE s == [i \in 1..n |-> IF i = 1 THEN f[p] ELSE IF i = p THEN f[1] ELSE f[i]]
    <3>3. s \in [1..n -> some]
      BY <1>4, <3>1, <3>2
    <3>4. \A i, j \in 1..n : i # j => s[i] # s[j]
      BY <1>4, <3>1, <3>2
    <3>5. \A i \in 1..n : s[i] = "gnss" => i = 1
      BY <1>4, <3>1, <3>2
    <3>6. DOMAIN s = 1..n
      OBVIOUS
    <3> HIDE DEF s
    <3>7. Fine(s)
      BY <3>4, <3>5, <3>6
    <3> QED BY <3>3, <3>7
  <2>2. CASE "gnss" \notin some
    <3>1. Fine(f)
      BY <2>2, <1>4
    <3> QED BY <3>1, <1>4
  <2> QED BY <2>1, <2>2
<1>6. InOrder(some) \in [1..n -> some] /\ Fine(InOrder(some))
  <2> DEFINE Q(s) == s \in [1..n -> some] /\ Fine(s)
  <2>1. \E s : Q(s)
    BY <1>5
  <2>2. Q(CHOOSE s : Q(s))
    BY <2>1
  <2>3. InOrder(some) = CHOOSE s \in [1..n -> some] : Fine(s)
    BY DEF InOrder
  <2> QED BY <1>5, <2>3
<1>7. \A i, j \in 1..n : i # j => InOrder(some)[i] # InOrder(some)[j]
  BY <1>6
<1>8. InOrder(some) \in Injection(1..n, some)
  BY <1>6, <1>7 DEF Injection, IsInjective
<1>9. Cardinality(1..n) = n
  BY <1>2, FS_Interval
<1>10. InOrder(some) \in Surjection(1..n, some)
  BY <1>1, <1>8, <1>9, FS_Injection
<1>11. \A a \in some : \E i \in 1..n : InOrder(some)[i] = a
  BY <1>10 DEF Surjection
<1> QED BY <1>1, <1>2, <1>6, <1>7, <1>11

\* The messages s are of some types, tell some adapters, and are about c and its callbacks.
Tells(s, types, some, c, cbs) ==
    /\ s \in Seq(LocationMessages)
    /\ \A k \in 1..Len(s) : /\ s[k].type \in types /\ s[k].client = c
                            /\ s[k].callbacks = cbs /\ s[k].adapter \in some

\* Each of the adapters gets one message, of the type and with the callbacks given.
LEMMA EachIsTold ==
    ASSUME NEW some \in SUBSET Adapters, NEW type \in {"add", "remove"}, NEW c \in Clients, NEW cbs,
           type = "add" => cbs \in Callbacks, type = "remove" => cbs = NoCallbacks
    PROVE  /\ Tells(ToEach(some, type, c, cbs), {type}, some, c, cbs)
           /\ \A a \in some : Named(ToEach(some, type, c, cbs), type, a, c)
           /\ \A a : Once(ToEach(some, type, c, cbs), a, c)
<1> PICK s : s = ToEach(some, type, c, cbs)
  OBVIOUS
<1> SUFFICES /\ Tells(s, {type}, some, c, cbs)
             /\ \A a \in some : Named(s, type, a, c)
             /\ \A a : Once(s, a, c)
  OBVIOUS
<1> DEFINE n == Cardinality(some)
<1>1. /\ n \in Nat /\ InOrder(some) \in [1..n -> some]
      /\ \A i, j \in 1..n : i # j => InOrder(some)[i] # InOrder(some)[j]
      /\ \A a \in some : \E i \in 1..n : InOrder(some)[i] = a
  BY InOrderIsThere
<1>2. s = [i \in 1..n |-> [type |-> type, adapter |-> InOrder(some)[i], client |-> c,
                           callbacks |-> cbs]]
  BY DEF ToEach, Message
<1>3. \A i \in 1..n : s[i] \in LocationMessages
  BY <1>1, <1>2 DEF LocationMessages
<1>4. s \in Seq(LocationMessages) /\ Len(s) = n
  BY <1>1, <1>2, <1>3
<1>5. \A k \in 1..n : /\ s[k].type = type /\ s[k].client = c /\ s[k].callbacks = cbs
                      /\ s[k].adapter = InOrder(some)[k] /\ s[k].adapter \in some
  BY <1>1, <1>2
<1>6. ASSUME NEW a \in some PROVE Named(s, type, a, c)
  BY <1>1, <1>4, <1>5 DEF Named, At
<1>7. ASSUME NEW a PROVE Once(s, a, c)
  <2> SUFFICES ASSUME NEW i \in 1..n, NEW j \in 1..n, s[i].adapter = a, s[j].adapter = a
               PROVE  i = j
    BY <1>4 DEF Once, At
  <2> QED BY <1>1, <1>5
<1> QED BY <1>4, <1>5, <1>6, <1>7 DEF Tells

LEMMA EachAdds ==
    ASSUME NEW some \in SUBSET Adapters, NEW c \in Clients, NEW cbs \in Callbacks
    PROVE  /\ Tells(ToEach(some, "add", c, cbs), {"add"}, some, c, cbs)
           /\ \A a \in some : Named(ToEach(some, "add", c, cbs), "add", a, c)
<1>1. "add" \in {"add", "remove"} /\ "add" # "remove"
  OBVIOUS
<1> QED BY <1>1, EachIsTold

LEMMA EachRemoves ==
    ASSUME NEW some \in SUBSET Adapters, NEW c \in Clients
    PROVE  /\ Tells(ToEach(some, "remove", c, NoCallbacks), {"remove"}, some, c, NoCallbacks)
           /\ \A a \in some : Named(ToEach(some, "remove", c, NoCallbacks), "remove", a, c)
           /\ \A a : Once(ToEach(some, "remove", c, NoCallbacks), a, c)
<1>1. PICK type \in {"add", "remove"} : type = "remove"
  OBVIOUS
<1>2. (type = "add" => NoCallbacks \in Callbacks) /\ (type = "remove" => NoCallbacks = NoCallbacks)
  BY <1>1
<1>3. /\ Tells(ToEach(some, type, c, NoCallbacks), {type}, some, c, NoCallbacks)
      /\ \A a \in some : Named(ToEach(some, type, c, NoCallbacks), type, a, c)
      /\ \A a : Once(ToEach(some, type, c, NoCallbacks), a, c)
  BY <1>2, EachIsTold
<1> QED BY <1>1, <1>3

\* A new client is added everywhere, and the first adapter is asked then.
LEMMA AllAreTold ==
    ASSUME NEW some \in SUBSET Adapters, NEW c \in Clients, NEW cbs \in Callbacks
    PROVE  /\ Tells(Added(some, c, cbs), {"add", "capabilities"}, some, c, cbs)
           /\ \A a \in some : Named(Added(some, c, cbs), "add", a, c)
           /\ some # {} => \E a \in some : Asks(Added(some, c, cbs), FALSE, a, c)
<1> PICK s : s = Added(some, c, cbs)
  OBVIOUS
<1> SUFFICES /\ Tells(s, {"add", "capabilities"}, some, c, cbs)
             /\ \A a \in some : Named(s, "add", a, c)
             /\ some # {} => \E a \in some : Asks(s, FALSE, a, c)
  OBVIOUS
<1> PICK adds : adds = ToEach(some, "add", c, cbs)
  OBVIOUS
<1>1. /\ adds \in Seq(LocationMessages) 
      /\ \A k \in 1..Len(adds) : /\ adds[k].type = "add" /\ adds[k].client = c
                                 /\ adds[k].callbacks = cbs /\ adds[k].adapter \in some
      /\ \A a \in some : Named(adds, "add", a, c)
  <2>1. /\ Tells(adds, {"add"}, some, c, cbs)
        /\ \A a \in some : Named(adds, "add", a, c)
    BY EachAdds
  <2> QED BY <2>1 DEF Tells
<1>2. CASE some = {}
  <2>1. s = <<>>
    BY <1>2 DEF Added
  <2>2. s \in Seq(LocationMessages) /\ Len(s) = 0
    BY <2>1
  <2> QED BY <1>2, <2>2 DEF Tells
<1>3. CASE some # {}
  <2>1. PICK first \in some : Named(adds, "add", first, c)
    BY <1>1, <1>3
  <2>2. adds # <<>> /\ 1 \in 1..Len(adds)
    BY <1>1, <2>1 DEF Named
  <2>3. PICK m : m = [type |-> "capabilities", adapter |-> adds[1].adapter, client |-> c,
                      callbacks |-> cbs]
    OBVIOUS
  <2>4. m \in LocationMessages /\ m.type = "capabilities" /\ m.client = c /\ m.callbacks = cbs
        /\ m.adapter = adds[1].adapter
    BY <2>2, <2>3, <1>1 DEF LocationMessages, CapabilityRequests
  <2>5. s = <<Head(adds), m>> \o Tail(adds) /\ Head(adds) = adds[1]
    BY <1>3, <2>2, <2>3, <1>1 DEF Added, Message
  <2>6. PICK two : two = <<Head(adds), m>>
    OBVIOUS
  <2>7. two \in Seq(LocationMessages) /\ Len(two) = 2 /\ two[1] = adds[1] /\ two[2] = m
    BY <2>2, <2>4, <2>5, <2>6, <1>1
  <2>8. /\ Tail(adds) \in Seq(LocationMessages) /\ Len(Tail(adds)) = Len(adds) - 1
        /\ \A i \in 1..(Len(adds) - 1) : Tail(adds)[i] = adds[i + 1]
    BY <1>1, <2>2, Taken
  <2>9. s = two \o Tail(adds)
    BY <2>5, <2>6
  <2>10. s \in Seq(LocationMessages)
    BY <2>7, <2>8, <2>9, Joined
  <2>11. ASSUME NEW k \in 1..Len(s)
         PROVE  s[k] = m \/ \E i \in 1..Len(adds) : s[k] = adds[i]
    <3>1. CASE k \in 1..2
      <4>1. s[k] = two[k]
        BY ONLY <2>7, <2>8, <2>9, <3>1, Joined, ZenonT(60)
      <4> QED BY <4>1, <3>1, <2>7, <2>2
    <3>2. CASE ~(k \in 1..2)
      <4>1. k > Len(two)
        BY <2>7, <3>2
      <4>2. s[k] = Tail(adds)[k - Len(two)] /\ k - Len(two) \in 1..Len(Tail(adds))
        <5>1. \A i \in 1..Len(two \o Tail(adds)) : i > Len(two) =>
                  /\ (two \o Tail(adds))[i] = Tail(adds)[i - Len(two)]
                  /\ i - Len(two) \in 1..Len(Tail(adds))
          BY <2>7, <2>8, Joined
        <5> QED BY <5>1, <4>1, <2>9
      <4>3. s[k] = adds[(k - 2) + 1] /\ (k - 2) + 1 \in 1..Len(adds)
        BY <4>2, <2>7, <2>8
      <4> QED BY <4>3
    <3> QED BY <3>1, <3>2
  <2>12. ASSUME NEW a \in some PROVE Named(s, "add", a, c)
    <3>1. PICK i \in 1..Len(adds) : At(adds, i, "add", a, c)
      BY <1>1 DEF Named
    <3>2. CASE i = 1
      <4>1. At(two, 1, "add", a, c)
        BY <3>1, <3>2, <2>7 DEF At
      <4>2. Named(two, "add", a, c)
        BY <4>1 DEF Named, At
      <4>3. Named(two \o Tail(adds), "add", a, c)
        BY <4>2, <2>7, <2>8, JoinedNamed
      <4> QED BY <4>3, <2>9
    <3>3. CASE i # 1
      <4>1. i - 1 \in Int /\ i - 1 > 0 /\ (i - 1) + 1 = i
        BY <3>3
      <4>2. At(Tail(adds), i - 1, "add", a, c)
        BY <4>1, <3>1, <1>1, <2>2, TakenAt
      <4>3. Named(Tail(adds), "add", a, c)
        BY <4>2 DEF Named, At
      <4>4. Named(two \o Tail(adds), "add", a, c)
        BY <4>3, <2>7, <2>8, JoinedNamed
      <4> QED BY <4>4, <2>9
    <3> QED BY <3>2, <3>3
  <2>13. Asks(s, FALSE, adds[1].adapter, c) /\ adds[1].adapter \in some
    <3>1. At(two, 1, "add", adds[1].adapter, c) /\ At(two, 2, "capabilities", adds[1].adapter, c)
      BY <1>1, <2>2, <2>4, <2>7 DEF At
    <3>2. Asks(two, FALSE, adds[1].adapter, c)
      BY <3>1, <2>7 DEF Asks
    <3> QED BY <3>2, <1>1, <2>2, <2>7, <2>8, <2>9, JoinedAsks
  <2>14. \A k \in 1..Len(s) : /\ s[k].type \in {"add", "capabilities"} /\ s[k].client = c
                              /\ s[k].callbacks = cbs /\ s[k].adapter \in some
    BY <1>1, <2>2, <2>4, <2>11
  <2> QED BY <2>10, <2>12, <2>13, <2>14 DEF Tells
<1> QED BY <1>2, <1>3

-----------------------------------------------------------------------------
(* Types                                                                    *)

Living == {c \in Clients : object[c] = "alive"}

\* The framework's instance and its references count the clients that live.
Counted ==
    /\ refCount = Cardinality(Living)
    /\ framework <=> Living # {}

TypesFit ==
    /\ TypeOK
    /\ Counted
    /\ msgs \in Seq(LocationMessages)
    /\ pendingMsgs \in [Adapters -> Seq(CapabilityRequests)]
    /\ used \in [updates : 0..MaxUpdates, ups : SUBSET Adapters]
    /\ \A k \in 1..Len(msgs) : msgs[k].type = "up" => msgs[k].adapter \in loaded

LEMMA InitTypes == Init => TypesFit
<1> SUFFICES ASSUME Init PROVE TypesFit
  OBVIOUS
<1>1. IsFiniteSet(Clients) /\ MaxUpdates \in Nat
  BY LocationAPIAssumption
<1>2. Cardinality(Clients) \in Nat
  BY <1>1, FS_CardinalityType
<1>3. Living = {}
  BY DEF Living, Init
<1>4. Counted
  BY <1>3, FS_EmptySet DEF Counted, Init
<1>5. /\ object \in [Clients -> {"none", "alive", "destroyed", "deleted"}]
      /\ clientData \in [Clients -> Callbacks \cup {NoCallbacks}]
      /\ waitMask \in [Clients -> SUBSET Adapters]
      /\ known \in [Adapters -> [Clients -> Callbacks \cup {NoCallbacks}]]
  BY DEF Init
<1>6. /\ loaded = {} /\ failed = {} /\ refCount \in 0..Cardinality(Clients)
      /\ reported = {} /\ wantsReport = {} /\ capable = {} /\ told = {}
      /\ control = FALSE /\ framework = FALSE /\ aborted = FALSE
  BY <1>2 DEF Init
<1>7. TypeOK
  BY <1>5, <1>6 DEF TypeOK
<1> QED BY <1>1, <1>4, <1>7 DEF TypesFit, Init

LEMMA CountedIsSmall ==
    ASSUME TypesFit
    PROVE  IsFiniteSet(Living) /\ IsFiniteSet(Living') /\ Cardinality(Clients) \in Nat
           /\ Cardinality(Living') \in 0..Cardinality(Clients)
           /\ Cardinality(Living) \in 0..Cardinality(Clients)
<1>1. IsFiniteSet(Clients) /\ Living \in SUBSET Clients /\ Living' \in SUBSET Clients
  BY LocationAPIAssumption DEF Living
<1>2. /\ IsFiniteSet(Living) /\ Cardinality(Living) <= Cardinality(Clients)
      /\ IsFiniteSet(Living') /\ Cardinality(Living') <= Cardinality(Clients)
  BY <1>1, FS_Subset
<1>3. Cardinality(Living) \in Nat /\ Cardinality(Living') \in Nat /\ Cardinality(Clients) \in Nat
  BY <1>1, <1>2, FS_CardinalityType
<1> QED BY <1>2, <1>3

LEMMA LoadTypes ==
    ASSUME TypesFit, NEW wants \in SUBSET Adapters, Load(wants)
    PROVE  /\ loaded' \subseteq Adapters /\ failed' \subseteq Adapters \ loaded'
           /\ loaded \subseteq loaded' /\ failed \subseteq failed'
           /\ wants \subseteq loaded' \cup failed'
<1>1. loaded \subseteq Adapters /\ failed \subseteq Adapters \ loaded
  BY DEF TypesFit, TypeOK
<1>2. PICK broken \in SUBSET (wants \ (loaded \cup failed)) :
          failed' = failed \cup broken /\ loaded' = loaded \cup (wants \ failed')
  BY DEF Load
<1> QED BY <1>1, <1>2

\* Loading leaves the messages about loaded adapters valid, and those a call adds are none.
LEMMA JoinedUps ==
    ASSUME TypesFit, loaded \subseteq loaded', NEW s \in Seq(LocationMessages), msgs' = msgs \o s,
           \A k \in 1..Len(s) : s[k].type # "up"
    PROVE  /\ msgs' \in Seq(LocationMessages)
           /\ \A k \in 1..Len(msgs') : msgs'[k].type = "up" => msgs'[k].adapter \in loaded'
<1>1. msgs \in Seq(LocationMessages)
  BY DEF TypesFit
<1>2. PICK q : q = msgs \o s
  OBVIOUS
<1>3. /\ q \in Seq(LocationMessages)
      /\ \A k \in 1..Len(msgs) : q[k] = msgs[k]
      /\ \A k \in 1..Len(q) : k > Len(msgs) => q[k] = s[k - Len(msgs)]
                                                /\ k - Len(msgs) \in 1..Len(s)
  BY <1>1, <1>2, Joined
<1>4. ASSUME NEW k \in 1..Len(q), q[k].type = "up" PROVE q[k].adapter \in loaded'
  <2>1. Len(msgs) \in Nat /\ Len(q) \in Nat
    BY <1>1, <1>3
  <2>2. ASSUME k > Len(msgs) PROVE FALSE
    <3>1. q[k] = s[k - Len(msgs)] /\ k - Len(msgs) \in 1..Len(s)
      BY <1>3, <2>2
    <3>2. s[k - Len(msgs)].type # "up"
      BY <3>1
    <3> QED BY <3>1, <3>2, <1>4
  <2>3. k \in 1..Len(msgs)
    BY <2>1, <2>2
  <2> QED BY <1>3, <1>4, <2>3 DEF TypesFit
<1> QED BY <1>2, <1>3, <1>4

LEMMA TakenUps ==
    ASSUME TypesFit, msgs # <<>>
    PROVE  /\ Tail(msgs) \in Seq(LocationMessages)
           /\ \A k \in 1..Len(Tail(msgs)) :
                  Tail(msgs)[k].type = "up" => Tail(msgs)[k].adapter \in loaded
<1>1. msgs \in Seq(LocationMessages)
  BY DEF TypesFit
<1>2. /\ Tail(msgs) \in Seq(LocationMessages) /\ Len(Tail(msgs)) = Len(msgs) - 1
      /\ \A i \in 1..(Len(msgs) - 1) : Tail(msgs)[i] = msgs[i + 1]
  BY <1>1, Taken
<1>3. \A i \in 1..(Len(msgs) - 1) : i + 1 \in 1..Len(msgs)
  BY <1>1
<1> QED BY <1>2, <1>3 DEF TypesFit

\* Whose removal is waited for was destroyed, with a callback.
MasksFit ==
    \A c \in Clients :
        /\ waitMask[c] # {} => object[c] = "destroyed" /\ c \in wantsReport
        /\ c \in wantsReport => object[c] \in {"destroyed", "deleted"}

LEMMA CreateTypes == TypesFit /\ CreateInstance => TypesFit'
<1> SUFFICES ASSUME TypesFit, CreateInstance PROVE TypesFit'
  OBVIOUS
<1> USE DEF TypesFit, TypeOK
<1>1. PICK c \in Clients, wants \in SUBSET Adapters :
          LET cbs == [wants |-> wants, version |-> used.updates]
          IN  /\ object[c] = "none"
              /\ object' = [object EXCEPT ![c] = "alive"]
              /\ refCount' = refCount + 1
              /\ framework' = (framework \/ refCount' = 1)
              /\ Load(wants)
              /\ msgs' = msgs \o Added(wants \cap loaded', c, cbs)
              /\ asked' = IF wants \cap loaded' = {} THEN asked ELSE asked \cup {c}
              /\ clientData' = [clientData EXCEPT ![c] = cbs]
              /\ UNCHANGED <<waitMask, control, wantsReport, reported, aborted,
                             adapterSide, used>>
  BY DEF CreateInstance
<1>2. PICK cbs : cbs = [wants |-> wants, version |-> used.updates]
  OBVIOUS
<1>3. cbs \in Callbacks
  BY <1>2 DEF Callbacks
<1>4. /\ loaded' \subseteq Adapters /\ failed' \subseteq Adapters \ loaded'
      /\ loaded \subseteq loaded'
  BY <1>1, LoadTypes
<1>5. PICK s : s = Added(wants \cap loaded', c, cbs)
  OBVIOUS
<1>6. s \in Seq(LocationMessages) /\ \A k \in 1..Len(s) : s[k].type # "up"
  <2>1. wants \cap loaded' \in SUBSET Adapters
    OBVIOUS
  <2>2. Tells(s, {"add", "capabilities"}, wants \cap loaded', c, cbs)
    BY <1>3, <1>5, <2>1, AllAreTold
  <2> QED BY <2>2 DEF Tells
<1>7. /\ msgs' \in Seq(LocationMessages)
      /\ \A k \in 1..Len(msgs') : msgs'[k].type = "up" => msgs'[k].adapter \in loaded'
  BY <1>1, <1>2, <1>4, <1>5, <1>6, JoinedUps
<1>8. Counted' /\ refCount' \in 0..Cardinality(Clients)
  <2>1. Living' = Living \cup {c} /\ c \notin Living
    BY <1>1 DEF Living
  <2>2. IsFiniteSet(Living) /\ Cardinality(Living') \in 0..Cardinality(Clients)
        /\ Cardinality(Living) \in Nat
    BY CountedIsSmall
  <2>3. Cardinality(Living') = Cardinality(Living) + 1
    BY <2>1, <2>2, FS_AddElement
  <2>4. refCount' = Cardinality(Living')
    BY <1>1, <2>3 DEF Counted
  <2>5. framework'
    <3>1. CASE Living = {}
      <4>1. Cardinality(Living) = 0
        BY <3>1, FS_EmptySet
      <4>2. refCount = Cardinality(Living)
        BY DEF Counted
      <4>3. refCount' = 1
        BY <1>1, <4>1, <4>2
      <4> QED BY <1>1, <4>3
    <3>2. CASE Living # {}
      BY <1>1, <3>2 DEF Counted
    <3> QED BY <3>1, <3>2
  <2>6. framework' <=> Living' # {}
    BY <2>1, <2>5
  <2> QED BY <2>2, <2>4, <2>6 DEF Counted
<1>9. /\ object' \in [Clients -> {"none", "alive", "destroyed", "deleted"}]
      /\ clientData' \in [Clients -> Callbacks \cup {NoCallbacks}]
      /\ capable' \subseteq loaded'
      /\ {control', framework', aborted'} \subseteq BOOLEAN
  <2>1. framework' \in BOOLEAN
    BY <1>1
  <2>2. \A m \in [Clients -> Callbacks \cup {NoCallbacks}] :
            [m EXCEPT ![c] = cbs] \in [Clients -> Callbacks \cup {NoCallbacks}]
    BY <1>3
  <2> QED BY <1>1, <1>2, <1>4, <2>1, <2>2 DEF adapterSide
<1> QED BY <1>1, <1>4, <1>7, <1>8, <1>9 DEF adapterSide

LEMMA UpdateTypes == TypesFit /\ UpdateCallbacks => TypesFit'
<1> SUFFICES ASSUME TypesFit, UpdateCallbacks PROVE TypesFit'
  OBVIOUS
<1>1. PICK c \in Clients, wants \in SUBSET Adapters :
          LET cbs == [wants |-> wants, version |-> used.updates + 1]
          IN  /\ used.updates < MaxUpdates
              /\ used' = [used EXCEPT !.updates = @ + 1]
              /\ Load(wants)
              /\ msgs' = msgs \o ToEach(Updated(c, wants), "add", c, cbs)
              /\ clientData' = [clientData EXCEPT ![c] = cbs]
              /\ UNCHANGED <<object, waitMask, control, refCount, framework, wantsReport,
                             reported, aborted, adapterSide, asked>>
  BY DEF UpdateCallbacks
<1>2. PICK cbs : cbs = [wants |-> wants, version |-> used.updates + 1]
  OBVIOUS
<1>3. MaxUpdates \in Nat /\ used.updates \in 0..MaxUpdates /\ used.updates + 1 \in 0..MaxUpdates
  BY <1>1, LocationAPIAssumption DEF TypesFit
<1>4. cbs \in Callbacks
  BY <1>2, <1>3 DEF Callbacks
<1>5. /\ loaded' \subseteq Adapters /\ failed' \subseteq Adapters \ loaded'
      /\ loaded \subseteq loaded'
  BY <1>1, LoadTypes
<1>6. PICK some \in SUBSET Adapters : some = Updated(c, wants)
  BY <1>5 DEF Updated
<1>7. PICK s : s = ToEach(some, "add", c, cbs)
  OBVIOUS
<1>8. s \in Seq(LocationMessages) /\ \A k \in 1..Len(s) : s[k].type # "up"
  <2>1. Tells(s, {"add"}, some, c, cbs)
    BY <1>4, <1>7, EachAdds
  <2> QED BY <2>1 DEF Tells
<1> USE DEF TypesFit, TypeOK
<1>9. /\ msgs' \in Seq(LocationMessages)
      /\ \A k \in 1..Len(msgs') : msgs'[k].type = "up" => msgs'[k].adapter \in loaded'
  BY <1>1, <1>2, <1>5, <1>6, <1>7, <1>8, JoinedUps
<1>10. Counted'
  BY <1>1 DEF Counted, Living
<1>11. /\ clientData' \in [Clients -> Callbacks \cup {NoCallbacks}]
       /\ used' \in [updates : 0..MaxUpdates, ups : SUBSET Adapters]
       /\ capable' \subseteq loaded'
  <2>1. \A m \in [Clients -> Callbacks \cup {NoCallbacks}] :
            [m EXCEPT ![c] = cbs] \in [Clients -> Callbacks \cup {NoCallbacks}]
    BY <1>4
  <2> QED BY <1>1, <1>2, <1>3, <1>5, <2>1 DEF adapterSide
<1> QED BY <1>1, <1>5, <1>9, <1>10, <1>11 DEF adapterSide

LEMMA DestroyTypes == TypesFit /\ Destroy => TypesFit'
<1> SUFFICES ASSUME TypesFit, Destroy PROVE TypesFit'
  OBVIOUS
<1>1. PICK c \in Clients, withCb \in BOOLEAN :
          /\ object[c] = "alive"
          /\ wantsReport' = IF withCb THEN wantsReport \cup {c} ELSE wantsReport
          /\ IF loaded = {}
             THEN /\ Complete(c, withCb)
                  /\ UNCHANGED waitMask
             ELSE /\ object' = [object EXCEPT ![c] = "destroyed"]
                  /\ waitMask' = [waitMask EXCEPT ![c] = IF withCb THEN Mask(c) ELSE {}]
                  /\ UNCHANGED <<aborted, reported>>
          /\ msgs' = msgs \o ToEach(ToForget(c), "remove", c, NoCallbacks)
          /\ clientData' = [clientData EXCEPT ![c] = NoCallbacks]
          /\ framework' = FrameworkLeft
          /\ refCount' = refCount - 1
          /\ UNCHANGED <<loaded, failed, control, adapterSide, asked, used>>
  BY DEF Destroy
<1>2. PICK s : s = ToEach(ToForget(c), "remove", c, NoCallbacks)
  OBVIOUS
<1>3. ToForget(c) \in SUBSET Adapters /\ Mask(c) \in SUBSET Adapters
  BY DEF ToForget, Mask, TypesFit, TypeOK
<1>4. s \in Seq(LocationMessages) /\ \A k \in 1..Len(s) : s[k].type # "up"
  <2>1. Tells(s, {"remove"}, ToForget(c), c, NoCallbacks)
    BY <1>2, <1>3, EachRemoves
  <2> QED BY <2>1 DEF Tells
<1> USE DEF TypesFit, TypeOK
<1>5. /\ msgs' \in Seq(LocationMessages)
      /\ \A k \in 1..Len(msgs') : msgs'[k].type = "up" => msgs'[k].adapter \in loaded'
  BY <1>1, <1>2, <1>4, JoinedUps
<1>6. /\ object' = [object EXCEPT ![c] = "deleted"] \/ object' = [object EXCEPT ![c] = "destroyed"]
      /\ waitMask' \in [Clients -> SUBSET Adapters]
      /\ aborted' \in BOOLEAN /\ reported' \subseteq wantsReport'
  <2>1. /\ object' = [object EXCEPT ![c] = "deleted"] \/ object' = [object EXCEPT ![c] = "destroyed"]
        /\ aborted' \in BOOLEAN
    BY <1>1 DEF Complete, InvokesCallback
  <2>2. waitMask' = waitMask \/ waitMask' = [waitMask EXCEPT ![c] = IF withCb THEN Mask(c) ELSE {}]
    BY <1>1
  <2>3. waitMask' \in [Clients -> SUBSET Adapters]
    BY <1>3, <2>2
  <2>4. reported' = reported \/ (withCb /\ reported' = reported \cup {c})
    BY <1>1 DEF Complete, InvokesCallback
  <2>5. wantsReport' = IF withCb THEN wantsReport \cup {c} ELSE wantsReport
    BY <1>1
  <2>6. reported' \subseteq wantsReport'
    BY <2>4, <2>5
  <2> QED BY <2>1, <2>3, <2>6
<1>7. Counted' /\ refCount' \in 0..Cardinality(Clients) /\ framework' \in BOOLEAN
  <2>1. Living' = Living \ {c} /\ c \in Living
    BY <1>1, <1>6 DEF Living
  <2>2. IsFiniteSet(Living) /\ IsFiniteSet(Living') /\ Cardinality(Living) \in Nat
        /\ Cardinality(Living') \in 0..Cardinality(Clients)
    BY CountedIsSmall
  <2>3. Cardinality(Living') = Cardinality(Living) - 1
    BY <2>1, <2>2, FS_RemoveElement
  <2>4. refCount' = Cardinality(Living') /\ refCount = Cardinality(Living)
    BY <1>1, <2>3 DEF Counted
  <2>5. Living' # {} <=> Cardinality(Living') # 0
    BY <2>2, FS_EmptySet
  <2>6. framework' <=> Living' # {}
    <3>1. framework <=> Living # {}
      BY DEF Counted
    <3>2. framework' <=> refCount # 1
      BY <1>1, <2>1, <3>1 DEF FrameworkLeft
    <3>3. Cardinality(Living') # 0 <=> refCount # 1
      BY <2>2, <2>3, <2>4
    <3> QED BY <2>5, <3>2, <3>3
  <2>7. framework' \in BOOLEAN
    BY <1>1 DEF FrameworkLeft
  <2> QED BY <2>2, <2>4, <2>6, <2>7 DEF Counted
<1>8. /\ object' \in [Clients -> {"none", "alive", "destroyed", "deleted"}]
      /\ clientData' \in [Clients -> Callbacks \cup {NoCallbacks}]
      /\ wantsReport' \subseteq Clients
  BY <1>1, <1>6
<1>9. {control', framework', aborted'} \subseteq BOOLEAN
  BY <1>1, <1>6, <1>7
<1> QED BY <1>1, <1>5, <1>6, <1>7, <1>8, <1>9 DEF adapterSide

LEMMA ControlTypes == TypesFit /\ (CreateControl \/ DestroyControl) => TypesFit'
<1> SUFFICES ASSUME TypesFit, CreateControl \/ DestroyControl PROVE TypesFit'
  OBVIOUS
<1> USE DEF TypesFit, TypeOK
<1>1. CASE CreateControl
  <2>1. /\ Load({"gnss"}) /\ control' = ("gnss" \in loaded')
        /\ UNCHANGED <<object, clientData, waitMask, refCount, framework, wantsReport, reported,
                       aborted, msgs, adapterSide, asked, used>>
    BY <1>1 DEF CreateControl
  <2>2. {"gnss"} \in SUBSET Adapters
    BY LocationAPIAssumption
  <2>3. /\ loaded' \subseteq Adapters /\ failed' \subseteq Adapters \ loaded'
        /\ loaded \subseteq loaded'
    BY <2>1, <2>2, LoadTypes
  <2>4. Counted'
    BY <2>1 DEF Counted, Living
  <2>5. control' \in BOOLEAN
    BY <2>1
  <2> QED BY <2>1, <2>3, <2>4, <2>5 DEF adapterSide
<1>2. CASE DestroyControl
  <2>1. Counted'
    BY <1>2 DEF Counted, Living, DestroyControl, api
  <2> QED BY <1>2, <2>1 DEF DestroyControl, api, adapterSide
<1> QED BY <1>1, <1>2

\* The message that the thread takes.
LEMMA HeadTypes ==
    ASSUME TypesFit, msgs # <<>>
    PROVE  /\ Head(msgs) \in LocationMessages
           /\ Head(msgs).adapter \in Adapters
           /\ Head(msgs).type \in {"add", "remove", "capabilities"} => Head(msgs).client \in Clients
           /\ Head(msgs).type = "add" => Head(msgs).callbacks \in Callbacks
           /\ Head(msgs).type = "capabilities" => Head(msgs) \in CapabilityRequests
           /\ Head(msgs).type = "up" => Head(msgs).adapter \in loaded
<1>1. msgs \in Seq(LocationMessages)
  BY DEF TypesFit
<1>2. Head(msgs) \in LocationMessages /\ Head(msgs) = msgs[1] /\ 1 \in 1..Len(msgs)
  BY <1>1, Taken
<1> QED BY <1>2 DEF LocationMessages, CapabilityRequests, TypesFit

LEMMA RequestsAreMessages ==
    ASSUME NEW s \in Seq(CapabilityRequests)
    PROVE  /\ s \in Seq(LocationMessages)
           /\ \A k \in 1..Len(s) : s[k].type # "up" /\ s[k].type = "capabilities"
<1>1. \A k \in 1..Len(s) : s[k] \in CapabilityRequests
  OBVIOUS
<1>2. \A r \in CapabilityRequests : r \in LocationMessages /\ r.type = "capabilities"
  BY DEF CapabilityRequests, LocationMessages
<1>3. s \in [1..Len(s) -> LocationMessages] /\ Len(s) \in Nat
  BY <1>1, <1>2
<1> QED BY <1>1, <1>2, <1>3

LEMMA ThreadTypes == TypesFit /\ MasksFit /\ Dispatch => TypesFit'
<1> SUFFICES ASSUME TypesFit, MasksFit, Dispatch PROVE TypesFit'
  OBVIOUS
<1>1. CASE AddClient
  <2>1. /\ msgs # <<>> /\ Head(msgs).type = "add" /\ msgs' = Tail(msgs)
        /\ known' = [known EXCEPT ![Head(msgs).adapter][Head(msgs).client] = Head(msgs).callbacks]
        /\ UNCHANGED <<api, waitMask, control, reported, aborted, capable, pendingMsgs, told,
                       used>>
    BY <1>1 DEF AddClient, Take
  <2>2. /\ Head(msgs).adapter \in Adapters /\ Head(msgs).client \in Clients
        /\ Head(msgs).callbacks \in Callbacks
    BY <2>1, HeadTypes
  <2>3. Counted'
    BY <2>1 DEF TypesFit, Counted, Living, api
  <2>4. known' \in [Adapters -> [Clients -> Callbacks \cup {NoCallbacks}]]
    BY <2>1, <2>2 DEF TypesFit, TypeOK
  <2>5. loaded' = loaded /\ msgs' = Tail(msgs)
    BY <2>1 DEF api
  <2>6. /\ msgs' \in Seq(LocationMessages)
        /\ \A k \in 1..Len(msgs') : msgs'[k].type = "up" => msgs'[k].adapter \in loaded'
    BY <2>1, <2>5, TakenUps
  <2> QED BY <2>1, <2>3, <2>4, <2>6 DEF TypesFit, TypeOK, api
<1>2. CASE RequestCapabilities
  <2>1. /\ msgs # <<>> /\ Head(msgs).type = "capabilities" /\ msgs' = Tail(msgs)
        /\ pendingMsgs' = IF Head(msgs).adapter \in capable THEN pendingMsgs ELSE PutOff(Head(msgs))
        /\ told' = told \/ told' = told \cup {Head(msgs).client}
        /\ UNCHANGED <<api, waitMask, control, reported, aborted, known, capable, used>>
    BY <1>2 DEF RequestCapabilities, Take
  <2>2. /\ Head(msgs).adapter \in Adapters /\ Head(msgs).client \in Clients
        /\ Head(msgs) \in CapabilityRequests
    BY <2>1, HeadTypes
  <2>3. Counted'
    BY <2>1 DEF TypesFit, Counted, Living, api
  <2>4. pendingMsgs' \in [Adapters -> Seq(CapabilityRequests)]
    <3>1. pendingMsgs \in [Adapters -> Seq(CapabilityRequests)]
      BY DEF TypesFit
    <3>2. Append(pendingMsgs[Head(msgs).adapter], Head(msgs)) \in Seq(CapabilityRequests)
      BY <3>1, <2>2, AppendProperties
    <3> QED BY <3>1, <3>2, <2>1, <2>2 DEF PutOff
  <2>5. loaded' = loaded /\ msgs' = Tail(msgs)
    BY <2>1 DEF api
  <2>6. /\ msgs' \in Seq(LocationMessages)
        /\ \A k \in 1..Len(msgs') : msgs'[k].type = "up" => msgs'[k].adapter \in loaded'
    BY <2>1, <2>5, TakenUps
  <2>7. told' \subseteq Clients
    BY <2>1, <2>2 DEF TypesFit, TypeOK
  <2> QED BY <2>1, <2>3, <2>4, <2>6, <2>7 DEF TypesFit, TypeOK, api
<1>3. CASE RemoveClient
  <2> PICK a : a = Head(msgs).adapter
    OBVIOUS
  <2> PICK c : c = Head(msgs).client
    OBVIOUS
  <2>1. /\ msgs # <<>> /\ Head(msgs).type = "remove" /\ msgs' = Tail(msgs)
        /\ known' = [known EXCEPT ![a][c] = NoCallbacks]
        /\ waitMask' = [waitMask EXCEPT ![c] = LeftOfMask(c, a)]
        /\ IF waitMask[c] # {} /\ waitMask'[c] = {}
           THEN Complete(c, c \in wantsReport)
           ELSE UNCHANGED <<object, reported, aborted>>
        /\ UNCHANGED <<loaded, failed, clientData, control, refCount, framework, wantsReport,
                       capable, pendingMsgs, asked, told, used>>
    BY <1>3 DEF RemoveClient, Take
  <2>2. a \in Adapters /\ c \in Clients
    BY <2>1, HeadTypes
  <2>3. /\ \/ object' = object
           \/ object[c] = "destroyed" /\ object' = [object EXCEPT ![c] = "deleted"]
        /\ reported' = reported /\ aborted' \in BOOLEAN
    <3>1. CASE waitMask[c] # {} /\ waitMask'[c] = {}
      <4>1. object[c] = "destroyed"
        BY <2>2, <3>1 DEF MasksFit
      <4>2. object' = [object EXCEPT ![c] = "deleted"] /\ reported' = reported
            /\ aborted' = (~(c \in wantsReport) /\ ~(c \in wantsReport))
        BY <2>1, <3>1 DEF Complete, InvokesCallback
      <4> QED BY <4>1, <4>2
    <3>2. CASE ~(waitMask[c] # {} /\ waitMask'[c] = {})
      <4>1. aborted \in {control, framework, aborted} /\ {control, framework, aborted} \subseteq BOOLEAN
        BY DEF TypesFit, TypeOK
      <4>2. aborted \in BOOLEAN
        BY <4>1
      <4>3. object' = object /\ reported' = reported /\ aborted' = aborted
        BY <2>1, <3>2
      <4>4. aborted' \in BOOLEAN
        BY <4>2, <4>3
      <4> QED BY <4>3, <4>4
    <3> QED BY <3>1, <3>2
  <2>4. object' \in [Clients -> {"none", "alive", "destroyed", "deleted"}] /\ Living' = Living
    BY <2>2, <2>3 DEF TypesFit, TypeOK, Living
  <2>5. Counted'
    BY <2>1, <2>4 DEF TypesFit, Counted
  <2>6. /\ known' \in [Adapters -> [Clients -> Callbacks \cup {NoCallbacks}]]
        /\ waitMask' \in [Clients -> SUBSET Adapters]
    BY <2>1, <2>2 DEF TypesFit, TypeOK, LeftOfMask
  <2>7. /\ msgs' \in Seq(LocationMessages)
        /\ \A k \in 1..Len(msgs') : msgs'[k].type = "up" => msgs'[k].adapter \in loaded'
    BY <2>1, TakenUps
  <2>8. {control', framework', aborted'} \subseteq BOOLEAN
    BY <2>1, <2>3 DEF TypesFit, TypeOK
  <2>9. reported' \subseteq wantsReport'
    BY <2>1, <2>3 DEF TypesFit, TypeOK
  <2> QED BY <2>1, <2>4, <2>5, <2>6, <2>7, <2>8, <2>9 DEF TypesFit, TypeOK
<1>4. CASE HandleEngineUp
  <2> PICK a : a = Head(msgs).adapter
    OBVIOUS
  <2>1. /\ msgs # <<>> /\ Head(msgs).type = "up"
        /\ capable' = capable \cup {a}
        /\ told' \subseteq told \cup Clients
        /\ msgs' = Tail(msgs) \o pendingMsgs[a]
        /\ pendingMsgs' = pendingMsgs \/ pendingMsgs' = [pendingMsgs EXCEPT ![a] = <<>>]
        /\ UNCHANGED <<api, waitMask, control, reported, aborted, known, used>>
    BY <1>4 DEF HandleEngineUp, Take
  <2>2. a \in Adapters /\ a \in loaded
    BY <2>1, HeadTypes
  <2>3. Counted'
    BY <2>1 DEF TypesFit, Counted, Living, api
  <2>4. pendingMsgs \in [Adapters -> Seq(CapabilityRequests)] /\ pendingMsgs' \in [Adapters -> Seq(CapabilityRequests)]
    <3>1. <<>> \in Seq(CapabilityRequests)
      OBVIOUS
    <3> QED BY <2>1, <2>2, <3>1 DEF TypesFit
  <2>5. /\ msgs' \in Seq(LocationMessages)
        /\ \A k \in 1..Len(msgs') : msgs'[k].type = "up" => msgs'[k].adapter \in loaded'
    <3>1. PICK s \in Seq(CapabilityRequests) : s = pendingMsgs[a]
      BY <2>2, <2>4
    <3>2. s \in Seq(LocationMessages) /\ \A k \in 1..Len(s) : s[k].type # "up"
      BY RequestsAreMessages
    <3>3. PICK t : t = Tail(msgs)
      OBVIOUS
    <3>4. /\ t \in Seq(LocationMessages)
          /\ \A k \in 1..Len(t) : t[k].type = "up" => t[k].adapter \in loaded
      BY <2>1, <3>3, TakenUps
    <3>5. PICK q : q = t \o s
      OBVIOUS
    <3>6. /\ q \in Seq(LocationMessages)
          /\ \A k \in 1..Len(t) : q[k] = t[k]
          /\ \A k \in 1..Len(q) : k > Len(t) => q[k] = s[k - Len(t)] /\ k - Len(t) \in 1..Len(s)
      BY <3>2, <3>4, <3>5, Joined
    <3>7. ASSUME NEW k \in 1..Len(q), q[k].type = "up" PROVE q[k].adapter \in loaded
      <4>1. Len(t) \in Nat /\ Len(q) \in Nat
        BY <3>4, <3>6
      <4>2. ASSUME k > Len(t) PROVE FALSE
        <5>1. q[k] = s[k - Len(t)] /\ k - Len(t) \in 1..Len(s)
          BY <3>6, <4>2
        <5>2. s[k - Len(t)].type # "up"
          BY <5>1, <3>2
        <5> QED BY <5>1, <5>2, <3>7
      <4>3. k \in 1..Len(t)
        BY <4>1, <4>2
      <4> QED BY <3>4, <3>6, <3>7, <4>3
    <3>8. msgs' = q /\ loaded' = loaded
      BY <2>1, <3>1, <3>3, <3>5 DEF api
    <3> QED BY <3>6, <3>7, <3>8
  <2>6. capable' \subseteq loaded' /\ told' \subseteq Clients
    BY <2>1, <2>2 DEF TypesFit, TypeOK, api
  <2> QED BY <2>1, <2>3, <2>4, <2>5, <2>6 DEF TypesFit, TypeOK, api
<1> QED BY <1>1, <1>2, <1>3, <1>4 DEF Dispatch

LEMMA EngineTypes == TypesFit /\ EngineUp => TypesFit'
<1> SUFFICES ASSUME TypesFit, EngineUp PROVE TypesFit'
  OBVIOUS
<1>1. PICK a \in loaded :
          /\ used' = [used EXCEPT !.ups = @ \cup {a}]
          /\ msgs' = Append(msgs, [type |-> "up", adapter |-> a])
          /\ UNCHANGED <<api, waitMask, control, reported, aborted, adapterSide>>
  BY DEF EngineUp
<1>2. a \in Adapters
  BY DEF TypesFit, TypeOK
<1>3. PICK m : m = [type |-> "up", adapter |-> a]
  OBVIOUS
<1>4. m \in LocationMessages /\ m.adapter \in loaded
  BY <1>2, <1>3 DEF LocationMessages
<1>5. msgs' = Append(msgs, m) /\ msgs \in Seq(LocationMessages) /\ loaded' = loaded
  BY <1>1, <1>3 DEF TypesFit, api
<1>6. /\ msgs' \in Seq(LocationMessages)
      /\ \A k \in 1..Len(msgs') : msgs'[k].type = "up" => msgs'[k].adapter \in loaded'
  <2>1. /\ msgs' \in Seq(LocationMessages) /\ Len(msgs') = Len(msgs) + 1
        /\ \A k \in 1..Len(msgs) : msgs'[k] = msgs[k]
        /\ msgs'[Len(msgs) + 1] = m
    BY <1>4, <1>5
  <2>2. \A k \in 1..Len(msgs') : k \in 1..Len(msgs) \/ k = Len(msgs) + 1
    BY <1>5, <2>1
  <2> QED BY <1>4, <1>5, <2>1, <2>2 DEF TypesFit
<1>7. used' \in [updates : 0..MaxUpdates, ups : SUBSET Adapters]
  BY <1>1, <1>2 DEF TypesFit
<1>8. Counted'
  BY <1>1 DEF TypesFit, Counted, Living, api
<1> QED BY <1>1, <1>6, <1>7, <1>8 DEF TypesFit, TypeOK, api, adapterSide

LEMMA NextTypes == TypesFit /\ MasksFit /\ Next => TypesFit'
BY CreateTypes, UpdateTypes, DestroyTypes, ControlTypes, ThreadTypes, EngineTypes DEF Next

LEMMA StutterTypes == TypesFit /\ UNCHANGED vars => TypesFit'
BY DEF TypesFit, TypeOK, Counted, Living, vars, api, adapterSide

-----------------------------------------------------------------------------
(* The life of a client at an adapter                                       *)

Gone == {"destroyed", "deleted"}

\* What holds between an adapter a and a client c that is in state o, if a knows c or not,
\* with the messages q: who is gone will be forgotten, who is not made is not known, and a
\* removal is announced once and waited for by who wants a report; only loaded adapters
\* are told anything.
FitIn(q, o, knows, awaited, there, a, c) ==
    /\ o \in Gone => Forgets(q, knows, a, c)
    /\ o = "none" => ~knows /\ ~Named(q, "add", a, c)
    /\ Once(q, a, c)
    /\ Named(q, "remove", a, c) => o = "destroyed" /\ awaited
    /\ knows \/ Named(q, "add", a, c) => there

LEMMA FitJoined ==
    ASSUME NEW q \in Seq(LocationMessages), NEW s \in Seq(LocationMessages), NEW o, NEW a, NEW c,
           NEW k \in BOOLEAN, NEW w \in BOOLEAN, NEW t \in BOOLEAN, NEW t2 \in BOOLEAN,
           FitIn(q, o, k, w, t, a, c), t => t2,
           ~Named(s, "add", a, c), ~Named(s, "remove", a, c)
    PROVE  FitIn(q \o s, o, k, w, t2, a, c)
<1>1. o \in Gone => Forgets(q \o s, k, a, c)
  BY JoinedForgets DEF FitIn
<1>2. Once(q \o s, a, c)
  BY JoinedOnce DEF FitIn
<1>3. /\ Named(q \o s, "add", a, c) <=> Named(q, "add", a, c)
      /\ Named(q \o s, "remove", a, c) <=> Named(q, "remove", a, c)
  BY JoinedNamed
<1> QED BY <1>1, <1>2, <1>3 DEF FitIn

LEMMA FitAdded ==
    ASSUME NEW q \in Seq(LocationMessages), NEW s \in Seq(LocationMessages), NEW o \in {"none", "alive"},
           NEW a, NEW c, NEW k \in BOOLEAN, NEW w \in BOOLEAN, NEW t \in BOOLEAN,
           NEW w2 \in BOOLEAN, NEW t2 \in BOOLEAN,
           FitIn(q, o, k, w, t, a, c), t => t2, Named(s, "add", a, c) => t2,
           ~Named(s, "remove", a, c)
    PROVE  FitIn(q \o s, "alive", k, w2, t2, a, c)
<1>1. Once(q \o s, a, c)
  BY JoinedOnce DEF FitIn
<1>2. ~Named(q, "remove", a, c)
  BY DEF FitIn
<1>3. /\ Named(q \o s, "add", a, c) <=> Named(q, "add", a, c) \/ Named(s, "add", a, c)
      /\ ~Named(q \o s, "remove", a, c)
  BY <1>2, JoinedNamed
<1> QED BY <1>1, <1>3 DEF FitIn, Gone

LEMMA FitRemoved ==
    ASSUME NEW q \in Seq(LocationMessages), NEW s \in Seq(LocationMessages), NEW a, NEW c,
           NEW k \in BOOLEAN, NEW w \in BOOLEAN, NEW t \in BOOLEAN,
           FitIn(q, "alive", k, w, t, a, c),
           ~Named(s, "add", a, c), t => Named(s, "remove", a, c), Once(s, a, c)
    PROVE  FitIn(q \o s, "destroyed", k, TRUE, t, a, c)
<1>1. ~Named(q, "remove", a, c)
  BY DEF FitIn
<1>2. Once(q \o s, a, c)
  BY <1>1, JoinedOnce
<1>3. Named(q \o s, "add", a, c) <=> Named(q, "add", a, c)
  BY JoinedNamed
<1>4. Forgets(q \o s, k, a, c)
  <2>1. CASE t
    BY <2>1, JoinedForgets
  <2>2. CASE ~t
    <3>1. ~k /\ ~Named(q \o s, "add", a, c)
      BY <2>2, <1>3 DEF FitIn
    <3> QED BY <3>1 DEF Forgets, Named
  <2> QED BY <2>1, <2>2
<1> QED BY <1>2, <1>3, <1>4 DEF FitIn, Gone

LEMMA FitDeleted ==
    ASSUME NEW q \in Seq(LocationMessages), NEW o, NEW a, NEW c,
           NEW k \in BOOLEAN, NEW w \in BOOLEAN, NEW t \in BOOLEAN, NEW w2 \in BOOLEAN,
           FitIn(q, o, k, w, t, a, c), ~Named(q, "remove", a, c), o \in Gone \/ ~t
    PROVE  FitIn(q, "deleted", k, w2, t, a, c)
<1>1. CASE o \in Gone
  BY <1>1 DEF FitIn, Gone
<1>2. CASE ~t
  <2>1. ~k /\ ~Named(q, "add", a, c)
    BY <1>2 DEF FitIn
  <2>2. Forgets(q, k, a, c)
    BY <2>1 DEF Forgets, Named
  <2> QED BY <2>1, <2>2 DEF FitIn, Gone
<1> QED BY <1>1, <1>2

LEMMA FitTaken ==
    ASSUME NEW q \in Seq(LocationMessages), q # <<>>, NEW o, NEW a, NEW c,
           NEW k \in BOOLEAN, NEW w \in BOOLEAN, NEW t \in BOOLEAN,
           FitIn(q, o, k, w, t, a, c),
           ~IsHead(q, "add", a, c), ~IsHead(q, "remove", a, c)
    PROVE  FitIn(Tail(q), o, k, w, t, a, c)
<1>1. /\ Named(Tail(q), "add", a, c) => Named(q, "add", a, c)
      /\ Named(Tail(q), "remove", a, c) => Named(q, "remove", a, c)
  BY TakenNamed
<1>2. Once(Tail(q), a, c)
  BY TakenOnce DEF FitIn
<1>3. ASSUME o \in Gone PROVE Forgets(Tail(q), k, a, c)
  BY <1>3, TakenForgets DEF FitIn
<1> QED BY <1>1, <1>2, <1>3 DEF FitIn

LEMMA FitTakenAdd ==
    ASSUME NEW q \in Seq(LocationMessages), q # <<>>, NEW o, NEW a, NEW c,
           NEW k \in BOOLEAN, NEW w \in BOOLEAN, NEW t \in BOOLEAN,
           FitIn(q, o, k, w, t, a, c), IsHead(q, "add", a, c)
    PROVE  FitIn(Tail(q), o, TRUE, w, t, a, c)
<1>1. /\ Named(Tail(q), "remove", a, c) => Named(q, "remove", a, c)
      /\ Named(q, "add", a, c)
  BY TakenNamed
<1>2. Once(Tail(q), a, c)
  BY TakenOnce DEF FitIn
<1>3. ASSUME o \in Gone PROVE Forgets(Tail(q), TRUE, a, c)
  BY <1>3, TakenForgets DEF FitIn
<1>4. o # "none"
  BY <1>1 DEF FitIn
<1> QED BY <1>1, <1>2, <1>3, <1>4 DEF FitIn

LEMMA FitTakenRemove ==
    ASSUME NEW q \in Seq(LocationMessages), q # <<>>, NEW a, NEW c,
           NEW k \in BOOLEAN, NEW w \in BOOLEAN, NEW t \in BOOLEAN, NEW k2 \in BOOLEAN,
           FitIn(q, "destroyed", k, w, t, a, c), IsHead(q, "remove", a, c), ~k2
    PROVE  FitIn(Tail(q), "destroyed", k2, w, t, a, c) /\ ~Named(Tail(q), "remove", a, c)
<1>1. /\ Named(Tail(q), "add", a, c) => Named(q, "add", a, c)
      /\ Named(Tail(q), "remove", a, c) => Named(q, "remove", a, c)
  BY TakenNamed
<1>2. Once(Tail(q), a, c) /\ ~Named(Tail(q), "remove", a, c)
  BY TakenOnce DEF FitIn
<1>3. Forgets(Tail(q), FALSE, a, c)
  BY TakenForgets DEF FitIn, Gone
<1>4. k2 = FALSE
  OBVIOUS
<1>5. Forgets(Tail(q), k2, a, c)
  BY <1>3, <1>4
<1> QED BY <1>1, <1>2, <1>5 DEF FitIn, Gone

Knows(a, c) == known[a][c] # NoCallbacks
Awaited(a, c) == c \in wantsReport => a \in waitMask[c]

Fit(a, c) == FitIn(msgs, object[c], Knows(a, c), Awaited(a, c), a \in loaded, a, c)

\* The fit after a step, of the values after it.
LEMMA FitAfter ==
    ASSUME NEW a, NEW c, NEW q, NEW k \in BOOLEAN, NEW w \in BOOLEAN, NEW t \in BOOLEAN,
           q = msgs', k = (known'[a][c] # NoCallbacks),
           w = (c \in wantsReport' => a \in waitMask'[c]), t <=> a \in loaded',
           FitIn(q, object'[c], k, w, t, a, c)
    PROVE  Fit(a, c)'
BY ZenonT(60) DEF Fit, FitIn, Knows, Awaited, Forgets, Once, Named, At

LEMMA FitNow ==
    ASSUME NEW a, NEW c, Fit(a, c),
           NEW k \in BOOLEAN, NEW w \in BOOLEAN, NEW t \in BOOLEAN,
           k = (known[a][c] # NoCallbacks), w = (c \in wantsReport => a \in waitMask[c]),
           t <=> a \in loaded
    PROVE  FitIn(msgs, object[c], k, w, t, a, c)
BY DEF Fit, Knows, Awaited

Life == MasksFit /\ \A c \in Clients, a \in Adapters : Fit(a, c)

LEMMA InitLife == Init => Life
<1> SUFFICES ASSUME Init PROVE Life
  OBVIOUS
<1>1. MasksFit
  BY DEF MasksFit, Init
<1>2. ASSUME NEW c \in Clients, NEW a \in Adapters PROVE Fit(a, c)
  <2>1. msgs = <<>> /\ known[a][c] = NoCallbacks /\ object[c] = "none"
    BY <1>2 DEF Init
  <2>2. Len(msgs) = 0
    BY <2>1
  <2>3. ~Named(msgs, "add", a, c) /\ ~Named(msgs, "remove", a, c) /\ Once(msgs, a, c)
    BY <2>2 DEF Named, Once
  <2> QED BY <2>1, <2>3 DEF Fit, FitIn, Knows, Gone
<1> QED BY <1>1, <1>2 DEF Life

\* A call that says nothing of c to a.
LEMMA FitStays ==
    ASSUME TypesFit, NEW a \in Adapters, NEW c \in Clients, Fit(a, c),
           NEW s \in Seq(LocationMessages), msgs' = msgs \o s,
           ~Named(s, "add", a, c), ~Named(s, "remove", a, c),
           object'[c] = object[c], known'[a][c] = known[a][c],
           waitMask'[c] = waitMask[c], c \in wantsReport' <=> c \in wantsReport,
           loaded \subseteq loaded'
    PROVE  Fit(a, c)'
<1>1. PICK k \in BOOLEAN : k = (known[a][c] # NoCallbacks)
  OBVIOUS
<1>2. PICK w \in BOOLEAN : w = (c \in wantsReport => a \in waitMask[c])
  OBVIOUS
<1>3. PICK t \in BOOLEAN : t <=> a \in loaded
  OBVIOUS
<1>4. PICK t2 \in BOOLEAN : t2 <=> a \in loaded'
  OBVIOUS
<1>5. FitIn(msgs, object[c], k, w, t, a, c)
  BY ONLY Fit(a, c), <1>1, <1>2, <1>3, FitNow
<1>6. msgs \in Seq(LocationMessages) /\ (t => t2)
  BY <1>3, <1>4 DEF TypesFit
<1>7. PICK q : q = msgs'
  OBVIOUS
<1>8. FitIn(msgs \o s, object[c], k, w, t2, a, c)
  BY <1>5, <1>6, FitJoined
<1>9. FitIn(q, object'[c], k, w, t2, a, c)
  BY <1>7, <1>8
<1>10. k = (known'[a][c] # NoCallbacks) /\ w = (c \in wantsReport' => a \in waitMask'[c])
  BY <1>1, <1>2
<1> QED BY ONLY <1>1, <1>2, <1>3, <1>4, <1>7, <1>9, <1>10, FitAfter

\* What was told of c to adapters is nothing about another client, nor to others.
LEMMA TellsOthersNothing ==
    ASSUME NEW s, NEW types, NEW some, NEW c, NEW cbs, Tells(s, types, some, c, cbs),
           NEW d, NEW a, NEW type, type \notin types \/ d # c \/ a \notin some
    PROVE  ~Named(s, type, a, d)
BY DEF Tells, Named, At

LEMMA CreateLife == TypesFit /\ Life /\ CreateInstance => Life'
<1> SUFFICES ASSUME TypesFit, Life, CreateInstance PROVE Life'
  OBVIOUS
<1>1. PICK c0 \in Clients, wants \in SUBSET Adapters :
          LET cbs == [wants |-> wants, version |-> used.updates]
          IN  /\ object[c0] = "none"
              /\ object' = [object EXCEPT ![c0] = "alive"]
              /\ Load(wants)
              /\ msgs' = msgs \o Added(wants \cap loaded', c0, cbs)
              /\ UNCHANGED <<waitMask, wantsReport, adapterSide>>
  BY DEF CreateInstance
<1>2. PICK cbs : cbs = [wants |-> wants, version |-> used.updates]
  OBVIOUS
<1>3. cbs \in Callbacks
  BY <1>2 DEF Callbacks, TypesFit
<1>4. loaded \subseteq loaded' /\ loaded' \subseteq Adapters
  BY <1>1, LoadTypes
<1>5. PICK some \in SUBSET Adapters : some = wants \cap loaded'
  BY <1>4
<1>6. PICK s : s = Added(some, c0, cbs)
  OBVIOUS
<1>7. Tells(s, {"add", "capabilities"}, some, c0, cbs)
  BY <1>3, <1>6, AllAreTold
<1>8. s \in Seq(LocationMessages) /\ msgs' = msgs \o s
  BY <1>1, <1>2, <1>5, <1>6, <1>7 DEF Tells
<1>9. /\ known' = known /\ waitMask' = waitMask /\ wantsReport' = wantsReport
      /\ object \in [Clients -> {"none", "alive", "destroyed", "deleted"}]
  BY <1>1 DEF adapterSide, TypesFit, TypeOK
<1>10. MasksFit'
  BY <1>1, <1>9 DEF Life, MasksFit
<1>11. ASSUME NEW c \in Clients, NEW a \in Adapters PROVE Fit(a, c)'
  <2>1. Fit(a, c)
    BY DEF Life
  <2>2. CASE c # c0
    <3>1. ~Named(s, "add", a, c) /\ ~Named(s, "remove", a, c)
      BY <1>7, <2>2, TellsOthersNothing
    <3>2. object'[c] = object[c]
      BY <1>1, <1>9, <2>2
    <3> QED BY <1>4, <1>8, <1>9, <2>1, <3>1, <3>2, FitStays
  <2>3. CASE c = c0
    <3>1. PICK k \in BOOLEAN : k = (known[a][c] # NoCallbacks)
      OBVIOUS
    <3>2. PICK w \in BOOLEAN : w = (c \in wantsReport => a \in waitMask[c])
      OBVIOUS
    <3>3. PICK t \in BOOLEAN : t <=> a \in loaded
      OBVIOUS
    <3>4. PICK t2 \in BOOLEAN : t2 <=> a \in loaded'
      OBVIOUS
    <3>5. FitIn(msgs, object[c], k, w, t, a, c)
      BY ONLY <2>1, <3>1, <3>2, <3>3, FitNow
    <3>6. object[c] \in {"none", "alive"} /\ object'[c] = "alive" /\ (t => t2)
          /\ msgs \in Seq(LocationMessages)
      BY <1>1, <1>4, <1>9, <2>3, <3>3, <3>4 DEF TypesFit
    <3>7. ~Named(s, "remove", a, c)
      <4>1. "remove" \notin {"add", "capabilities"}
        OBVIOUS
      <4> QED BY <1>7, <4>1, TellsOthersNothing
    <3>8. Named(s, "add", a, c) => t2
      <4>1. a \notin some => ~Named(s, "add", a, c)
        BY <1>7, TellsOthersNothing
      <4> QED BY <4>1, <1>5, <3>4
    <3>9. FitIn(msgs \o s, "alive", k, w, t2, a, c)
      BY <1>8, <3>5, <3>6, <3>7, <3>8, FitAdded
    <3>10. PICK q : q = msgs'
      OBVIOUS
    <3>11. FitIn(q, object'[c], k, w, t2, a, c)
      BY <1>8, <3>6, <3>9, <3>10
    <3>12. k = (known'[a][c] # NoCallbacks) /\ w = (c \in wantsReport' => a \in waitMask'[c])
      BY <1>9, <3>1, <3>2
    <3> QED BY ONLY <3>1, <3>2, <3>4, <3>10, <3>11, <3>12, FitAfter
  <2> QED BY <2>2, <2>3
<1> QED BY <1>10, <1>11 DEF Life

LEMMA UpdateLife == TypesFit /\ Life /\ UpdateCallbacks => Life'
<1> SUFFICES ASSUME TypesFit, Life, UpdateCallbacks PROVE Life'
  OBVIOUS
<1>1. PICK c0 \in Clients, wants \in SUBSET Adapters :
          LET cbs == [wants |-> wants, version |-> used.updates + 1]
          IN  /\ object[c0] = "alive"
              /\ used.updates < MaxUpdates
              /\ Load(wants)
              /\ msgs' = msgs \o ToEach(Updated(c0, wants), "add", c0, cbs)
              /\ UNCHANGED <<object, waitMask, wantsReport, adapterSide>>
  BY DEF UpdateCallbacks
<1>2. PICK cbs : cbs = [wants |-> wants, version |-> used.updates + 1]
  OBVIOUS
<1>3. cbs \in Callbacks
  <2>1. MaxUpdates \in Nat /\ used.updates \in 0..MaxUpdates
    BY LocationAPIAssumption DEF TypesFit
  <2>2. used.updates + 1 \in 0..MaxUpdates
    BY <1>1, <2>1
  <2> QED BY <1>2, <2>2 DEF Callbacks
<1>4. loaded \subseteq loaded' /\ loaded' \subseteq Adapters
  BY <1>1, LoadTypes
<1>5. PICK some \in SUBSET Adapters : some = wants \cap loaded' /\ some = Updated(c0, wants)
  BY <1>4 DEF Updated
<1>6. PICK s : s = ToEach(some, "add", c0, cbs)
  OBVIOUS
<1>7. Tells(s, {"add"}, some, c0, cbs)
  BY <1>3, <1>6, EachAdds
<1>8. s \in Seq(LocationMessages) /\ msgs' = msgs \o s
  BY <1>1, <1>2, <1>5, <1>6, <1>7 DEF Tells
<1>9. /\ known' = known /\ waitMask' = waitMask /\ wantsReport' = wantsReport /\ object' = object
  BY <1>1 DEF adapterSide
<1>10. MasksFit'
  BY <1>9 DEF Life, MasksFit
<1>11. ASSUME NEW c \in Clients, NEW a \in Adapters PROVE Fit(a, c)'
  <2>1. Fit(a, c)
    BY DEF Life
  <2>2. CASE c # c0
    <3>1. ~Named(s, "add", a, c) /\ ~Named(s, "remove", a, c)
      BY <1>7, <2>2, TellsOthersNothing
    <3> QED BY <1>4, <1>8, <1>9, <2>1, <3>1, FitStays
  <2>3. CASE c = c0
    <3>1. PICK k \in BOOLEAN : k = (known[a][c] # NoCallbacks)
      OBVIOUS
    <3>2. PICK w \in BOOLEAN : w = (c \in wantsReport => a \in waitMask[c])
      OBVIOUS
    <3>3. PICK t \in BOOLEAN : t <=> a \in loaded
      OBVIOUS
    <3>4. PICK t2 \in BOOLEAN : t2 <=> a \in loaded'
      OBVIOUS
    <3>5. FitIn(msgs, object[c], k, w, t, a, c)
      BY ONLY <2>1, <3>1, <3>2, <3>3, FitNow
    <3>6. object[c] \in {"none", "alive"} /\ object'[c] = "alive" /\ (t => t2)
          /\ msgs \in Seq(LocationMessages)
      BY <1>1, <1>4, <1>9, <2>3, <3>3, <3>4 DEF TypesFit
    <3>7. ~Named(s, "remove", a, c)
      <4>1. "remove" \notin {"add"}
        OBVIOUS
      <4> QED BY <1>7, <4>1, TellsOthersNothing
    <3>8. Named(s, "add", a, c) => t2
      <4>1. a \notin some => ~Named(s, "add", a, c)
        BY <1>7, TellsOthersNothing
      <4> QED BY <4>1, <1>5, <3>4
    <3>9. FitIn(msgs \o s, "alive", k, w, t2, a, c)
      BY <1>8, <3>5, <3>6, <3>7, <3>8, FitAdded
    <3>10. PICK q : q = msgs'
      OBVIOUS
    <3>11. FitIn(q, object'[c], k, w, t2, a, c)
      BY <1>8, <3>6, <3>9, <3>10
    <3>12. k = (known'[a][c] # NoCallbacks) /\ w = (c \in wantsReport' => a \in waitMask'[c])
      BY <1>9, <3>1, <3>2
    <3> QED BY ONLY <3>1, <3>2, <3>4, <3>10, <3>11, <3>12, FitAfter
  <2> QED BY <2>2, <2>3
<1> QED BY <1>10, <1>11 DEF Life

LEMMA DestroyLife == TypesFit /\ Life /\ Destroy => Life'
<1> SUFFICES ASSUME TypesFit, Life, Destroy PROVE Life'
  OBVIOUS
<1>1. PICK c0 \in Clients, withCb \in BOOLEAN :
          /\ object[c0] = "alive"
          /\ wantsReport' = IF withCb THEN wantsReport \cup {c0} ELSE wantsReport
          /\ IF loaded = {}
             THEN /\ Complete(c0, withCb)
                  /\ UNCHANGED waitMask
             ELSE /\ object' = [object EXCEPT ![c0] = "destroyed"]
                  /\ waitMask' = [waitMask EXCEPT ![c0] = IF withCb THEN Mask(c0) ELSE {}]
                  /\ UNCHANGED <<aborted, reported>>
          /\ msgs' = msgs \o ToEach(ToForget(c0), "remove", c0, NoCallbacks)
          /\ UNCHANGED <<loaded, failed, control, adapterSide, asked, used>>
  BY DEF Destroy
<1>2. PICK some \in SUBSET Adapters : some = loaded /\ some = ToForget(c0) /\ some = Mask(c0)
  BY DEF ToForget, Mask, TypesFit, TypeOK
<1>3. PICK s : s = ToEach(some, "remove", c0, NoCallbacks)
  OBVIOUS
<1>4. /\ Tells(s, {"remove"}, some, c0, NoCallbacks)
      /\ \A a \in some : Named(s, "remove", a, c0)
      /\ \A a : Once(s, a, c0)
  BY <1>3, EachRemoves
<1>5. s \in Seq(LocationMessages) /\ msgs' = msgs \o s /\ msgs \in Seq(LocationMessages)
  BY <1>1, <1>2, <1>3, <1>4 DEF Tells, TypesFit
<1>6. /\ known' = known /\ loaded' = loaded
      /\ object \in [Clients -> {"none", "alive", "destroyed", "deleted"}]
      /\ waitMask \in [Clients -> SUBSET Adapters]
  BY <1>1 DEF adapterSide, TypesFit, TypeOK
<1>7. /\ loaded = {} => object' = [object EXCEPT ![c0] = "deleted"] /\ waitMask' = waitMask
      /\ loaded # {} => /\ object' = [object EXCEPT ![c0] = "destroyed"]
                        /\ waitMask' = [waitMask EXCEPT ![c0] = IF withCb THEN some ELSE {}]
  BY <1>1, <1>2 DEF Complete
<1>8. waitMask[c0] = {} /\ c0 \notin wantsReport
  BY <1>1 DEF Life, MasksFit
<1>9. c0 \in wantsReport' <=> withCb
  BY <1>1, <1>8
<1>10. MasksFit'
  <2> SUFFICES ASSUME NEW c \in Clients
               PROVE  /\ waitMask'[c] # {} => object'[c] = "destroyed" /\ c \in wantsReport'
                      /\ c \in wantsReport' => object'[c] \in {"destroyed", "deleted"}
    BY DEF MasksFit
  <2>1. CASE c # c0
    <3>1. object'[c] = object[c] /\ waitMask'[c] = waitMask[c]
          /\ (c \in wantsReport' <=> c \in wantsReport)
      BY <1>1, <1>6, <1>7, <2>1
    <3> QED BY <3>1 DEF Life, MasksFit
  <2>2. CASE c = c0
    <3>1. CASE loaded = {}
      BY <1>6, <1>7, <1>8, <2>2, <3>1
    <3>2. CASE loaded # {}
      <4>1. object'[c] = "destroyed" /\ (waitMask'[c] # {} => withCb)
        BY <1>6, <1>7, <2>2, <3>2
      <4> QED BY <1>9, <2>2, <4>1
    <3> QED BY <3>1, <3>2
  <2> QED BY <2>1, <2>2
<1>11. ASSUME NEW c \in Clients, NEW a \in Adapters PROVE Fit(a, c)'
  <2>1. Fit(a, c)
    BY DEF Life
  <2>2. CASE c # c0
    <3>1. ~Named(s, "add", a, c) /\ ~Named(s, "remove", a, c)
      BY <1>4, <2>2, TellsOthersNothing
    <3>2. /\ object'[c] = object[c] /\ waitMask'[c] = waitMask[c]
          /\ (c \in wantsReport' <=> c \in wantsReport)
      BY <1>1, <1>6, <1>7, <2>2
    <3> QED BY <1>5, <1>6, <2>1, <3>1, <3>2, FitStays
  <2>3. CASE c = c0
    <3>1. PICK k \in BOOLEAN : k = (known[a][c] # NoCallbacks)
      OBVIOUS
    <3>2. PICK w \in BOOLEAN : w = (c \in wantsReport => a \in waitMask[c])
      OBVIOUS
    <3>3. PICK t \in BOOLEAN : t <=> a \in loaded
      OBVIOUS
    <3>4. FitIn(msgs, "alive", k, w, t, a, c)
      <4>1. FitIn(msgs, object[c], k, w, t, a, c)
        BY ONLY <2>1, <3>1, <3>2, <3>3, FitNow
      <4> QED BY <1>1, <2>3, <4>1
    <3>5. ~Named(s, "add", a, c)
      <4>1. "add" \notin {"remove"}
        OBVIOUS
      <4> QED BY <1>4, <4>1, TellsOthersNothing
    <3>6. PICK q : q = msgs'
      OBVIOUS
    <3>7. PICK w2 \in BOOLEAN : w2 = (c \in wantsReport' => a \in waitMask'[c])
      OBVIOUS
    <3>8. k = (known'[a][c] # NoCallbacks) /\ (t <=> a \in loaded')
      BY <1>6, <3>1, <3>3
    <3>9. CASE loaded = {}
      <4>1. some = {} /\ ~t
        BY <1>2, <3>3, <3>9
      <4>2. ~Named(s, "remove", a, c)
        BY <1>4, <4>1, TellsOthersNothing
      <4>3. FitIn(msgs \o s, "alive", k, w, t, a, c)
        BY <1>5, <3>4, <3>5, <4>2, FitJoined
      <4>4. ~Named(msgs \o s, "remove", a, c)
        BY <4>3 DEF FitIn
      <4>5. msgs \o s \in Seq(LocationMessages)
        BY <1>5, Joined
      <4>6. FitIn(msgs \o s, "deleted", k, w2, t, a, c)
        <5>1. "alive" \in Gone \/ ~t
          BY <4>1
        <5>2. PICK q2 \in Seq(LocationMessages) : q2 = msgs \o s
          BY <4>5
        <5>3. FitIn(q2, "alive", k, w, t, a, c) /\ ~Named(q2, "remove", a, c)
          BY <4>3, <4>4, <5>2
        <5>4. FitIn(q2, "deleted", k, w2, t, a, c)
          BY <5>1, <5>3, FitDeleted
        <5> QED BY <5>2, <5>4
      <4>7. object'[c] = "deleted"
        BY <1>6, <1>7, <2>3, <3>9
      <4>8. FitIn(q, object'[c], k, w2, t, a, c)
        BY <1>5, <3>6, <4>6, <4>7
      <4> QED BY <3>6, <3>7, <3>8, <4>8, FitAfter
    <3>10. CASE loaded # {}
      <4>1. t => Named(s, "remove", a, c)
        BY <1>2, <1>4, <2>3, <3>3
      <4>2. Once(s, a, c)
        BY <1>4, <2>3
      <4>3. FitIn(msgs \o s, "destroyed", k, TRUE, t, a, c)
        BY <1>5, <3>4, <3>5, <4>1, <4>2, FitRemoved
      <4>4. Named(msgs \o s, "remove", a, c) => w2
        <5>1. ~Named(msgs, "remove", a, c)
          BY <3>4 DEF FitIn
        <5>2. ASSUME Named(msgs \o s, "remove", a, c) PROVE a \in some
          <6>1. Named(s, "remove", a, c)
            BY <1>5, <5>1, <5>2, JoinedNamed
          <6> QED BY <1>4, <6>1, TellsOthersNothing
        <5>3. c \in wantsReport' => waitMask'[c] = some
          BY <1>6, <1>7, <1>9, <2>3, <3>10
        <5> QED BY <3>7, <5>2, <5>3
      <4>5. FitIn(msgs \o s, "destroyed", k, w2, t, a, c)
        BY <4>3, <4>4 DEF FitIn
      <4>6. object'[c] = "destroyed"
        BY <1>6, <1>7, <2>3, <3>10
      <4>7. FitIn(q, object'[c], k, w2, t, a, c)
        BY <1>5, <3>6, <4>5, <4>6
      <4> QED BY <3>6, <3>7, <3>8, <4>7, FitAfter
    <3> QED BY <3>9, <3>10
  <2> QED BY <2>2, <2>3
<1> QED BY <1>10, <1>11 DEF Life

\* Calls about the control interface and the engine's start tell of no client.
LEMMA MoreUps ==
    ASSUME TypesFit, CreateControl \/ DestroyControl \/ EngineUp
    PROVE  \E s \in Seq(LocationMessages) : msgs' = msgs \o s /\ \A k \in 1..Len(s) : s[k].type = "up"
<1>1. CASE CreateControl \/ DestroyControl
  <2>1. PICK s \in Seq(LocationMessages) : s = <<>>
    <3>1. <<>> \in Seq(LocationMessages)
      OBVIOUS
    <3> QED BY <3>1
  <2>2. Len(s) = 0 /\ msgs' = msgs \o s
    BY <1>1, <2>1 DEF CreateControl, DestroyControl, TypesFit
  <2>3. \A k \in 1..Len(s) : s[k].type = "up"
    BY <2>2
  <2> QED BY <2>2, <2>3
<1>2. CASE EngineUp
  <2>1. PICK a \in loaded : msgs' = Append(msgs, [type |-> "up", adapter |-> a])
    BY <1>2 DEF EngineUp
  <2>2. PICK m : m = [type |-> "up", adapter |-> a]
    OBVIOUS
  <2>3. m \in LocationMessages /\ m.type = "up"
    BY <2>2 DEF LocationMessages, TypesFit, TypeOK
  <2>4. PICK s \in Seq(LocationMessages) : s = <<m>>
    <3>1. <<m>> \in Seq(LocationMessages)
      BY <2>3
    <3> QED BY <3>1
  <2>5. msgs' = msgs \o s /\ Len(s) = 1 /\ s[1] = m
    BY <2>1, <2>2, <2>3, <2>4 DEF TypesFit
  <2>6. \A k \in 1..Len(s) : s[k].type = "up"
    BY <2>3, <2>5
  <2> QED BY <2>5, <2>6
<1> QED BY <1>1, <1>2

LEMMA OthersLife == TypesFit /\ Life /\ (CreateControl \/ DestroyControl \/ EngineUp) => Life'
<1> SUFFICES ASSUME TypesFit, Life, CreateControl \/ DestroyControl \/ EngineUp PROVE Life'
  OBVIOUS
<1>1. PICK s \in Seq(LocationMessages) : msgs' = msgs \o s /\ \A k \in 1..Len(s) : s[k].type = "up"
  BY MoreUps
<1>2. loaded \subseteq loaded'
  <2>1. CASE CreateControl
    BY <2>1, LocationAPIAssumption, LoadTypes DEF CreateControl
  <2> QED BY <2>1 DEF DestroyControl, EngineUp, api
<1>3. /\ object' = object /\ known' = known /\ waitMask' = waitMask
      /\ wantsReport' = wantsReport
  BY DEF CreateControl, DestroyControl, EngineUp, api, adapterSide
<1>4. MasksFit'
  BY <1>3 DEF Life, MasksFit
<1>5. ASSUME NEW c \in Clients, NEW a \in Adapters PROVE Fit(a, c)'
  <2>1. ~Named(s, "add", a, c) /\ ~Named(s, "remove", a, c)
    BY <1>1 DEF Named, At
  <2>2. Fit(a, c)
    BY DEF Life
  <2> QED BY <1>1, <1>2, <1>3, <2>1, <2>2, FitStays
<1> QED BY <1>4, <1>5 DEF Life

\* A message that says nothing of c to a is taken, and perhaps requests are sent again.
LEMMA FitPasses ==
    ASSUME TypesFit, NEW a \in Adapters, NEW c \in Clients, Fit(a, c), msgs # <<>>,
           ~IsHead(msgs, "add", a, c), ~IsHead(msgs, "remove", a, c),
           NEW s \in Seq(LocationMessages), msgs' = Tail(msgs) \o s,
           \A j \in 1..Len(s) : s[j].type = "capabilities",
           object'[c] = object[c], known'[a][c] = known[a][c],
           c \in wantsReport => (a \in waitMask'[c] <=> a \in waitMask[c]),
           c \in wantsReport' <=> c \in wantsReport, loaded' = loaded
    PROVE  Fit(a, c)'
<1>1. PICK k \in BOOLEAN : k = (known[a][c] # NoCallbacks)
  OBVIOUS
<1>2. PICK w \in BOOLEAN : w = (c \in wantsReport => a \in waitMask[c])
  OBVIOUS
<1>3. PICK t \in BOOLEAN : t <=> a \in loaded
  OBVIOUS
<1>4. FitIn(msgs, object[c], k, w, t, a, c)
  <2>1. Fit(a, c)
    OBVIOUS
  <2> QED BY ONLY <1>1, <1>2, <1>3, <2>1, FitNow
<1>5. msgs \in Seq(LocationMessages)
  BY DEF TypesFit
<1>6. PICK rest \in Seq(LocationMessages) : rest = Tail(msgs)
  BY <1>5, Taken
<1>7. FitIn(rest, object[c], k, w, t, a, c)
  BY <1>4, <1>5, <1>6, FitTaken
<1>8. ~Named(s, "add", a, c) /\ ~Named(s, "remove", a, c)
  BY DEF Named, At
<1>9. FitIn(rest \o s, object[c], k, w, t, a, c)
  BY <1>7, <1>8, FitJoined
<1>10. PICK q : q = msgs'
  OBVIOUS
<1>11. FitIn(q, object'[c], k, w, t, a, c)
  BY <1>6, <1>9, <1>10
<1>12. /\ k = (known'[a][c] # NoCallbacks) /\ (t <=> a \in loaded')
       /\ w = (c \in wantsReport' => a \in waitMask'[c])
  BY <1>1, <1>2, <1>3
<1> QED BY ONLY <1>1, <1>2, <1>3, <1>10, <1>11, <1>12, FitAfter

LEMMA NothingJoined ==
    ASSUME TypesFit, msgs # <<>>, msgs' = Tail(msgs)
    PROVE  \E s \in Seq(LocationMessages) : msgs' = Tail(msgs) \o s /\ Len(s) = 0
                                    /\ \A j \in 1..Len(s) : s[j].type = "capabilities"
<1>1. msgs \in Seq(LocationMessages)
  BY DEF TypesFit
<1>2. Tail(msgs) \in Seq(LocationMessages)
  BY <1>1, Taken
<1>3. PICK s \in Seq(LocationMessages) : s = <<>>
  <2>1. <<>> \in Seq(LocationMessages)
    OBVIOUS
  <2> QED BY <2>1
<1>4. Tail(msgs) \o s = Tail(msgs) /\ Len(s) = 0
  BY <1>2, <1>3
<1>5. \A j \in 1..Len(s) : s[j].type = "capabilities"
  BY <1>4
<1> QED BY <1>4, <1>5

\* What is at the head is about one client and one adapter.
LEMMA HeadIs ==
    ASSUME TypesFit, msgs # <<>>, NEW type, NEW a, NEW c
    PROVE  IsHead(msgs, type, a, c) <=> /\ Head(msgs).type = type /\ Head(msgs).adapter = a
                                        /\ Head(msgs).client = c
<1>1. msgs \in Seq(LocationMessages)
  BY DEF TypesFit
<1>2. Head(msgs) = msgs[1] /\ 1 \in 1..Len(msgs)
  BY <1>1, Taken
<1> QED BY <1>2 DEF IsHead, At

LEMMA AddLife == TypesFit /\ Life /\ AddClient => Life'
<1> SUFFICES ASSUME TypesFit, Life, AddClient PROVE Life'
  OBVIOUS
<1> PICK a0 : a0 = Head(msgs).adapter
  OBVIOUS
<1> PICK c0 : c0 = Head(msgs).client
  OBVIOUS
<1> PICK cbs : cbs = Head(msgs).callbacks
  OBVIOUS
<1>1. /\ msgs # <<>> /\ Head(msgs).type = "add" /\ msgs' = Tail(msgs)
      /\ known' = [known EXCEPT ![a0][c0] = cbs]
      /\ object' = object /\ waitMask' = waitMask /\ wantsReport' = wantsReport
      /\ loaded' = loaded
  BY DEF AddClient, Take, api
<1>2. a0 \in Adapters /\ c0 \in Clients /\ cbs \in Callbacks
  BY <1>1, HeadTypes
<1>3. known \in [Adapters -> [Clients -> Callbacks \cup {NoCallbacks}]]
  BY DEF TypesFit, TypeOK
<1>4. MasksFit'
  BY <1>1 DEF Life, MasksFit
<1>5. ASSUME NEW c \in Clients, NEW a \in Adapters PROVE Fit(a, c)'
  <2>1. Fit(a, c)
    BY DEF Life
  <2>2. ~IsHead(msgs, "remove", a, c)
    BY <1>1, HeadIs
  <2>3. CASE ~(a = a0 /\ c = c0)
    <3>1. ~IsHead(msgs, "add", a, c)
      BY <1>1, <2>3, HeadIs
    <3>2. known'[a][c] = known[a][c]
      BY <1>1, <1>2, <1>3, <2>3
    <3>3. PICK s \in Seq(LocationMessages) : /\ msgs' = Tail(msgs) \o s
                                     /\ \A j \in 1..Len(s) : s[j].type = "capabilities"
      BY <1>1, NothingJoined
    <3> QED BY <1>1, <2>1, <2>2, <3>1, <3>2, <3>3, FitPasses
  <2>4. CASE a = a0 /\ c = c0
    <3>1. PICK k \in BOOLEAN : k = (known[a][c] # NoCallbacks)
      OBVIOUS
    <3>2. PICK w \in BOOLEAN : w = (c \in wantsReport => a \in waitMask[c])
      OBVIOUS
    <3>3. PICK t \in BOOLEAN : t <=> a \in loaded
      OBVIOUS
    <3>4. FitIn(msgs, object[c], k, w, t, a, c)
      BY ONLY <2>1, <3>1, <3>2, <3>3, FitNow
    <3>5. IsHead(msgs, "add", a, c)
      BY <1>1, <2>4, HeadIs
    <3>6. msgs \in Seq(LocationMessages)
      BY DEF TypesFit
    <3>7. FitIn(Tail(msgs), object[c], TRUE, w, t, a, c)
      BY <1>1, <3>4, <3>5, <3>6, FitTakenAdd
    <3>8. PICK q : q = msgs'
      OBVIOUS
    <3>9. FitIn(q, object'[c], TRUE, w, t, a, c)
      BY <1>1, <3>7, <3>8
    <3>10. known'[a][c] # NoCallbacks
      BY <1>1, <1>2, <1>3, <2>4, NoCallbacksIsNone
    <3>11. /\ TRUE = (known'[a][c] # NoCallbacks) /\ (t <=> a \in loaded')
           /\ w = (c \in wantsReport' => a \in waitMask'[c])
      BY <1>1, <3>2, <3>3, <3>10
    <3> QED BY <3>8, <3>9, <3>11, FitAfter
  <2> QED BY <2>3, <2>4
<1> QED BY <1>4, <1>5 DEF Life

LEMMA RequestLife == TypesFit /\ Life /\ (RequestCapabilities \/ HandleEngineUp) => Life'
<1> SUFFICES ASSUME TypesFit, Life, RequestCapabilities \/ HandleEngineUp PROVE Life'
  OBVIOUS
<1>1. /\ msgs # <<>> /\ Head(msgs).type \in {"capabilities", "up"}
      /\ object' = object /\ known' = known /\ waitMask' = waitMask
      /\ wantsReport' = wantsReport /\ loaded' = loaded
  BY DEF RequestCapabilities, HandleEngineUp, Take, api
<1>2. PICK s \in Seq(LocationMessages) : /\ msgs' = Tail(msgs) \o s
                                 /\ \A j \in 1..Len(s) : s[j].type = "capabilities"
  <2>1. CASE RequestCapabilities
    <3>1. msgs' = Tail(msgs)
      BY <2>1 DEF RequestCapabilities
    <3> QED BY <1>1, <3>1, NothingJoined
  <2>2. CASE HandleEngineUp
    <3>1. Head(msgs).adapter \in Adapters
      BY <1>1, HeadTypes
    <3>2. PICK s \in Seq(CapabilityRequests) : s = pendingMsgs[Head(msgs).adapter]
      BY <3>1 DEF TypesFit
    <3>3. s \in Seq(LocationMessages) /\ \A j \in 1..Len(s) : s[j].type = "capabilities"
      BY RequestsAreMessages
    <3>4. msgs' = Tail(msgs) \o s
      BY <2>2, <3>2 DEF HandleEngineUp
    <3> QED BY <3>3, <3>4
  <2> QED BY <2>1, <2>2
<1>3. MasksFit'
  BY <1>1 DEF Life, MasksFit
<1>4. ASSUME NEW c \in Clients, NEW a \in Adapters PROVE Fit(a, c)'
  <2>1. Fit(a, c)
    BY DEF Life
  <2>2. ~IsHead(msgs, "add", a, c) /\ ~IsHead(msgs, "remove", a, c)
    BY <1>1, HeadIs
  <2> QED BY <1>1, <1>2, <2>1, <2>2, FitPasses
<1> QED BY <1>3, <1>4 DEF Life

LEMMA RemoveLife == TypesFit /\ Life /\ RemoveClient => Life'
<1> SUFFICES ASSUME TypesFit, Life, RemoveClient PROVE Life'
  OBVIOUS
<1> PICK a0 : a0 = Head(msgs).adapter
  OBVIOUS
<1> PICK c0 : c0 = Head(msgs).client
  OBVIOUS
<1>1. /\ msgs # <<>> /\ Head(msgs).type = "remove" /\ msgs' = Tail(msgs)
      /\ known' = [known EXCEPT ![a0][c0] = NoCallbacks]
      /\ waitMask' = [waitMask EXCEPT ![c0] = LeftOfMask(c0, a0)]
      /\ IF waitMask[c0] # {} /\ waitMask'[c0] = {}
         THEN Complete(c0, c0 \in wantsReport)
         ELSE UNCHANGED <<object, reported, aborted>>
      /\ loaded' = loaded /\ wantsReport' = wantsReport
  BY DEF RemoveClient, Take
<1>2. a0 \in Adapters /\ c0 \in Clients
  BY <1>1, HeadTypes
<1>3. /\ known \in [Adapters -> [Clients -> Callbacks \cup {NoCallbacks}]]
      /\ object \in [Clients -> {"none", "alive", "destroyed", "deleted"}]
      /\ waitMask \in [Clients -> SUBSET Adapters] /\ msgs \in Seq(LocationMessages)
  BY DEF TypesFit, TypeOK
<1>4. waitMask' = [waitMask EXCEPT ![c0] = waitMask[c0] \ {a0}]
  BY <1>1 DEF LeftOfMask
<1>5. object[c0] = "destroyed"
  <2>1. Fit(a0, c0)
    BY <1>2 DEF Life
  <2>2. IsHead(msgs, "remove", a0, c0)
    BY <1>1, HeadIs
  <2>3. Named(msgs, "remove", a0, c0)
    BY <1>1, <1>3, <2>2, TakenNamed
  <2> QED BY <2>1, <2>3 DEF Fit, FitIn
<1> DEFINE Goes == waitMask[c0] # {} /\ waitMask[c0] \ {a0} = {}
<1>6. /\ Goes => object' = [object EXCEPT ![c0] = "deleted"]
      /\ ~Goes => object' = object
  <2>1. waitMask'[c0] = waitMask[c0] \ {a0}
    BY <1>2, <1>3, <1>4
  <2> QED BY <1>1, <2>1 DEF Complete
<1> HIDE DEF Goes
<1>7. MasksFit'
  <2> SUFFICES ASSUME NEW c \in Clients
               PROVE  /\ waitMask'[c] # {} => object'[c] = "destroyed" /\ c \in wantsReport'
                      /\ c \in wantsReport' => object'[c] \in {"destroyed", "deleted"}
    BY DEF MasksFit
  <2>1. CASE c # c0
    <3>1. object'[c] = object[c] /\ waitMask'[c] = waitMask[c]
      BY <1>3, <1>4, <1>6, <2>1
    <3> QED BY <1>1, <3>1 DEF Life, MasksFit
  <2>2. CASE c = c0
    <3>1. waitMask'[c] = waitMask[c] \ {a0}
      BY <1>3, <1>4, <2>2
    <3>2. object'[c] = IF Goes THEN "deleted" ELSE "destroyed"
      BY <1>3, <1>5, <1>6, <2>2
    <3>3. waitMask'[c] # {} => ~Goes /\ waitMask[c] # {}
      BY <2>2, <3>1 DEF Goes
    <3> QED BY <1>1, <3>2, <3>3 DEF Life, MasksFit
  <2> QED BY <2>1, <2>2
<1>8. ASSUME NEW c \in Clients, NEW a \in Adapters PROVE Fit(a, c)'
  <2>1. Fit(a, c)
    BY DEF Life
  <2>2. ~IsHead(msgs, "add", a, c)
    BY <1>1, HeadIs
  <2>3. CASE c # c0
    <3>1. ~IsHead(msgs, "remove", a, c)
      BY <1>1, <2>3, HeadIs
    <3>2. object'[c] = object[c] /\ waitMask'[c] = waitMask[c] /\ known'[a][c] = known[a][c]
      BY <1>1, <1>2, <1>3, <1>4, <1>6, <2>3
    <3>3. PICK s \in Seq(LocationMessages) : /\ msgs' = Tail(msgs) \o s
                                     /\ \A j \in 1..Len(s) : s[j].type = "capabilities"
      BY <1>1, NothingJoined
    <3> QED BY <1>1, <2>1, <2>2, <3>1, <3>2, <3>3, FitPasses
  <2>4. CASE c = c0
    <3>1. PICK k \in BOOLEAN : k = (known[a][c] # NoCallbacks)
      OBVIOUS
    <3>2. PICK w \in BOOLEAN : w = (c \in wantsReport => a \in waitMask[c])
      OBVIOUS
    <3>3. PICK t \in BOOLEAN : t <=> a \in loaded
      OBVIOUS
    <3>4. FitIn(msgs, "destroyed", k, w, t, a, c)
      <4>1. FitIn(msgs, object[c], k, w, t, a, c)
        BY ONLY <2>1, <3>1, <3>2, <3>3, FitNow
      <4> QED BY <1>5, <2>4, <4>1
    <3>5. PICK rest \in Seq(LocationMessages) : rest = Tail(msgs)
      BY <1>1, <1>3, Taken
    <3>6. PICK k2 \in BOOLEAN : k2 = (known'[a][c] # NoCallbacks)
      OBVIOUS
    <3>7. PICK w2 \in BOOLEAN : w2 = (c \in wantsReport' => a \in waitMask'[c])
      OBVIOUS
    <3>8. /\ FitIn(rest, "destroyed", k2, w, t, a, c)
          /\ a = a0 => ~Named(rest, "remove", a, c)
      <4>1. CASE a = a0
        <5>1. IsHead(msgs, "remove", a, c)
          BY <1>1, <2>4, <4>1, HeadIs
        <5>2. ~k2
          BY <1>1, <1>2, <1>3, <2>4, <3>6, <4>1
        <5>3. FitIn(Tail(msgs), "destroyed", k2, w, t, a, c) /\ ~Named(Tail(msgs), "remove", a, c)
          BY <1>1, <1>3, <3>4, <5>1, <5>2, FitTakenRemove
        <5> QED BY <3>5, <5>3
      <4>2. CASE a # a0
        <5>1. ~IsHead(msgs, "remove", a, c)
          BY <1>1, <4>2, HeadIs
        <5>2. FitIn(rest, "destroyed", k, w, t, a, c)
          <6>1. PICK o : o = "destroyed"
            OBVIOUS
          <6>2. FitIn(msgs, o, k, w, t, a, c)
            BY <3>4, <6>1
          <6>3. FitIn(Tail(msgs), o, k, w, t, a, c)
            BY <1>1, <1>3, <2>2, <5>1, <6>2, FitTaken
          <6> QED BY <3>5, <6>1, <6>3
        <5>3. k2 = k
          BY <1>1, <1>2, <1>3, <3>1, <3>6, <4>2
        <5> QED BY <4>2, <5>2, <5>3
      <4> QED BY <4>1, <4>2
    <3>9. PICK q : q = msgs'
      OBVIOUS
    <3>10. waitMask'[c] = waitMask[c] \ {a0}
      BY <1>3, <1>4, <2>4
    <3>11. t <=> a \in loaded'
      BY <1>1, <3>3
    <3>12. CASE Goes
      <4>1. ~Named(rest, "remove", a, c)
        <5>1. a # a0 => ~w
          <6>1. c \in wantsReport
            BY <2>4, <3>12 DEF Goes, Life, MasksFit
          <6> QED BY <2>4, <3>2, <3>12, <6>1 DEF Goes
        <5> QED BY <3>8, <5>1 DEF FitIn
      <4>2. "destroyed" \in Gone \/ ~t
        BY DEF Gone
      <4>3. FitIn(rest, "deleted", k2, w2, t, a, c)
        BY <3>8, <4>1, <4>2, FitDeleted
      <4>4. object'[c] = "deleted"
        BY <1>3, <1>6, <2>4, <3>12
      <4>5. FitIn(q, object'[c], k2, w2, t, a, c)
        BY <1>1, <3>5, <3>9, <4>3, <4>4
      <4> QED BY <3>6, <3>7, <3>9, <3>11, <4>5, FitAfter
    <3>13. CASE ~Goes
      <4>1. Named(rest, "remove", a, c) => w2
        <5>1. Named(rest, "remove", a, c) => a # a0 /\ w
          BY <3>8 DEF FitIn
        <5> QED BY <1>1, <3>2, <3>7, <3>10, <5>1
      <4>2. FitIn(rest, "destroyed", k2, w2, t, a, c)
        BY <3>8, <4>1 DEF FitIn
      <4>3. object'[c] = "destroyed"
        BY <1>5, <1>6, <2>4, <3>13
      <4>4. FitIn(q, object'[c], k2, w2, t, a, c)
        BY <1>1, <3>5, <3>9, <4>2, <4>3
      <4> QED BY <3>6, <3>7, <3>9, <3>11, <4>4, FitAfter
    <3> QED BY <3>12, <3>13
  <2> QED BY <2>3, <2>4
<1> QED BY <1>7, <1>8 DEF Life

LEMMA NextLife == TypesFit /\ Life /\ Next => Life'
BY CreateLife, UpdateLife, DestroyLife, OthersLife, AddLife, RequestLife, RemoveLife
   DEF Next, Dispatch

LEMMA StutterLife == TypesFit /\ Life /\ UNCHANGED vars => Life'
<1> SUFFICES ASSUME TypesFit, Life, UNCHANGED vars PROVE Life'
  OBVIOUS
<1>1. /\ msgs' = msgs /\ object' = object /\ known' = known /\ waitMask' = waitMask
      /\ wantsReport' = wantsReport /\ loaded' = loaded
  BY DEF vars
<1>2. MasksFit'
  BY <1>1 DEF Life, MasksFit
<1>3. ASSUME NEW c \in Clients, NEW a \in Adapters PROVE Fit(a, c)'
  <2>1. Fit(a, c)
    BY DEF Life
  <2> QED BY ONLY <1>1, <2>1 DEF Fit, FitIn, Knows, Awaited, Forgets, Once, Named, At
<1> QED BY <1>2, <1>3 DEF Life

LEMMA LivesAlways == Spec => [](TypesFit /\ Life)
<1>1. Init => TypesFit /\ Life
  BY InitTypes, InitLife
<1>2. TypesFit /\ Life /\ [Next]_vars => TypesFit' /\ Life'
  <2>1. TypesFit /\ Life => MasksFit
    BY DEF Life
  <2> QED BY <2>1, NextTypes, StutterTypes, NextLife, StutterLife
<1> QED BY <1>1, <1>2, PTL DEF Spec

\* LocationAPI's maps hold what they should, and the references to the framework's instance
\* never outnumber the clients, in any sequence of calls (LocationAPI.cpp).
THEOREM LocationAPITypes == Spec => []TypeOK
<1>1. TypesFit => TypeOK
  BY DEF TypesFit
<1> QED BY <1>1, LivesAlways, PTL

LEMMA NothingDanglesNow == TypesFit /\ Life => NothingDangles
<1> SUFFICES ASSUME TypesFit, Life, NEW c \in Clients, object[c] = "deleted"
             PROVE  /\ \A a \in Adapters : known[a][c] = NoCallbacks
                    /\ \A k \in 1..Len(msgs) : msgs[k].type # "up" => msgs[k].client # c
                                                   \/ msgs[k].type = "capabilities"
  BY DEF NothingDangles
<1>1. \A a \in Adapters : Fit(a, c)
  BY DEF Life
<1>2. ASSUME NEW a \in Adapters
      PROVE  /\ known[a][c] = NoCallbacks
             /\ ~Named(msgs, "remove", a, c) /\ ~Named(msgs, "add", a, c)
  <2>1. Fit(a, c)
    BY <1>1
  <2>2. ~Named(msgs, "remove", a, c)
    BY <2>1 DEF Fit, FitIn
  <2>3. Forgets(msgs, Knows(a, c), a, c)
    BY <2>1 DEF Fit, FitIn, Gone
  <2>4. ~Knows(a, c)
    BY <2>2, <2>3 DEF Forgets
  <2>5. ~Named(msgs, "add", a, c)
    BY <2>2, <2>3 DEF Forgets, Named
  <2> QED BY <2>2, <2>4, <2>5 DEF Knows
<1>3. ASSUME NEW k \in 1..Len(msgs), msgs[k].type # "up", msgs[k].client = c,
             msgs[k].type # "capabilities"
      PROVE  FALSE
  <2>1. msgs[k] \in LocationMessages
    BY DEF TypesFit
  <2>2. msgs[k].type \in {"add", "remove"} /\ msgs[k].adapter \in Adapters
    BY <1>3, <2>1 DEF LocationMessages, CapabilityRequests
  <2>3. At(msgs, k, msgs[k].type, msgs[k].adapter, c)
    BY <1>3 DEF At
  <2>4. Named(msgs, msgs[k].type, msgs[k].adapter, c)
    BY <2>3 DEF Named
  <2> QED BY <1>2, <2>2, <2>4
<1> QED BY <1>2, <1>3

LEMMA DestroyedAreForgottenNow == TypesFit /\ Life => DestroyedAreForgotten
<1> SUFFICES ASSUME TypesFit, Life, msgs = <<>>, NEW c \in Clients,
                    object[c] \in {"destroyed", "deleted"}, NEW a \in Adapters
             PROVE  known[a][c] = NoCallbacks
  BY DEF DestroyedAreForgotten, Rest
<1>1. Fit(a, c)
  BY DEF Life
<1>2. Forgets(msgs, Knows(a, c), a, c)
  BY <1>1 DEF Fit, FitIn, Gone
<1>3. Len(msgs) = 0
  OBVIOUS
<1>4. ~Named(msgs, "remove", a, c)
  BY <1>3 DEF Named
<1> QED BY <1>2, <1>4 DEF Forgets, Knows

\* No adapter, and no message to one, goes on with a client that was deleted, at rest none
\* knows a client that was destroyed, and the framework's instance lives as long as a client
\* (destroy, onRemoveClientCompleteCb, gOSFrameworkRefCount).
THEOREM LocationAPIForgets == Spec => []TheGoneAreForgotten
<1>1. TypesFit => FrameworkLives
  BY DEF TypesFit, Counted, Living, FrameworkLives
<1>2. TypesFit /\ Life => TheGoneAreForgotten
  BY <1>1, NothingDanglesNow, DestroyedAreForgottenNow DEF TheGoneAreForgotten
<1> QED BY <1>2, LivesAlways, PTL

-----------------------------------------------------------------------------
(* The callbacks and the capabilities reach the client                      *)

HearsOf(a, c) == Hears(msgs, known[a][c], clientData[c], a, c)
AsksOf(a, c) == Asks(msgs, Knows(a, c), a, c)

\* The adapters a live client wants were all tried, and those that are there have its
\* callbacks or will.
Newest(c) ==
    object[c] = "alive" =>
        /\ clientData[c] \in Callbacks
        /\ clientData[c].wants \subseteq loaded \cup failed
        /\ \A a \in clientData[c].wants \cap loaded : HearsOf(a, c)

\* A client that asked was told, or its request is on its way, or an adapter that knows it
\* will be told by the engine.
Promised(c) ==
    c \in asked =>
        /\ object[c] # "none"
        /\ object[c] = "alive" /\ c \notin told =>
               \E a \in loaded : AsksOf(a, c) \/ (a \notin capable /\ Knows(a, c))

Served == \A c \in Clients : Newest(c) /\ Promised(c)

LEMMA HearsAfter ==
    ASSUME NEW a, NEW c, NEW q, NEW b, NEW cbs, q = msgs', b = known'[a][c],
           cbs = clientData'[c], Hears(q, b, cbs, a, c)
    PROVE  HearsOf(a, c)'
BY ZenonT(60) DEF HearsOf, Hears, At

LEMMA AsksAfter ==
    ASSUME NEW a, NEW c, NEW q, NEW k \in BOOLEAN, q = msgs',
           k = (known'[a][c] # NoCallbacks), Asks(q, k, a, c)
    PROVE  AsksOf(a, c)'
BY ZenonT(60) DEF AsksOf, Asks, Knows, At

\* A request behind the addition reaches an adapter that knows the client.
LEMMA AsksBehind ==
    ASSUME NEW q \in Seq(LocationMessages), NEW s \in Seq(LocationMessages), NEW k \in BOOLEAN, NEW a, NEW c,
           Asks(s, FALSE, a, c)
    PROVE  Asks(q \o s, k, a, c)
<1>1. PICK i \in 1..Len(s) : /\ At(s, i, "capabilities", a, c)
                             /\ \E j \in 1..Len(s) : j < i /\ At(s, j, "add", a, c)
  BY DEF Asks
<1>2. PICK j \in 1..Len(s) : j < i /\ At(s, j, "add", a, c)
  BY <1>1
<1>3. ASSUME NEW n \in 1..Len(s), NEW type, At(s, n, type, a, c)
      PROVE  Len(q) + n \in 1..Len(q \o s) /\ At(q \o s, Len(q) + n, type, a, c)
  <2>1. Len(q) + n \in Int /\ (Len(q) + n) - Len(q) = n
    OBVIOUS
  <2>2. At(q \o s, Len(q) + n, type, a, c)
    BY <1>3, <2>1, JoinedAt
  <2> QED BY <2>2 DEF At
<1>4. /\ Len(q) + i \in 1..Len(q \o s) /\ At(q \o s, Len(q) + i, "capabilities", a, c)
      /\ Len(q) + j \in 1..Len(q \o s) /\ At(q \o s, Len(q) + j, "add", a, c)
  BY <1>1, <1>2, <1>3
<1>5. Len(q) + j < Len(q) + i
  BY <1>2
<1> QED BY <1>4, <1>5 DEF Asks

LEMMA InitServed == Init => Served
BY DEF Init, Served, Newest, Promised

\* A call that tells no adapter of c, and leaves c as it was or ends it.
LEMMA ServedStays ==
    ASSUME TypesFit, NEW c \in Clients, Newest(c), Promised(c),
           NEW s \in Seq(LocationMessages), msgs' = msgs \o s,
           \A a \in Adapters : ~Named(s, "add", a, c),
           object'[c] = object[c] \/ object'[c] \in Gone,
           clientData'[c] = clientData[c] \/ object'[c] \in Gone,
           known' = known, capable' = capable, told' = told,
           c \in asked' <=> c \in asked,
           loaded \subseteq loaded', failed \subseteq failed',
           loaded' \subseteq Adapters, failed' \subseteq Adapters \ loaded'
    PROVE  Newest(c)' /\ Promised(c)'
<1>1. msgs \in Seq(LocationMessages)
  BY DEF TypesFit
<1>2. PICK q : q = msgs'
  OBVIOUS
<1>3. Newest(c)'
  <2> SUFFICES ASSUME object'[c] = "alive"
               PROVE  /\ clientData'[c] \in Callbacks
                      /\ clientData'[c].wants \subseteq loaded' \cup failed'
                      /\ \A a \in clientData'[c].wants \cap loaded' : HearsOf(a, c)'
    BY DEF Newest
  <2>1. object[c] = "alive" /\ clientData'[c] = clientData[c]
    BY DEF Gone
  <2>2. /\ clientData[c] \in Callbacks /\ clientData[c].wants \subseteq loaded \cup failed
        /\ \A a \in clientData[c].wants \cap loaded : HearsOf(a, c)
    BY <2>1 DEF Newest
  <2>3. ASSUME NEW a \in clientData'[c].wants \cap loaded' PROVE HearsOf(a, c)'
    <3>1. a \in clientData[c].wants \cap loaded /\ a \in Adapters
      BY <2>1, <2>2, <2>3
    <3>2. PICK b : b = known[a][c]
      OBVIOUS
    <3>3. PICK cbs : cbs = clientData[c]
      OBVIOUS
    <3>4. Hears(msgs, b, cbs, a, c)
      BY <2>2, <3>1, <3>2, <3>3 DEF HearsOf
    <3>5. ~Named(s, "add", a, c)
      BY <3>1
    <3>6. Hears(msgs \o s, b, cbs, a, c)
      BY <1>1, <3>4, <3>5, JoinedHears
    <3>7. Hears(q, b, cbs, a, c)
      BY <1>2, <3>6
    <3>8. b = known'[a][c] /\ cbs = clientData'[c]
      BY <2>1, <3>2, <3>3
    <3> QED BY <1>2, <3>7, <3>8, HearsAfter
  <2> QED BY <2>1, <2>2, <2>3
<1>4. Promised(c)'
  <2> SUFFICES ASSUME c \in asked'
               PROVE  /\ object'[c] # "none"
                      /\ object'[c] = "alive" /\ c \notin told' =>
                            \E a \in loaded' : AsksOf(a, c)' \/ (a \notin capable' /\ Knows(a, c)')
    BY DEF Promised
  <2>1. object'[c] # "none"
    BY DEF Promised, Gone
  <2>2. ASSUME object'[c] = "alive", c \notin told'
        PROVE  \E a \in loaded' : AsksOf(a, c)' \/ (a \notin capable' /\ Knows(a, c)')
    <3>1. object[c] = "alive"
      BY <2>2 DEF Gone
    <3>2. PICK a \in loaded : AsksOf(a, c) \/ (a \notin capable /\ Knows(a, c))
      BY <2>2, <3>1 DEF Promised
    <3>3. ASSUME AsksOf(a, c) PROVE AsksOf(a, c)'
      <4>1. PICK k \in BOOLEAN : k = (known[a][c] # NoCallbacks)
        OBVIOUS
      <4>2. Asks(msgs, k, a, c)
        BY <3>3, <4>1 DEF AsksOf, Knows
      <4>3. Asks(msgs \o s, k, a, c)
        BY <1>1, <4>2, JoinedAsks
      <4>4. Asks(q, k, a, c) /\ k = (known'[a][c] # NoCallbacks)
        BY <1>2, <4>1, <4>3
      <4> QED BY <1>2, <4>4, AsksAfter
    <3>4. Knows(a, c)' <=> Knows(a, c)
      BY DEF Knows
    <3> QED BY <3>2, <3>3, <3>4
  <2> QED BY <2>1, <2>2
<1> QED BY <1>3, <1>4

\* A call that tells every adapter c wants, of those there, its newest callbacks.
LEMMA TellingServes ==
    ASSUME TypesFit, NEW c \in Clients, NEW cbs \in Callbacks, clientData'[c] = cbs,
           NEW s \in Seq(LocationMessages), msgs' = msgs \o s,
           \A a \in cbs.wants \cap loaded' : Named(s, "add", a, c),
           \A j \in 1..Len(s) : s[j].callbacks = cbs,
           cbs.wants \subseteq loaded' \cup failed'
    PROVE  Newest(c)'
<1>1. msgs \in Seq(LocationMessages)
  BY DEF TypesFit
<1>2. PICK q : q = msgs'
  OBVIOUS
<1>3. ASSUME NEW a \in cbs.wants \cap loaded' PROVE HearsOf(a, c)'
  <2>1. PICK b : b = known'[a][c]
    OBVIOUS
  <2>2. Named(s, "add", a, c)
    BY <1>3
  <2>3. Hears(msgs \o s, b, cbs, a, c)
    BY <1>1, <2>2, ToldHears
  <2>4. Hears(q, b, cbs, a, c)
    BY <1>2, <2>3
  <2> QED BY <1>2, <2>1, <2>4, HearsAfter
<1> QED BY <1>3 DEF Newest

LEMMA CreateServed == TypesFit /\ Served /\ CreateInstance => Served'
<1> SUFFICES ASSUME TypesFit, Served, CreateInstance PROVE Served'
  OBVIOUS
<1>1. PICK c0 \in Clients, wants \in SUBSET Adapters :
          LET cbs == [wants |-> wants, version |-> used.updates]
          IN  /\ object[c0] = "none"
              /\ object' = [object EXCEPT ![c0] = "alive"]
              /\ Load(wants)
              /\ msgs' = msgs \o Added(wants \cap loaded', c0, cbs)
              /\ asked' = IF wants \cap loaded' = {} THEN asked ELSE asked \cup {c0}
              /\ clientData' = [clientData EXCEPT ![c0] = cbs]
              /\ UNCHANGED adapterSide
  BY DEF CreateInstance
<1>2. PICK cbs : cbs = [wants |-> wants, version |-> used.updates]
  OBVIOUS
<1>3. cbs \in Callbacks /\ cbs.wants = wants
  BY <1>2 DEF Callbacks, TypesFit
<1>4. /\ loaded \subseteq loaded' /\ loaded' \subseteq Adapters /\ failed \subseteq failed'
      /\ failed' \subseteq Adapters \ loaded' /\ wants \subseteq loaded' \cup failed'
  BY <1>1, LoadTypes
<1>5. PICK some \in SUBSET Adapters : some = wants \cap loaded'
  BY <1>4
<1>6. PICK s : s = Added(some, c0, cbs)
  OBVIOUS
<1>7. /\ Tells(s, {"add", "capabilities"}, some, c0, cbs)
      /\ \A a \in some : Named(s, "add", a, c0)
      /\ some # {} => \E a \in some : Asks(s, FALSE, a, c0)
  BY <1>3, <1>6, AllAreTold
<1>8. s \in Seq(LocationMessages) /\ msgs' = msgs \o s /\ \A j \in 1..Len(s) : s[j].callbacks = cbs
  BY <1>1, <1>2, <1>5, <1>6, <1>7 DEF Tells
<1>9. /\ known' = known /\ capable' = capable /\ told' = told
      /\ object \in [Clients -> {"none", "alive", "destroyed", "deleted"}]
      /\ clientData \in [Clients -> Callbacks \cup {NoCallbacks}]
      /\ clientData' = [clientData EXCEPT ![c0] = cbs] /\ msgs \in Seq(LocationMessages)
  BY <1>1, <1>2 DEF adapterSide, TypesFit, TypeOK
<1>10. ASSUME NEW c \in Clients, c # c0 PROVE Newest(c)' /\ Promised(c)'
  <2>1. Newest(c) /\ Promised(c)
    BY DEF Served
  <2>2. \A a \in Adapters : ~Named(s, "add", a, c)
    BY <1>7, <1>10, TellsOthersNothing
  <2>3. object'[c] = object[c] /\ clientData'[c] = clientData[c] /\ (c \in asked' <=> c \in asked)
    BY <1>1, <1>9, <1>10
  <2> QED BY <1>4, <1>8, <1>9, <2>1, <2>2, <2>3, ServedStays
<1>11. Newest(c0)'
  <2>1. clientData'[c0] = cbs
    BY <1>9
  <2>2. \A a \in cbs.wants \cap loaded' : Named(s, "add", a, c0)
    BY <1>3, <1>5, <1>7
  <2> QED BY <1>3, <1>4, <1>8, <2>1, <2>2, TellingServes
<1>12. Promised(c0)'
  <2> SUFFICES ASSUME c0 \in asked'
               PROVE  /\ object'[c0] # "none"
                      /\ \E a \in loaded' : AsksOf(a, c0)'
    BY DEF Promised
  <2>1. object'[c0] # "none" /\ c0 \notin asked
    BY <1>1, <1>9 DEF Served, Promised
  <2>2. some # {}
    BY <1>1, <1>5, <2>1
  <2>3. PICK a \in some : Asks(s, FALSE, a, c0)
    BY <1>7, <2>2
  <2>4. PICK k \in BOOLEAN : k = (known'[a][c0] # NoCallbacks)
    OBVIOUS
  <2>5. PICK q : q = msgs'
    OBVIOUS
  <2>6. Asks(msgs \o s, k, a, c0)
    BY <1>8, <1>9, <2>3, AsksBehind
  <2>7. Asks(q, k, a, c0)
    BY <1>8, <2>5, <2>6
  <2>8. AsksOf(a, c0)'
    BY <2>4, <2>5, <2>7, AsksAfter
  <2> QED BY <1>5, <2>1, <2>8
<1> QED BY <1>10, <1>11, <1>12 DEF Served

LEMMA UpdateServed == TypesFit /\ Served /\ UpdateCallbacks => Served'
<1> SUFFICES ASSUME TypesFit, Served, UpdateCallbacks PROVE Served'
  OBVIOUS
<1>1. PICK c0 \in Clients, wants \in SUBSET Adapters :
          LET cbs == [wants |-> wants, version |-> used.updates + 1]
          IN  /\ object[c0] = "alive" /\ used.updates < MaxUpdates
              /\ Load(wants)
              /\ msgs' = msgs \o ToEach(Updated(c0, wants), "add", c0, cbs)
              /\ clientData' = [clientData EXCEPT ![c0] = cbs]
              /\ UNCHANGED <<object, adapterSide, asked>>
  BY DEF UpdateCallbacks
<1>2. PICK cbs : cbs = [wants |-> wants, version |-> used.updates + 1]
  OBVIOUS
<1>3. cbs \in Callbacks /\ cbs.wants = wants
  <2>1. used.updates \in 0..MaxUpdates /\ MaxUpdates \in Nat
    BY LocationAPIAssumption DEF TypesFit
  <2>2. used.updates + 1 \in 0..MaxUpdates
    BY <1>1, <2>1
  <2> QED BY <1>2, <2>2 DEF Callbacks
<1>4. /\ loaded \subseteq loaded' /\ loaded' \subseteq Adapters /\ failed \subseteq failed'
      /\ failed' \subseteq Adapters \ loaded' /\ wants \subseteq loaded' \cup failed'
  BY <1>1, LoadTypes
<1>5. PICK some \in SUBSET Adapters : some = wants \cap loaded' /\ some = Updated(c0, wants)
  BY <1>4 DEF Updated
<1>6. PICK s : s = ToEach(some, "add", c0, cbs)
  OBVIOUS
<1>7. Tells(s, {"add"}, some, c0, cbs) /\ \A a \in some : Named(s, "add", a, c0)
  BY <1>3, <1>6, EachAdds
<1>8. s \in Seq(LocationMessages) /\ msgs' = msgs \o s /\ \A j \in 1..Len(s) : s[j].callbacks = cbs
  BY <1>1, <1>2, <1>5, <1>6, <1>7 DEF Tells
<1>9. /\ known' = known /\ capable' = capable /\ told' = told /\ object' = object /\ asked' = asked
      /\ clientData \in [Clients -> Callbacks \cup {NoCallbacks}]
      /\ clientData' = [clientData EXCEPT ![c0] = cbs]
  BY <1>1, <1>2 DEF adapterSide, TypesFit, TypeOK
<1>10. ASSUME NEW c \in Clients, c # c0 PROVE Newest(c)' /\ Promised(c)'
  <2>1. Newest(c) /\ Promised(c)
    BY DEF Served
  <2>2. \A a \in Adapters : ~Named(s, "add", a, c)
    BY <1>7, <1>10, TellsOthersNothing
  <2>3. object'[c] = object[c] /\ clientData'[c] = clientData[c] /\ (c \in asked' <=> c \in asked)
    BY <1>9, <1>10
  <2> QED BY <1>4, <1>8, <1>9, <2>1, <2>2, <2>3, ServedStays
<1>11. Newest(c0)'
  <2>1. clientData'[c0] = cbs
    BY <1>9
  <2>2. \A a \in cbs.wants \cap loaded' : Named(s, "add", a, c0)
    BY <1>3, <1>5, <1>7
  <2> QED BY <1>3, <1>4, <1>8, <2>1, <2>2, TellingServes
<1>12. Promised(c0)'
  <2> SUFFICES ASSUME c0 \in asked, c0 \notin told
               PROVE  \E a \in loaded' : AsksOf(a, c0)' \/ (a \notin capable /\ Knows(a, c0))
    BY <1>1, <1>9 DEF Promised, Knows
  <2>1. Promised(c0)
    BY DEF Served
  <2>2. PICK a \in loaded : AsksOf(a, c0) \/ (a \notin capable /\ Knows(a, c0))
    BY <1>1, <2>1 DEF Promised
  <2>3. ASSUME AsksOf(a, c0) PROVE AsksOf(a, c0)'
    <3>1. PICK k \in BOOLEAN : k = (known[a][c0] # NoCallbacks)
      OBVIOUS
    <3>2. PICK q : q = msgs'
      OBVIOUS
    <3>3. Asks(msgs, k, a, c0) /\ msgs \in Seq(LocationMessages)
      BY <2>3, <3>1 DEF AsksOf, Knows, TypesFit
    <3>4. Asks(msgs \o s, k, a, c0)
      BY <1>8, <3>3, JoinedAsks
    <3>5. Asks(q, k, a, c0) /\ k = (known'[a][c0] # NoCallbacks)
      BY <1>8, <1>9, <3>1, <3>2, <3>4
    <3> QED BY <3>2, <3>5, AsksAfter
  <2> QED BY <1>4, <2>2, <2>3
<1> QED BY <1>10, <1>11, <1>12 DEF Served

LEMMA DestroyServed == TypesFit /\ Served /\ Destroy => Served'
<1> SUFFICES ASSUME TypesFit, Served, Destroy PROVE Served'
  OBVIOUS
<1>1. PICK c0 \in Clients :
          /\ \E o \in Gone : object' = [object EXCEPT ![c0] = o]
          /\ msgs' = msgs \o ToEach(ToForget(c0), "remove", c0, NoCallbacks)
          /\ clientData' = [clientData EXCEPT ![c0] = NoCallbacks]
          /\ UNCHANGED <<loaded, failed, adapterSide, asked>>
  BY DEF Destroy, Complete, Gone
<1>2. PICK some \in SUBSET Adapters : some = ToForget(c0)
  BY DEF ToForget, TypesFit, TypeOK
<1>3. PICK s : s = ToEach(some, "remove", c0, NoCallbacks)
  OBVIOUS
<1>4. Tells(s, {"remove"}, some, c0, NoCallbacks)
  BY <1>3, EachRemoves
<1>5. s \in Seq(LocationMessages) /\ msgs' = msgs \o s
  BY <1>1, <1>2, <1>3, <1>4 DEF Tells
<1>6. /\ known' = known /\ capable' = capable /\ told' = told /\ asked' = asked
      /\ loaded' = loaded /\ failed' = failed
      /\ loaded \subseteq Adapters /\ failed \subseteq Adapters \ loaded
      /\ object \in [Clients -> {"none", "alive", "destroyed", "deleted"}]
      /\ clientData \in [Clients -> Callbacks \cup {NoCallbacks}]
  BY <1>1 DEF adapterSide, TypesFit, TypeOK
<1>7. ASSUME NEW c \in Clients PROVE Newest(c)' /\ Promised(c)'
  <2>1. Newest(c) /\ Promised(c)
    BY DEF Served
  <2>2. \A a \in Adapters : ~Named(s, "add", a, c)
    <3>1. "add" \notin {"remove"}
      OBVIOUS
    <3> QED BY <1>4, <3>1, TellsOthersNothing
  <2>3. /\ object'[c] = object[c] \/ object'[c] \in Gone
        /\ clientData'[c] = clientData[c] \/ object'[c] \in Gone
    BY <1>1, <1>6
  <2> QED BY <1>5, <1>6, <2>1, <2>2, <2>3, ServedStays
<1> QED BY <1>7 DEF Served

LEMMA OthersServed ==
    TypesFit /\ Life /\ Served /\ (CreateControl \/ DestroyControl \/ EngineUp) => Served'
<1> SUFFICES ASSUME TypesFit, Life, Served, CreateControl \/ DestroyControl \/ EngineUp
             PROVE  Served'
  OBVIOUS
<1>1. PICK s \in Seq(LocationMessages) : msgs' = msgs \o s /\ \A k \in 1..Len(s) : s[k].type = "up"
  BY MoreUps
<1>2. /\ loaded \subseteq loaded' /\ loaded' \subseteq Adapters /\ failed \subseteq failed'
      /\ failed' \subseteq Adapters \ loaded'
  <2>1. CASE CreateControl
    BY <2>1, LocationAPIAssumption, LoadTypes DEF CreateControl
  <2> QED BY <2>1 DEF DestroyControl, EngineUp, api, TypesFit, TypeOK
<1>3. /\ object' = object /\ known' = known /\ clientData' = clientData
      /\ capable' = capable /\ told' = told /\ asked' = asked
  BY DEF CreateControl, DestroyControl, EngineUp, api, adapterSide
<1>4. ASSUME NEW c \in Clients PROVE Newest(c)' /\ Promised(c)'
  <2>1. Newest(c) /\ Promised(c)
    BY DEF Served
  <2>2. \A a \in Adapters : ~Named(s, "add", a, c)
    BY <1>1 DEF Named, At
  <2> QED BY <1>1, <1>2, <1>3, <2>1, <2>2, ServedStays
<1> QED BY <1>4 DEF Served

\* The thread takes a message, and perhaps sends requests again: the head is heard, and
\* a request that is answered or put off keeps its promise.
LEMMA ServedTaken ==
    ASSUME TypesFit, NEW c \in Clients, Newest(c), Promised(c), msgs # <<>>,
           NEW s \in Seq(LocationMessages), msgs' = Tail(msgs) \o s,
           \A j \in 1..Len(s) : s[j].type = "capabilities",
           object'[c] = object[c] \/ object'[c] \in Gone,
           clientData' = clientData, loaded' = loaded, failed' = failed, asked' = asked,
           told \subseteq told',
           object[c] = "alive" =>
               \A a \in Adapters :
                   /\ IsHead(msgs, "add", a, c) => known'[a][c] = Head(msgs).callbacks
                                                   /\ Head(msgs).callbacks # NoCallbacks
                   /\ ~IsHead(msgs, "add", a, c) => known'[a][c] = known[a][c]
                   /\ Knows(a, c) /\ (a \notin capable \/ IsHead(msgs, "capabilities", a, c))
                          => a \notin capable' \/ c \in told'
    PROVE  Newest(c)' /\ Promised(c)'
<1>1. msgs \in Seq(LocationMessages)
  BY DEF TypesFit
<1>2. PICK rest \in Seq(LocationMessages) : rest = Tail(msgs)
  BY <1>1, Taken
<1>3. PICK q : q = msgs'
  OBVIOUS
<1>4. q = rest \o s
  BY <1>2, <1>3
<1>5. loaded \subseteq Adapters
  BY DEF TypesFit, TypeOK
<1>6. Newest(c)'
  <2> SUFFICES ASSUME object[c] = "alive"
               PROVE  /\ clientData[c] \in Callbacks
                      /\ clientData[c].wants \subseteq loaded \cup failed
                      /\ \A a \in clientData[c].wants \cap loaded : HearsOf(a, c)'
    BY DEF Newest, Gone
  <2>1. ASSUME NEW a \in clientData[c].wants \cap loaded PROVE HearsOf(a, c)'
    <3>1. PICK b : b = known[a][c]
      OBVIOUS
    <3>2. PICK b2 : b2 = known'[a][c]
      OBVIOUS
    <3>3. PICK cbs : cbs = clientData[c]
      OBVIOUS
    <3>4. Hears(msgs, b, cbs, a, c)
      BY <2>1, <3>1, <3>3 DEF Newest, HearsOf
    <3>5. Hears(rest, b2, cbs, a, c)
      <4>1. CASE IsHead(msgs, "add", a, c)
        <5>1. Hears(Tail(msgs), Head(msgs).callbacks, cbs, a, c)
          BY <1>1, <3>4, <4>1, TakenHears
        <5>2. b2 = Head(msgs).callbacks
          BY <1>5, <2>1, <3>2, <4>1
        <5> QED BY <1>2, <5>1, <5>2
      <4>2. CASE ~IsHead(msgs, "add", a, c)
        <5>1. Hears(Tail(msgs), b, cbs, a, c)
          BY <1>1, <3>4, <4>2, TakenHears
        <5>2. b2 = b
          BY <1>5, <2>1, <3>1, <3>2, <4>2
        <5> QED BY <1>2, <5>1, <5>2
      <4> QED BY <4>1, <4>2
    <3>6. ~Named(s, "add", a, c)
      BY DEF Named, At
    <3>7. Hears(rest \o s, b2, cbs, a, c)
      BY <3>5, <3>6, JoinedHears
    <3>8. Hears(q, b2, cbs, a, c) /\ cbs = clientData'[c]
      BY <1>4, <3>3, <3>7
    <3> QED BY <1>3, <3>2, <3>8, HearsAfter
  <2> QED BY <2>1 DEF Newest
<1>7. Promised(c)'
  <2> SUFFICES ASSUME c \in asked
               PROVE  /\ object'[c] # "none"
                      /\ object[c] = "alive" /\ c \notin told' =>
                            \E a \in loaded : AsksOf(a, c)' \/ (a \notin capable' /\ Knows(a, c)')
    BY DEF Promised, Gone
  <2>1. object'[c] # "none"
    BY DEF Promised, Gone
  <2>2. ASSUME object[c] = "alive", c \notin told'
        PROVE  \E a \in loaded : AsksOf(a, c)' \/ (a \notin capable' /\ Knows(a, c)')
    <3>1. PICK a \in loaded : AsksOf(a, c) \/ (a \notin capable /\ Knows(a, c))
      BY <2>2 DEF Promised
    <3>2. /\ IsHead(msgs, "add", a, c) => Knows(a, c)'
          /\ ~IsHead(msgs, "add", a, c) => (Knows(a, c)' <=> Knows(a, c))
          /\ Knows(a, c) /\ (a \notin capable \/ IsHead(msgs, "capabilities", a, c))
                => a \notin capable'
      BY <1>5, <2>2, <3>1 DEF Knows
    <3>3. CASE a \notin capable /\ Knows(a, c)
      BY <3>1, <3>2, <3>3
    <3>4. CASE AsksOf(a, c)
      <4>1. PICK k \in BOOLEAN : k = (known[a][c] # NoCallbacks)
        OBVIOUS
      <4>2. PICK k2 \in BOOLEAN : k2 = (known'[a][c] # NoCallbacks)
        OBVIOUS
      <4>3. Asks(msgs, k, a, c)
        BY <3>4, <4>1 DEF AsksOf, Knows
      <4>4. \/ IsHead(msgs, "capabilities", a, c) /\ k
            \/ Asks(Tail(msgs), k, a, c)
            \/ IsHead(msgs, "add", a, c) /\ Asks(Tail(msgs), TRUE, a, c)
        BY <1>1, <4>3, TakenAsks
      <4>5. CASE IsHead(msgs, "capabilities", a, c) /\ k
        <5>1. ~IsHead(msgs, "add", a, c)
          BY <4>5 DEF IsHead, At
        <5> QED BY <3>1, <3>2, <4>1, <4>5, <5>1 DEF Knows
      <4>6. ASSUME Asks(Tail(msgs), k2, a, c) PROVE AsksOf(a, c)'
        <5>1. Asks(rest, k2, a, c)
          BY <1>2, <4>6
        <5>2. Asks(rest \o s, k2, a, c)
          BY <5>1, JoinedAsks
        <5>3. Asks(q, k2, a, c)
          BY <1>4, <5>2
        <5> QED BY <1>3, <4>2, <5>3, AsksAfter
      <4>7. k => k2
        BY <3>2, <4>1, <4>2 DEF Knows
      <4>8. CASE Asks(Tail(msgs), k, a, c)
        <5>1. Asks(Tail(msgs), k2, a, c)
          BY <4>7, <4>8 DEF Asks
        <5> QED BY <3>1, <4>6, <5>1
      <4>9. CASE IsHead(msgs, "add", a, c) /\ Asks(Tail(msgs), TRUE, a, c)
        <5>1. k2 = TRUE
          BY <3>2, <4>2, <4>9 DEF Knows
        <5>2. Asks(Tail(msgs), k2, a, c)
          BY <4>9, <5>1
        <5> QED BY <3>1, <4>6, <5>2
      <4> QED BY <4>4, <4>5, <4>8, <4>9
    <3> QED BY <3>1, <3>3, <3>4
  <2> QED BY <2>1, <2>2
<1> QED BY <1>6, <1>7

\* Who is being removed was destroyed.
LEMMA RemovedIsDestroyed ==
    ASSUME TypesFit, Life, msgs # <<>>, Head(msgs).type = "remove"
    PROVE  object[Head(msgs).client] = "destroyed"
<1> PICK a : a = Head(msgs).adapter
  OBVIOUS
<1> PICK c : c = Head(msgs).client
  OBVIOUS
<1>1. a \in Adapters /\ c \in Clients
  BY HeadTypes
<1>2. Fit(a, c)
  BY <1>1 DEF Life
<1>3. IsHead(msgs, "remove", a, c)
  BY HeadIs
<1>4. Named(msgs, "remove", a, c)
  BY <1>3, TakenNamed DEF TypesFit
<1> QED BY <1>2, <1>4 DEF Fit, FitIn

LEMMA AddServed == TypesFit /\ Life /\ Served /\ AddClient => Served'
<1> SUFFICES ASSUME TypesFit, Life, Served, AddClient PROVE Served'
  OBVIOUS
<1> PICK a0 : a0 = Head(msgs).adapter
  OBVIOUS
<1> PICK c0 : c0 = Head(msgs).client
  OBVIOUS
<1> PICK cbs : cbs = Head(msgs).callbacks
  OBVIOUS
<1>1. /\ msgs # <<>> /\ Head(msgs).type = "add" /\ msgs' = Tail(msgs)
      /\ known' = [known EXCEPT ![a0][c0] = cbs]
      /\ object' = object /\ clientData' = clientData /\ loaded' = loaded
      /\ failed' = failed /\ asked' = asked /\ told' = told /\ capable' = capable
  BY DEF AddClient, Take, api
<1>2. a0 \in Adapters /\ c0 \in Clients /\ cbs \in Callbacks
  BY <1>1, HeadTypes
<1>3. known \in [Adapters -> [Clients -> Callbacks \cup {NoCallbacks}]]
  BY DEF TypesFit, TypeOK
<1>4. PICK s \in Seq(LocationMessages) : /\ msgs' = Tail(msgs) \o s
                                 /\ \A j \in 1..Len(s) : s[j].type = "capabilities"
  BY <1>1, NothingJoined
<1>5. ASSUME NEW c \in Clients PROVE Newest(c)' /\ Promised(c)'
  <2>1. Newest(c) /\ Promised(c)
    BY DEF Served
  <2>2. ASSUME NEW a \in Adapters
        PROVE  /\ IsHead(msgs, "add", a, c) => known'[a][c] = Head(msgs).callbacks
                                               /\ Head(msgs).callbacks # NoCallbacks
               /\ ~IsHead(msgs, "add", a, c) => known'[a][c] = known[a][c]
               /\ ~IsHead(msgs, "capabilities", a, c)
    <3>1. IsHead(msgs, "add", a, c) <=> a0 = a /\ c0 = c
      BY <1>1, HeadIs
    <3>2. ~IsHead(msgs, "capabilities", a, c)
      BY <1>1, HeadIs
    <3>3. known'[a][c] = IF a0 = a /\ c0 = c THEN cbs ELSE known[a][c]
      BY <1>1, <1>2, <1>3
    <3> QED BY <1>2, <3>1, <3>2, <3>3, NoCallbacksIsNone
  <2> QED BY <1>1, <1>4, <2>1, <2>2, ServedTaken
<1> QED BY <1>5 DEF Served

LEMMA RemoveServed == TypesFit /\ Life /\ Served /\ RemoveClient => Served'
<1> SUFFICES ASSUME TypesFit, Life, Served, RemoveClient PROVE Served'
  OBVIOUS
<1> PICK a0 : a0 = Head(msgs).adapter
  OBVIOUS
<1> PICK c0 : c0 = Head(msgs).client
  OBVIOUS
<1>1. /\ msgs # <<>> /\ Head(msgs).type = "remove" /\ msgs' = Tail(msgs)
      /\ known' = [known EXCEPT ![a0][c0] = NoCallbacks]
      /\ object' = object \/ object' = [object EXCEPT ![c0] = "deleted"]
      /\ clientData' = clientData /\ loaded' = loaded /\ failed' = failed
      /\ asked' = asked /\ told' = told /\ capable' = capable
  BY DEF RemoveClient, Take, Complete
<1>2. a0 \in Adapters /\ c0 \in Clients /\ object[c0] = "destroyed"
  BY <1>1, HeadTypes, RemovedIsDestroyed
<1>3. /\ known \in [Adapters -> [Clients -> Callbacks \cup {NoCallbacks}]]
      /\ object \in [Clients -> {"none", "alive", "destroyed", "deleted"}]
  BY DEF TypesFit, TypeOK
<1>4. PICK s \in Seq(LocationMessages) : /\ msgs' = Tail(msgs) \o s
                                 /\ \A j \in 1..Len(s) : s[j].type = "capabilities"
  BY <1>1, NothingJoined
<1>5. ASSUME NEW c \in Clients PROVE Newest(c)' /\ Promised(c)'
  <2>1. Newest(c) /\ Promised(c)
    BY DEF Served
  <2>2. object'[c] = object[c] \/ object'[c] \in Gone
    BY <1>1, <1>2, <1>3 DEF Gone
  <2>3. ASSUME object[c] = "alive", NEW a \in Adapters
        PROVE  /\ ~IsHead(msgs, "add", a, c) /\ ~IsHead(msgs, "capabilities", a, c)
               /\ known'[a][c] = known[a][c]
    <3>1. ~IsHead(msgs, "add", a, c) /\ ~IsHead(msgs, "capabilities", a, c)
      BY <1>1, HeadIs
    <3>2. c # c0
      BY <1>2, <2>3
    <3>3. known'[a][c] = known[a][c]
      BY <1>1, <1>2, <1>3, <3>2
    <3> QED BY <3>1, <3>3
  <2> QED BY <1>1, <1>4, <2>1, <2>2, <2>3, ServedTaken
<1> QED BY <1>5 DEF Served

LEMMA RequestServed == TypesFit /\ Life /\ Served /\ RequestCapabilities => Served'
<1> SUFFICES ASSUME TypesFit, Life, Served, RequestCapabilities PROVE Served'
  OBVIOUS
<1> PICK a0 : a0 = Head(msgs).adapter
  OBVIOUS
<1> PICK c0 : c0 = Head(msgs).client
  OBVIOUS
<1>1. /\ msgs # <<>> /\ Head(msgs).type = "capabilities" /\ msgs' = Tail(msgs)
      /\ told' = IF a0 \in capable /\ known[a0][c0] # NoCallbacks THEN told \cup {c0} ELSE told
      /\ object' = object /\ clientData' = clientData /\ loaded' = loaded
      /\ failed' = failed /\ asked' = asked /\ known' = known /\ capable' = capable
  BY DEF RequestCapabilities, Take, api
<1>2. PICK s \in Seq(LocationMessages) : /\ msgs' = Tail(msgs) \o s
                                 /\ \A j \in 1..Len(s) : s[j].type = "capabilities"
  BY <1>1, NothingJoined
<1>3. ASSUME NEW c \in Clients PROVE Newest(c)' /\ Promised(c)'
  <2>1. Newest(c) /\ Promised(c)
    BY DEF Served
  <2>2. ASSUME NEW a \in Adapters
        PROVE  /\ ~IsHead(msgs, "add", a, c)
               /\ Knows(a, c) /\ (a \notin capable \/ IsHead(msgs, "capabilities", a, c))
                          => a \notin capable' \/ c \in told'
    <3>1. ~IsHead(msgs, "add", a, c)
      BY <1>1, HeadIs
    <3>2. IsHead(msgs, "capabilities", a, c) <=> a0 = a /\ c0 = c
      BY <1>1, HeadIs
    <3> QED BY <1>1, <3>1, <3>2 DEF Knows
  <2>3. told \subseteq told'
    BY <1>1
  <2> QED BY <1>1, <1>2, <2>1, <2>2, <2>3, ServedTaken
<1> QED BY <1>3 DEF Served

LEMMA EngineUpServed == TypesFit /\ Life /\ Served /\ HandleEngineUp => Served'
<1> SUFFICES ASSUME TypesFit, Life, Served, HandleEngineUp PROVE Served'
  OBVIOUS
<1> PICK a0 : a0 = Head(msgs).adapter
  OBVIOUS
<1>1. /\ msgs # <<>> /\ Head(msgs).type = "up" /\ msgs' = Tail(msgs) \o pendingMsgs[a0]
      /\ capable' = capable \cup {a0}
      /\ told' = told \cup {c \in Clients : known[a0][c] # NoCallbacks}
      /\ object' = object /\ clientData' = clientData /\ loaded' = loaded
      /\ failed' = failed /\ asked' = asked /\ known' = known
  BY DEF HandleEngineUp, Take, api
<1>2. a0 \in Adapters
  BY <1>1, HeadTypes
<1>3. PICK s \in Seq(CapabilityRequests) : s = pendingMsgs[a0]
  BY <1>2 DEF TypesFit
<1>4. s \in Seq(LocationMessages) /\ \A j \in 1..Len(s) : s[j].type = "capabilities"
  BY RequestsAreMessages
<1>5. msgs' = Tail(msgs) \o s
  BY <1>1, <1>3
<1>6. ASSUME NEW c \in Clients PROVE Newest(c)' /\ Promised(c)'
  <2>1. Newest(c) /\ Promised(c)
    BY DEF Served
  <2>2. ASSUME NEW a \in Adapters
        PROVE  /\ ~IsHead(msgs, "add", a, c)
               /\ Knows(a, c) /\ (a \notin capable \/ IsHead(msgs, "capabilities", a, c))
                          => a \notin capable' \/ c \in told'
    <3>1. ~IsHead(msgs, "add", a, c) /\ ~IsHead(msgs, "capabilities", a, c)
      BY <1>1, HeadIs
    <3> QED BY <1>1, <3>1 DEF Knows
  <2>3. told \subseteq told'
    BY <1>1
  <2> QED BY <1>1, <1>4, <1>5, <2>1, <2>2, <2>3, ServedTaken
<1> QED BY <1>6 DEF Served

LEMMA NextServed == TypesFit /\ Life /\ Served /\ Next => Served'
BY CreateServed, UpdateServed, DestroyServed, OthersServed, AddServed, RequestServed,
   RemoveServed, EngineUpServed DEF Next, Dispatch

LEMMA StutterServed == Served /\ UNCHANGED vars => Served'
<1> SUFFICES ASSUME Served, UNCHANGED vars PROVE Served'
  OBVIOUS
<1>1. /\ msgs' = msgs /\ object' = object /\ known' = known /\ clientData' = clientData
      /\ loaded' = loaded /\ failed' = failed /\ asked' = asked /\ told' = told
      /\ capable' = capable
  BY DEF vars
<1>2. ASSUME NEW c \in Clients PROVE Newest(c)' /\ Promised(c)'
  <2>1. Newest(c) /\ Promised(c)
    BY DEF Served
  <2> QED BY ONLY <1>1, <2>1 DEF Newest, Promised, HearsOf, AsksOf, Hears, Asks, Knows, At
<1> QED BY <1>2 DEF Served

AskedAreClients == asked \subseteq Clients

LEMMA AskedStay == AskedAreClients /\ [Next]_vars => AskedAreClients'
<1> SUFFICES ASSUME AskedAreClients, [Next]_vars PROVE AskedAreClients'
  OBVIOUS
<1>1. CASE CreateInstance
  BY <1>1 DEF CreateInstance, AskedAreClients
<1>2. CASE ~CreateInstance
  <2>1. asked' = asked
    BY <1>2 DEF Next, Dispatch, UpdateCallbacks, Destroy, CreateControl, DestroyControl,
         EngineUp, AddClient, RequestCapabilities, RemoveClient, HandleEngineUp, vars, api
  <2> QED BY <2>1 DEF AskedAreClients
<1> QED BY <1>1, <1>2

LEMMA ServedAtRest == TypesFit /\ AskedAreClients /\ Served => ClientsAreServed
<1> SUFFICES ASSUME TypesFit, AskedAreClients, Served, msgs = <<>> PROVE CallbacksAreNewest /\ CapabilitiesTold
  BY DEF ClientsAreServed, Rest
<1>1. Len(msgs) = 0
  OBVIOUS
<1>2. ASSUME NEW c \in Clients, object[c] = "alive",
             NEW a \in clientData[c].wants \cap loaded
      PROVE  known[a][c] = clientData[c]
  <2>1. HearsOf(a, c)
    BY <1>2 DEF Served, Newest
  <2> QED BY <1>1, <2>1 DEF HearsOf, Hears
<1>3. ASSUME loaded \subseteq capable, NEW c \in asked, object[c] = "alive" PROVE c \in told
  <2>1. c \in Clients
    BY DEF AskedAreClients
  <2> SUFFICES ASSUME c \notin told PROVE FALSE
    OBVIOUS
  <2>2. PICK a \in loaded : AsksOf(a, c) \/ (a \notin capable /\ Knows(a, c))
    BY <1>3, <2>1 DEF Served, Promised
  <2>3. AsksOf(a, c)
    BY <1>3, <2>2
  <2> QED BY <1>1, <2>3 DEF AsksOf, Asks
<1> QED BY <1>2, <1>3 DEF CallbacksAreNewest, CapabilitiesTold

\* At rest every adapter that is there and that a live client wants has the client's newest
\* callbacks, and a client that asked has been told the capabilities once the engine is
\* known, in whatever order the adapters were opened and the engine started (saveClient,
\* requestCapabilities, mPendingMsgs).
THEOREM LocationAPIServes == Spec => []ClientsAreServed
<1>1. Init => Served
  BY InitServed
<1>2. TypesFit /\ Life /\ Served /\ [Next]_vars => Served'
  BY NextServed, StutterServed
<1>3. Init => AskedAreClients
  BY DEF Init, AskedAreClients
<1>4. AskedAreClients /\ [Next]_vars => AskedAreClients'
  BY AskedStay
<1> QED BY <1>1, <1>2, <1>3, <1>4, LivesAlways, ServedAtRest, PTL DEF Spec
-----------------------------------------------------------------------------
(* NiSessions *)

(* OwnedOnce and ThreadPerSession are inductive together with: a thread    *)
(* that has not finished belongs to the request its session holds, a       *)
(* thread takes along only its own request, and a request is shown once,   *)
(* when its one message is handled.                                        *)
TakesItsOwn ==
    \A r \in Requests :
        /\ thread[r].at \in {"missing", "start", "waiting"} => session[Kind(r)].raw = r
        /\ thread[r].raw # None =>
               thread[r].raw = r /\ thread[r].at \in {"clearing", "sending"}

ArrivesOnce ==
    \A r \in Requests :
        /\ r \notin arrived => Carried(r) = {} /\ thread[r].at = "none" /\ outcome[r] = <<>>
        /\ \A i \in Carried(r) : adapterQ[i].type = "notify" <=> thread[r].at = "none"

NiInv == NiTypeOK /\ OwnedOnce /\ ThreadPerSession /\ TakesItsOwn /\ ArrivesOnce

-----------------------------------------------------------------------------
(* Messages appended to the queue and taken from it, by their place        *)

CarriesAt(q, r, i) == i \in DOMAIN q /\ q[i].req = r /\ q[i].type # "respond"

LEMMA CarriedAt ==
    ASSUME NEW r, NEW i
    PROVE  i \in Carried(r) <=> CarriesAt(adapterQ, r, i)
BY DEF Carried, CarriesAt

LEMMA AppendPlaces ==
    ASSUME NEW q \in Seq(Messages), NEW m \in Messages, NEW r, NEW i
    PROVE  /\ Append(q, m) \in Seq(Messages)
           /\ CarriesAt(Append(q, m), r, i) <=>
                  \/ CarriesAt(q, r, i)
                  \/ i = Len(q) + 1 /\ m.req = r /\ m.type # "respond"
           /\ CarriesAt(q, r, i) => Append(q, m)[i] = q[i]
           /\ Append(q, m)[Len(q) + 1] = m
           /\ ~CarriesAt(q, r, Len(q) + 1)
BY DEF CarriesAt

LEMMA TailPlaces ==
    ASSUME NEW q \in Seq(Messages), q # <<>>, NEW r, NEW i
    PROVE  /\ Tail(q) \in Seq(Messages)
           /\ Head(q) \in Messages /\ Head(q) = q[1] /\ 1 \in DOMAIN q
           /\ CarriesAt(Tail(q), r, i) => CarriesAt(q, r, i + 1) /\ Tail(q)[i] = q[i + 1] /\ i \in Nat /\ i # 0
BY DEF CarriesAt
-----------------------------------------------------------------------------
(* Types *)

LEMMA KindIsKind == \A r : Kind(r) \in Kinds
BY DEF Kind, Kinds

LEMMA TakeFromSeq ==
    ASSUME NEW S, NEW s \in Seq(S), s # <<>>
    PROVE  Head(s) \in S /\ Tail(s) \in Seq(S)
OBVIOUS

LEMMA AddToSeq ==
    ASSUME NEW S, NEW s \in Seq(S), NEW e \in S
    PROVE  Append(s, e) \in Seq(S)
OBVIOUS

LEMMA SessionTypes ==
    ASSUME NiTypeOK, NEW k \in Kinds, NEW new \in Sessions,
           session' = [session EXCEPT ![k] = new]
    PROVE  session' \in [Kinds -> Sessions]
BY DEF NiTypeOK

LEMMA NiThreadTypes ==
    ASSUME NiTypeOK, NEW r \in Requests, NEW new \in Threads,
           thread' = [thread EXCEPT ![r] = new]
    PROVE  thread' \in [Requests -> Threads]
BY DEF NiTypeOK

LEMMA EndsAsTypes ==
    ASSUME NiTypeOK, NEW r \in Requests, NEW a \in Ends, EndsAs(r, a)
    PROVE  outcome' \in [Requests -> Seq(Ends)]
<1>1. outcome \in [Requests -> Seq(Ends)]
  BY DEF NiTypeOK
<1>2. Append(outcome[r], a) \in Seq(Ends)
  BY <1>1, AddToSeq
<1> QED BY <1>1, <1>2 DEF EndsAs

LEMMA FinishTypes ==
    ASSUME NiTypeOK, NEW r \in Requests, NEW a \in Answers, Finish(r, a)
    PROVE  NiTypeOK'
<1> DEFINE raw == session[Kind(r)].raw
<1>1. Kind(r) \in Kinds
  BY KindIsKind
<1>2. session[Kind(r)] \in Sessions
  BY <1>1 DEF NiTypeOK
<1>3. raw \in Held /\ session[Kind(r)].id \in Held
  BY <1>2 DEF Sessions
<1>4. [raw |-> None, id |-> session[Kind(r)].id, answered |-> FALSE, answer |-> a] \in Sessions
  BY <1>3 DEF Sessions, Held
<1>5. session' \in [Kinds -> Sessions]
  BY <1>1, <1>4, SessionTypes DEF Finish
<1>6. [at |-> "clearing", raw |-> IF a = "ignore" THEN None ELSE raw, answer |-> a] \in Threads
  BY <1>3 DEF Threads, Held
<1>7. thread' \in [Requests -> Threads]
  BY <1>6, NiThreadTypes DEF Finish
<1>8. outcome' \in [Requests -> Seq(Ends)]
  <2>1. CASE a = "ignore" /\ raw # None
    <3>1. EndsAs(raw, "freed") /\ raw \in Requests /\ "freed" \in Ends
      BY <2>1, <1>3 DEF Finish, Held, Ends
    <3> QED BY <3>1, EndsAsTypes
  <2>2. CASE ~(a = "ignore" /\ raw # None)
    BY <2>2 DEF Finish, NiTypeOK
  <2> QED BY <2>1, <2>2
<1> QED BY <1>5, <1>7, <1>8 DEF Finish, Others, NiTypeOK

LEMMA IgnoreSuplTypes == IgnoreSupl \in Seq(Marks)
<1>1. [kind |-> "supl", answer |-> "ignore"] \in Marks
  BY DEF Marks, Kinds, Answers
<1>2. <<[kind |-> "supl", answer |-> "ignore"]>> \in Seq(Marks)
  BY <1>1
<1> QED BY <1>2 DEF IgnoreSupl

LEMMA TakeTypes ==
    ASSUME NiTypeOK, NEW type, TakeNi(type)
    PROVE  /\ Head(adapterQ) \in Messages /\ Head(adapterQ).type = type
           /\ Head(adapterQ).req \in Requests
           /\ Head(adapterQ).what \in Answers \cup {"show"}
           /\ adapterQ' \in Seq(Messages)
           /\ UNCHANGED <<listening, changes, arrived, given>>
<1>1. Head(adapterQ) \in Messages /\ Tail(adapterQ) \in Seq(Messages)
  BY TakeFromSeq DEF TakeNi, NiTypeOK
<1> QED BY <1>1 DEF TakeNi, Messages

LEMMA BeginTypes ==
    ASSUME NiTypeOK, NEW r \in Requests, thread[r].at = "none", BeginSession(r)
    PROVE  session' \in [Kinds -> Sessions] /\ thread' \in [Requests -> Threads]
<1>1. Kind(r) \in Kinds /\ r \in Held
  BY KindIsKind DEF Held
<1>2. session[Kind(r)] \in Sessions /\ thread[r] \in Threads
  BY <1>1 DEF NiTypeOK
<1>3. [raw |-> r, id |-> r, answered |-> session[Kind(r)].answered,
       answer |-> session[Kind(r)].answer] \in Sessions
  BY <1>1, <1>2 DEF Sessions
<1>4. Moved(thread[r], "start") \in Threads /\ Moved(thread[r], "missing") \in Threads
  BY <1>2 DEF Moved, Threads
<1> QED BY <1>1, <1>3, <1>4, SessionTypes, NiThreadTypes DEF BeginSession

LEMMA NotifyIsFirst ==
    ASSUME NiTypeOK, ArrivesOnce, HandleNotify
    PROVE  /\ thread[Head(adapterQ).req].at = "none"
           /\ CarriesAt(adapterQ, Head(adapterQ).req, 1)
<1>1. Head(adapterQ).type = "notify" /\ Head(adapterQ).req \in Requests
  BY TakeTypes DEF HandleNotify
<1>2. Head(adapterQ) = adapterQ[1] /\ 1 \in DOMAIN adapterQ
  BY TailPlaces DEF HandleNotify, TakeNi, NiTypeOK
<1>3. 1 \in Carried(Head(adapterQ).req)
  BY <1>1, <1>2 DEF Carried
<1> QED BY <1>1, <1>2, <1>3 DEF ArrivesOnce, Carried, CarriesAt

LEMMA NotifyTypes ==
    ASSUME NiTypeOK, ArrivesOnce, HandleNotify
    PROVE  NiTypeOK'
<1> DEFINE m == Head(adapterQ)
<1>1. /\ m.req \in Requests /\ m.what \in Answers \cup {"show"}
      /\ adapterQ' \in Seq(Messages) /\ UNCHANGED <<listening, changes, arrived, given>>
  BY TakeTypes DEF HandleNotify
<1>2. CASE m.what = "show" /\ BeginSession(m.req)
  <2>1. session' \in [Kinds -> Sessions] /\ thread' \in [Requests -> Threads]
    BY <1>1, <1>2, NotifyIsFirst, BeginTypes
  <2> QED BY <1>1, <1>2, <2>1 DEF BeginSession, NiTypeOK
<1>3. CASE m.what = "show" /\ UNCHANGED <<marks, outcome>> /\ NotShown
  BY <1>1, <1>3 DEF NotShown, NiTypeOK
<1>4. CASE m.what = "show" /\ EndsAs(m.req, "accept") /\ marks' = IgnoreSupl /\ NotShown
  <2>1. "accept" \in Ends
    BY DEF Ends, Answers
  <2>2. outcome' \in [Requests -> Seq(Ends)] /\ marks' \in Seq(Marks)
    BY <1>1, <1>4, <2>1, EndsAsTypes, IgnoreSuplTypes
  <2> QED BY <1>1, <1>4, <2>2 DEF NotShown, NiTypeOK
<1>5. CASE m.what = "show" /\ EndsAs(m.req, "freed") /\ UNCHANGED marks /\ NotShown
  <2>1. "freed" \in Ends
    BY DEF Ends
  <2>2. outcome' \in [Requests -> Seq(Ends)]
    BY <1>1, <1>5, <2>1, EndsAsTypes
  <2> QED BY <1>1, <1>5, <2>2 DEF NotShown, NiTypeOK
<1>6. CASE m.what # "show"
  <2>1. EndsAs(m.req, m.what) /\ UNCHANGED marks /\ NotShown
    BY <1>6 DEF HandleNotify
  <2>2. m.what \in Ends
    BY <1>1, <1>6 DEF Ends
  <2>3. outcome' \in [Requests -> Seq(Ends)]
    BY <1>1, <2>1, <2>2, EndsAsTypes
  <2> QED BY <1>1, <2>1, <2>3 DEF NotShown, NiTypeOK
<1> QED
  BY <1>2, <1>3, <1>4, <1>5, <1>6 DEF HandleNotify, RequestNiNotify

LEMMA ResponseTypes ==
    ASSUME NiTypeOK, HandleResponse
    PROVE  NiTypeOK'
<1> DEFINE m == Head(adapterQ)
<1>1. /\ m.what \in Answers \cup {"show"} /\ adapterQ' \in Seq(Messages)
      /\ UNCHANGED <<listening, changes, arrived, given>> /\ m.type = "respond"
      /\ m \in Messages
  BY TakeTypes DEF HandleResponse
<1>2. m.what \in Answers
  BY <1>1 DEF Messages
<1>3. (IF m.what = "accept" THEN IgnoreSupl ELSE <<>>) \in Seq(Marks)
  BY IgnoreSuplTypes
<1>4. [kind |-> "es", answer |-> m.what] \in Marks /\ [kind |-> "supl", answer |-> m.what] \in Marks
  BY <1>2 DEF Marks, Kinds
<1>5. marks' \in Seq(Marks)
  <2>1. CASE marks' = Append(IF m.what = "accept" THEN IgnoreSupl ELSE <<>>,
                             [kind |-> "es", answer |-> m.what])
    BY <2>1, <1>3, <1>4, AddToSeq
  <2>2. CASE marks' = <<[kind |-> "supl", answer |-> m.what]>>
    BY <2>2, <1>4
  <2>3. CASE marks' = <<>>
    BY <2>3
  <2> QED BY <2>1, <2>2, <2>3 DEF HandleResponse
<1> QED BY <1>1, <1>5 DEF HandleResponse, NiTypeOK

LEMMA HandlerTypes ==
    ASSUME NiTypeOK, ArrivesOnce, Adapter
    PROVE  NiTypeOK'
<1>1. CASE MarkSession
  <2> DEFINE m == Head(marks)
             s == session[m.kind]
  <2>1. m \in Marks /\ Tail(marks) \in Seq(Marks)
    BY <1>1, TakeFromSeq DEF MarkSession, NiTypeOK
  <2>2. m.kind \in Kinds /\ m.answer \in Answers /\ s \in Sessions
    BY <2>1 DEF Marks, NiTypeOK
  <2>3. [raw |-> s.raw, id |-> s.id, answered |-> TRUE, answer |-> m.answer] \in Sessions
    BY <2>2 DEF Sessions
  <2>4. session' \in [Kinds -> Sessions]
    BY <1>1, <2>2, <2>3, SessionTypes DEF MarkSession
  <2> QED BY <1>1, <2>1, <2>4 DEF MarkSession, NiTypeOK
<1>2. CASE InformEngine
  <2>1. /\ Head(adapterQ).req \in Requests
        /\ Head(adapterQ) \in Messages /\ Head(adapterQ).type = "inform"
        /\ adapterQ' \in Seq(Messages) /\ UNCHANGED <<listening, changes, arrived, given>>
    BY <1>2, TakeTypes DEF InformEngine
  <2>2. Head(adapterQ).what \in Ends
    BY <2>1 DEF Messages, Ends
  <2>3. outcome' \in [Requests -> Seq(Ends)]
    BY <1>2, <2>1, <2>2, EndsAsTypes DEF InformEngine
  <2> QED BY <1>2, <2>1, <2>3 DEF InformEngine, NiTypeOK
<1> QED BY <1>1, <1>2, NotifyTypes, ResponseTypes DEF Adapter

LEMMA ThreadStepTypes ==
    ASSUME NiTypeOK, NEW r \in Requests, Thread(r)
    PROVE  NiTypeOK'
<1> DEFINE s == session[Kind(r)]
<1>1. /\ Kind(r) \in Kinds /\ s \in Sessions /\ thread[r] \in Threads
      /\ thread \in [Requests -> Threads] /\ adapterQ \in Seq(Messages)
  BY KindIsKind DEF NiTypeOK
<1>2. CASE StartWaiting(r)
  <2>1. Moved(thread[r], "waiting") \in Threads
    BY <1>1, <1>2 DEF StartWaiting, Moved, Threads
  <2>2. thread' \in [Requests -> Threads]
    BY <1>2, <2>1, NiThreadTypes DEF StartWaiting
  <2> QED BY <1>2, <2>2 DEF StartWaiting, Others, NiTypeOK
<1>3. CASE Answered(r)
  <2>1. s.answer \in Answers
    BY <1>1, <1>3 DEF Answered, Sessions
  <2> QED BY <1>3, <2>1, FinishTypes DEF Answered
<1>4. CASE TimesOut(r)
  <2>1. "no_response" \in Answers
    BY DEF Answers
  <2> QED BY <1>4, <2>1, FinishTypes DEF TimesOut
<1>5. CASE ClearSession(r)
  <2>1. Moved(thread[r], "sending") \in Threads
    BY <1>1, <1>5 DEF ClearSession, Moved, Threads
  <2>2. [raw |-> s.raw, id |-> None, answered |-> s.answered, answer |-> s.answer] \in Sessions
    BY <1>1 DEF Sessions, Held
  <2>3. thread' \in [Requests -> Threads] /\ session' \in [Kinds -> Sessions]
    BY <1>1, <1>5, <2>1, <2>2, NiThreadTypes, SessionTypes DEF ClearSession
  <2> QED BY <1>5, <2>3 DEF ClearSession, Others, NiTypeOK
<1>6. CASE SendResponse(r)
  <2>1. thread[r].raw \in Held /\ thread[r].answer \in Answers
    BY <1>1, <1>6 DEF SendResponse, Threads
  <2>2. [at |-> "done", raw |-> None, answer |-> thread[r].answer] \in Threads
    BY <2>1 DEF Threads, Held
  <2>3. thread' \in [Requests -> Threads]
    BY <1>6, <2>2, NiThreadTypes DEF SendResponse
  <2>4. thread[r].raw # None =>
            [type |-> "inform", req |-> thread[r].raw, what |-> thread[r].answer] \in Messages
    BY <2>1 DEF Held, Messages
  <2>5. adapterQ' \in Seq(Messages)
    BY <1>1, <1>6, <2>4, AddToSeq DEF SendResponse
  <2> QED BY <1>6, <2>3, <2>5 DEF SendResponse, Others, NiTypeOK
<1> QED BY <1>2, <1>3, <1>4, <1>5, <1>6 DEF Thread

LEMMA StepTypes ==
    ASSUME NiTypeOK, ArrivesOnce, [NiNext]_niVars
    PROVE  NiTypeOK'
<1>1. ASSUME NEW r \in Requests, NEW route \in {"deny", "accept", "show"}, RequestNi(r, route)
      PROVE  NiTypeOK'
  <2>1. [type |-> "notify", req |-> r, what |-> route] \in Messages
    BY DEF Messages, Answers
  <2>2. adapterQ' \in Seq(Messages)
    BY <1>1, <2>1, AddToSeq DEF RequestNi, NiTypeOK
  <2> QED BY <1>1, <2>2 DEF RequestNi, NiTypeOK
<1>2. ASSUME NEW r \in Requests, NEW reply \in Replies, UserAnswers(r, reply)
      PROVE  NiTypeOK'
  <2>1. reply \in Answers
    BY RepliesAssumption DEF Answers
  <2>2. [type |-> "respond", req |-> r, what |-> reply] \in Messages
    BY <2>1 DEF Messages
  <2>3. adapterQ' \in Seq(Messages)
    BY <1>2, <2>2, AddToSeq DEF UserAnswers, NiTypeOK
  <2>4. given' \in [Requests -> Answers \cup {"none"}]
    BY <1>2, <2>1 DEF UserAnswers, NiTypeOK
  <2> QED BY <1>2, <2>3, <2>4 DEF UserAnswers, NiTypeOK
<1>3. CASE ClientChanges
  BY <1>3 DEF ClientChanges, NiTypeOK
<1>4. CASE UNCHANGED niVars
  BY <1>4 DEF niVars, NiTypeOK
<1> QED BY <1>1, <1>2, <1>3, <1>4, HandlerTypes, ThreadStepTypes DEF NiNext
-----------------------------------------------------------------------------
(* The invariant, seen from one request: where it may be is decided by its *)
(* session, its thread, its outcome and the places of its messages.        *)

Running(r) == thread[r].at \in {"missing", "start", "waiting"}
Leaving(r) == thread[r].at \in {"clearing", "sending"}
Shown(r) == session[Kind(r)].raw = r

Own(r) ==
    /\ outcome[r] # <<>> =>
           Len(outcome[r]) = 1 /\ ~Shown(r) /\ thread[r].raw # r
    /\ Shown(r) => thread[r].raw # r
    /\ \A i : CarriesAt(adapterQ, r, i) =>
           outcome[r] = <<>> /\ ~Shown(r) /\ thread[r].raw # r
    /\ \A i, j : CarriesAt(adapterQ, r, i) /\ CarriesAt(adapterQ, r, j) => i = j
    /\ Shown(r) <=> Running(r)
    /\ thread[r].raw # None => thread[r].raw = r /\ Leaving(r)
    /\ r \notin arrived =>
           thread[r].at = "none" /\ outcome[r] = <<>> /\ \A i : ~CarriesAt(adapterQ, r, i)
    /\ \A i : CarriesAt(adapterQ, r, i) => (adapterQ[i].type = "notify" <=> thread[r].at = "none")

SessionsKeepKind == \A k \in Kinds : Busy(k) => Kind(session[k].raw) = k

LEMMA OwnView ==
    ASSUME NiTypeOK
    PROVE  (OwnedOnce /\ ThreadPerSession /\ TakesItsOwn /\ ArrivesOnce)
               <=> (SessionsKeepKind /\ \A r \in Requests : Own(r))
<1>1. ASSUME OwnedOnce, ThreadPerSession, TakesItsOwn, ArrivesOnce
      PROVE  SessionsKeepKind
  BY <1>1 DEF ThreadPerSession, SessionsKeepKind
<1>2. ASSUME OwnedOnce, ThreadPerSession, TakesItsOwn, ArrivesOnce, NEW r \in Requests
      PROVE  Own(r)
  <2>1. r # None /\ Kind(r) \in Kinds
    BY KindIsKind, NoneIsNoRequest DEF Requests
  <2>2. thread[r].raw = r => HeldByThread(r)
    BY DEF HeldByThread
  <2>3. \A i : CarriesAt(adapterQ, r, i) <=> i \in Carried(r)
    BY CarriedAt
  <2>4. Shown(r) <=> Running(r)
    BY <1>2, <2>1 DEF ThreadPerSession, TakesItsOwn, Shown, Running, Busy
  <2>5. thread[r].raw # None => thread[r].raw = r /\ Leaving(r)
    BY <1>2 DEF TakesItsOwn, Leaving
  <2>6. Shown(r) <=> HeldBySession(r)
    BY DEF Shown, HeldBySession
  <2>7. /\ outcome[r] # <<>> => Len(outcome[r]) = 1 /\ ~Shown(r) /\ thread[r].raw # r
        /\ Shown(r) => thread[r].raw # r
        /\ \A i : CarriesAt(adapterQ, r, i) =>
               outcome[r] = <<>> /\ ~Shown(r) /\ thread[r].raw # r
        /\ \A i, j : CarriesAt(adapterQ, r, i) /\ CarriesAt(adapterQ, r, j) => i = j
    BY <1>2, <2>2, <2>3, <2>6 DEF OwnedOnce
  <2>8. /\ r \notin arrived =>
               thread[r].at = "none" /\ outcome[r] = <<>> /\ \A i : ~CarriesAt(adapterQ, r, i)
        /\ \A i : CarriesAt(adapterQ, r, i) => (adapterQ[i].type = "notify" <=> thread[r].at = "none")
    BY <1>2, <2>3 DEF ArrivesOnce
  <2> QED BY <2>4, <2>5, <2>7, <2>8 DEF Own
<1>3. ASSUME SessionsKeepKind, \A r \in Requests : Own(r)
      PROVE  OwnedOnce /\ ThreadPerSession /\ TakesItsOwn /\ ArrivesOnce
  <2>1. ASSUME NEW r \in Requests
        PROVE  /\ r # None
               /\ HeldByThread(r) <=> thread[r].raw = r
               /\ HeldBySession(r) <=> Shown(r)
               /\ \A i : CarriesAt(adapterQ, r, i) <=> i \in Carried(r)
    <3>1. r # None
      BY NoneIsNoRequest DEF Requests
    <3>2. HeldByThread(r) => thread[r].raw = r
      BY <1>3, <3>1 DEF HeldByThread, Own
    <3>3. thread[r].raw = r => HeldByThread(r)
      BY DEF HeldByThread
    <3> QED BY <3>1, <3>2, <3>3, CarriedAt DEF Shown, HeldBySession
  <2>2. OwnedOnce
    BY <1>3, <2>1 DEF OwnedOnce, Own
  <2>3. ThreadPerSession
    <3>1. ASSUME NEW k \in Kinds, Busy(k)
          PROVE  session[k].raw \in Requests
      BY <3>1 DEF Busy, NiTypeOK, Sessions, Held
    <3> QED BY <1>3, <3>1 DEF ThreadPerSession, SessionsKeepKind, Own, Shown, Running
  <2>4. TakesItsOwn
    BY <1>3 DEF TakesItsOwn, Own, Shown, Running, Leaving
  <2>5. ArrivesOnce
    BY <1>3, <2>1 DEF ArrivesOnce, Own
  <2> QED BY <2>2, <2>3, <2>4, <2>5
<1> QED BY <1>1, <1>2, <1>3
-----------------------------------------------------------------------------
(* Steps that leave a request where it is. Its messages may move up by     *)
(* shift places when the first one is taken from the queue.                *)

Follows(r, shift) ==
    \A i : CarriesAt(adapterQ', r, i) =>
        /\ i \in Nat /\ CarriesAt(adapterQ, r, i + shift)
        /\ adapterQ'[i].type = adapterQ[i + shift].type

ThreadFollows(r) ==
    /\ thread'[r].raw = thread[r].raw
    /\ thread'[r].at = "none" <=> thread[r].at = "none"
    /\ Running(r)' <=> Running(r)
    /\ Leaving(r) => Leaving(r)' \/ thread[r].raw = None

LEMMA KeepOwn ==
    ASSUME NEW r \in Requests, NEW shift \in {0, 1}, Own(r), Follows(r, shift), ThreadFollows(r),
           Shown(r)' <=> Shown(r), outcome'[r] = outcome[r], r \in arrived' <=> r \in arrived
    PROVE  Own(r)'
<1>1. \A i : CarriesAt(adapterQ', r, i) =>
          outcome'[r] = <<>> /\ ~Shown(r)' /\ thread'[r].raw # r
  BY DEF Own, Follows, ThreadFollows
<1>2. ASSUME NEW i, NEW j, CarriesAt(adapterQ', r, i), CarriesAt(adapterQ', r, j)
      PROVE  i = j
  <2>1. i \in Nat /\ j \in Nat /\ CarriesAt(adapterQ, r, i + shift) /\ CarriesAt(adapterQ, r, j + shift)
    BY <1>2 DEF Follows
  <2>2. i + shift = j + shift
    BY <2>1 DEF Own
  <2> QED BY <2>1, <2>2
<1>3. \A i : CarriesAt(adapterQ', r, i) => (adapterQ'[i].type = "notify" <=> thread'[r].at = "none")
  BY DEF Own, Follows, ThreadFollows
<1>4. r \notin arrived' =>
          thread'[r].at = "none" /\ outcome'[r] = <<>> /\ \A i : ~CarriesAt(adapterQ', r, i)
  BY DEF Own, Follows, ThreadFollows
<1>5. /\ outcome'[r] # <<>> => Len(outcome'[r]) = 1 /\ ~Shown(r)' /\ thread'[r].raw # r
      /\ Shown(r)' => thread'[r].raw # r
      /\ Shown(r)' <=> Running(r)'
      /\ thread'[r].raw # None => thread'[r].raw = r /\ Leaving(r)'
  BY DEF Own, ThreadFollows
<1> QED BY <1>1, <1>2, <1>3, <1>4, <1>5 DEF Own

LEMMA SameQueueFollows ==
    ASSUME NiTypeOK, UNCHANGED adapterQ, NEW r
    PROVE  Follows(r, 0)
BY DEF Follows, CarriesAt, NiTypeOK

LEMMA TakenFollows ==
    ASSUME NiTypeOK, NEW type, TakeNi(type), NEW r
    PROVE  Follows(r, 1)
BY TailPlaces DEF Follows, TakeNi, NiTypeOK

LEMMA AppendedFollows ==
    ASSUME NiTypeOK, NEW m \in Messages, adapterQ' = Append(adapterQ, m), NEW r,
           m.req # r \/ m.type = "respond"
    PROVE  Follows(r, 0)
<1>1. ASSUME NEW i, CarriesAt(adapterQ', r, i)
      PROVE  i \in Nat /\ CarriesAt(adapterQ, r, i) /\ adapterQ'[i] = adapterQ[i]
  <2>1. CarriesAt(adapterQ, r, i)
    BY <1>1, AppendPlaces DEF NiTypeOK
  <2> QED BY <2>1, AppendPlaces DEF CarriesAt, NiTypeOK
<1>2. \A i \in Nat : i + 0 = i
  OBVIOUS
<1> QED BY <1>1, <1>2, Zenon DEF Follows

LEMMA SameThreadFollows ==
    ASSUME NEW r, thread'[r] = thread[r]
    PROVE  ThreadFollows(r)
BY DEF ThreadFollows, Running, Leaving
-----------------------------------------------------------------------------
(* Steps that move a request                                               *)

Owns == SessionsKeepKind /\ \A r \in Requests : Own(r)

\* the message at the head holds h, and no other message does
LEMMA HeadTaken ==
    ASSUME NiTypeOK, NEW type, TakeNi(type), NEW h \in Requests, Own(h), CarriesAt(adapterQ, h, 1)
    PROVE  /\ outcome[h] = <<>> /\ ~Shown(h) /\ thread[h].raw # h /\ h \in arrived
           /\ \A i : ~CarriesAt(adapterQ', h, i)
<1>1. outcome[h] = <<>> /\ ~Shown(h) /\ thread[h].raw # h /\ h \in arrived
  BY DEF Own
<1>2. ASSUME NEW i, CarriesAt(adapterQ', h, i)
      PROVE  FALSE
  <2>1. i \in Nat /\ i # 0 /\ CarriesAt(adapterQ, h, i + 1)
    BY <1>2, TailPlaces DEF TakeNi, NiTypeOK
  <2>2. i + 1 = 1
    BY <2>1 DEF Own
  <2> QED BY <2>1, <2>2
<1> QED BY <1>1, <1>2

\* a handler that leaves h, and every session and thread, alone
LEMMA TakenElsewhere ==
    ASSUME NiTypeOK, Owns, NEW type, TakeNi(type), NEW r \in Requests,
           session' = session, thread' = thread, outcome'[r] = outcome[r]
    PROVE  Own(r)'
<1>1. Follows(r, 1) /\ ThreadFollows(r)
  BY TakenFollows, SameThreadFollows
<1>2. Own(r) /\ arrived' = arrived
  BY DEF Owns, TakeNi
<1>3. Shown(r)' <=> Shown(r)
  BY DEF Shown
<1> QED BY <1>1, <1>2, <1>3, KeepOwn

\* the engine is answered for h, or h is freed
LEMMA HeadEnds ==
    ASSUME NiTypeOK, Owns, NEW type, TakeNi(type), NEW a, NEW h \in Requests, CarriesAt(adapterQ, h, 1),
           EndsAs(h, a), session' = session, thread' = thread
    PROVE  Owns'
<1>1. Own(h)
  BY DEF Owns
<1>2. /\ outcome[h] = <<>> /\ ~Shown(h) /\ thread[h].raw # h /\ h \in arrived
      /\ \A i : ~CarriesAt(adapterQ', h, i)
  BY <1>1, HeadTaken
<1>3. outcome'[h] = <<a>>
  BY <1>2 DEF EndsAs, NiTypeOK
<1>4. /\ Shown(h)' <=> Shown(h)
      /\ Running(h)' <=> Running(h)
      /\ Leaving(h)' <=> Leaving(h)
      /\ thread'[h] = thread[h] /\ arrived' = arrived
  BY DEF Shown, Running, Leaving, TakeNi
<1>5. /\ Shown(h)' <=> Running(h)'
      /\ thread'[h].raw # None => thread'[h].raw = h /\ Leaving(h)'
  BY <1>1, <1>4 DEF Own
<1>6. Len(outcome'[h]) = 1
  BY <1>3
<1>7. Own(h)'
  BY <1>2, <1>4, <1>5, <1>6 DEF Own
<1>8. ASSUME NEW r \in Requests, r # h
      PROVE  Own(r)'
  <2>1. outcome'[r] = outcome[r]
    BY <1>8 DEF EndsAs, NiTypeOK
  <2> QED BY <2>1, TakenElsewhere
<1>9. SessionsKeepKind'
  BY DEF Owns, SessionsKeepKind, Busy
<1> QED BY <1>7, <1>8, <1>9 DEF Owns

\* a request is shown: its raw request passes from the message to the session
LEMMA BeginOwns ==
    ASSUME NiTypeOK, Owns, TakeNi("notify"), NEW h \in Requests, CarriesAt(adapterQ, h, 1),
           thread[h].at = "none", ~Busy(Kind(h)), BeginSession(h)
    PROVE  Owns'
<1>0. h # None /\ Kind(h) \in Kinds /\ session \in [Kinds -> Sessions] /\ thread \in [Requests -> Threads]
  BY KindIsKind, NoneIsNoRequest DEF Requests, NiTypeOK
<1>1. Own(h)
  BY DEF Owns
<1>2. /\ outcome[h] = <<>> /\ h \in arrived
      /\ \A i : ~CarriesAt(adapterQ', h, i)
  BY <1>1, HeadTaken
<1>3. thread[h].raw = None
  BY <1>1 DEF Own, Leaving
<1>4. /\ session'[Kind(h)].raw = h
      /\ \A k \in Kinds \ {Kind(h)} : session'[k] = session[k]
      /\ thread'[h].at \in {"start", "missing"} /\ thread'[h].raw = thread[h].raw
      /\ \A r \in Requests \ {h} : thread'[r] = thread[r]
      /\ outcome' = outcome /\ arrived' = arrived
  BY <1>0 DEF BeginSession, Moved, TakeNi
<1>5. Own(h)'
  <2>1. Shown(h)' /\ Running(h)'
    BY <1>4 DEF Shown, Running
  <2> QED BY <1>0, <1>2, <1>3, <1>4, <2>1 DEF Own
<1>6. ASSUME NEW r \in Requests, r # h
      PROVE  Own(r)'
  <2>0. r # None /\ Kind(r) \in Kinds
    BY KindIsKind, NoneIsNoRequest DEF Requests
  <2>1. Shown(r)' <=> Shown(r)
    BY <1>4, <1>6, <2>0 DEF Shown, Busy
  <2>2. Follows(r, 1) /\ ThreadFollows(r)
    BY <1>4, <1>6, TakenFollows, SameThreadFollows
  <2>3. outcome'[r] = outcome[r] /\ arrived' = arrived /\ Own(r)
    BY <1>4 DEF Owns
  <2> QED BY <2>1, <2>2, <2>3, KeepOwn
<1>7. SessionsKeepKind'
  BY <1>4 DEF Owns, SessionsKeepKind, Busy
<1> QED BY <1>5, <1>6, <1>7 DEF Owns

LEMMA HandlerOwns ==
    ASSUME NiTypeOK, ArrivesOnce, Owns, Adapter
    PROVE  Owns'
<1>1. CASE HandleNotify
  <2>1. PICK h \in Requests : h = Head(adapterQ).req
    BY <1>1, TakeTypes DEF HandleNotify
  <2>2. /\ TakeNi("notify") /\ CarriesAt(adapterQ, h, 1) /\ thread[h].at = "none"
    BY <1>1, <2>1, NotifyIsFirst DEF HandleNotify
  <2>3. ASSUME NEW a, EndsAs(h, a), NotShown
        PROVE  Owns'
    BY <2>2, <2>3, HeadEnds DEF NotShown
  <2>4. CASE BeginSession(h) /\ ~Ignored(h)
    BY <2>2, <2>4, BeginOwns DEF Ignored
  <2>5. CASE UNCHANGED outcome /\ NotShown
    <3>1. \A r \in Requests : Own(r)'
      BY <2>2, <2>5, TakenElsewhere DEF NotShown
    <3> QED BY <2>5, <3>1 DEF Owns, NotShown, SessionsKeepKind, Busy
  <2> QED BY <1>1, <2>1, <2>3, <2>4, <2>5 DEF HandleNotify, RequestNiNotify
<1>2. CASE HandleResponse
  <2>1. \A r \in Requests : Own(r)'
    BY <1>2, TakenElsewhere DEF HandleResponse
  <2> QED BY <1>2, <2>1 DEF Owns, HandleResponse, SessionsKeepKind, Busy
<1>3. CASE MarkSession
  <2>1. Head(marks) \in Marks
    BY <1>3, TakeFromSeq DEF MarkSession, NiTypeOK
  <2>2. \A k \in Kinds : session'[k].raw = session[k].raw
    BY <1>3, <2>1 DEF MarkSession, Marks, NiTypeOK
  <2>3. ASSUME NEW r \in Requests
        PROVE  Own(r)'
    <3>1. Shown(r)' <=> Shown(r)
      BY <2>2, KindIsKind DEF Shown
    <3>2. Follows(r, 0) /\ ThreadFollows(r)
      BY <1>3, SameQueueFollows, SameThreadFollows DEF MarkSession
    <3>3. outcome'[r] = outcome[r] /\ arrived' = arrived /\ Own(r)
      BY <1>3 DEF Owns, MarkSession
    <3> QED BY <3>1, <3>2, <3>3, KeepOwn
  <2> QED BY <2>2, <2>3 DEF Owns, SessionsKeepKind, Busy
<1>4. CASE InformEngine
  <2>1. PICK h \in Requests : h = Head(adapterQ).req
    BY <1>4, TakeTypes DEF InformEngine
  <2>2. CarriesAt(adapterQ, h, 1)
    <3>1. Head(adapterQ).type = "inform" /\ Head(adapterQ) = adapterQ[1] /\ 1 \in DOMAIN adapterQ
      BY <1>4, TailPlaces DEF InformEngine, TakeNi, NiTypeOK
    <3> QED BY <2>1, <3>1 DEF CarriesAt
  <2> QED BY <1>4, <2>1, <2>2, HeadEnds DEF InformEngine
<1> QED BY <1>1, <1>2, <1>3, <1>4 DEF Adapter

\* a thread that has not finished ends its session and takes the request along
LEMMA FinishOwns ==
    ASSUME NiTypeOK, Owns, NEW h \in Requests, NEW a, thread[h].at \in {"start", "waiting"}, Finish(h, a)
    PROVE  Owns'
<1>0. h # None /\ Kind(h) \in Kinds /\ session \in [Kinds -> Sessions] /\ thread \in [Requests -> Threads]
  BY KindIsKind, NoneIsNoRequest DEF Requests, NiTypeOK
<1>1. Own(h) /\ session[Kind(h)].raw = h
  BY DEF Owns, Own, Running, Shown
<1>2. outcome[h] = <<>> /\ h \in arrived /\ \A i : ~CarriesAt(adapterQ, h, i)
  BY <1>1 DEF Own, Running, Shown
<1>3. /\ session'[Kind(h)].raw = None
      /\ \A k \in Kinds \ {Kind(h)} : session'[k] = session[k]
      /\ thread'[h].at = "clearing"
      /\ thread'[h].raw = IF a = "ignore" THEN None ELSE h
      /\ \A r \in Requests \ {h} : thread'[r] = thread[r]
      /\ adapterQ' = adapterQ /\ arrived' = arrived
  BY <1>0, <1>1 DEF Finish, Others
<1>4. /\ a = "ignore" => outcome'[h] = <<"freed">>
      /\ a # "ignore" => outcome'[h] = <<>>
      /\ \A r \in Requests \ {h} : outcome'[r] = outcome[r]
  BY <1>0, <1>1, <1>2 DEF Finish, EndsAs, NiTypeOK
<1>5. Own(h)'
  <2>1. ~Shown(h)' /\ ~Running(h)' /\ Leaving(h)'
    BY <1>0, <1>3 DEF Shown, Running, Leaving
  <2>0. Len(<<"freed">>) = 1
    OBVIOUS
  <2>2. outcome'[h] # <<>> => Len(outcome'[h]) = 1 /\ thread'[h].raw # h
    BY <1>0, <1>3, <1>4, <2>0, Zenon
  <2> QED BY <1>2, <1>3, <2>1, <2>2 DEF Own
<1>6. ASSUME NEW r \in Requests, r # h
      PROVE  Own(r)'
  <2>0. r # None /\ Kind(r) \in Kinds
    BY KindIsKind, NoneIsNoRequest DEF Requests
  <2>1. Shown(r)' <=> Shown(r)
    BY <1>1, <1>3, <1>6, <2>0 DEF Shown
  <2>2. Follows(r, 0) /\ ThreadFollows(r)
    BY <1>3, <1>6, SameQueueFollows, SameThreadFollows
  <2>3. outcome'[r] = outcome[r] /\ arrived' = arrived /\ Own(r)
    BY <1>3, <1>4, <1>6 DEF Owns
  <2> QED BY <2>1, <2>2, <2>3, KeepOwn
<1>7. SessionsKeepKind'
  BY <1>3 DEF Owns, SessionsKeepKind, Busy
<1> QED BY <1>5, <1>6, <1>7 DEF Owns

LEMMA ThreadStepOwns ==
    ASSUME NiTypeOK, Owns, NEW h \in Requests, Thread(h)
    PROVE  Owns'
<1>0. /\ h # None /\ Kind(h) \in Kinds /\ session \in [Kinds -> Sessions]
      /\ thread \in [Requests -> Threads] /\ thread[h] \in Threads
  BY KindIsKind, NoneIsNoRequest DEF Requests, NiTypeOK
<1>1. CASE Answered(h) \/ TimesOut(h)
  BY <1>1, FinishOwns DEF Answered, TimesOut
<1>2. CASE StartWaiting(h) \/ ClearSession(h)
  <2>1. \A k \in Kinds : session'[k].raw = session[k].raw
    BY <1>0, <1>2 DEF StartWaiting, ClearSession
  <2>2. ThreadFollows(h)
    <3>1. CASE StartWaiting(h)
      BY <1>0, <3>1 DEF StartWaiting, Moved, ThreadFollows, Running, Leaving
    <3>2. CASE ClearSession(h)
      BY <1>0, <3>2 DEF ClearSession, Moved, ThreadFollows, Running, Leaving
    <3> QED BY <1>2, <3>1, <3>2
  <2>3. ASSUME NEW r \in Requests
        PROVE  Own(r)'
    <3>1. Shown(r)' <=> Shown(r)
      BY <2>1, KindIsKind DEF Shown
    <3>2. r # h => thread'[r] = thread[r]
      BY <1>0, <1>2 DEF StartWaiting, ClearSession
    <3>3. Follows(r, 0) /\ ThreadFollows(r)
      BY <1>2, <2>2, <3>2, SameQueueFollows, SameThreadFollows DEF StartWaiting, ClearSession
    <3>4. outcome'[r] = outcome[r] /\ arrived' = arrived /\ Own(r)
      BY <1>2 DEF Owns, StartWaiting, ClearSession, Others
    <3> QED BY <3>1, <3>3, <3>4, KeepOwn
  <2> QED BY <2>1, <2>3 DEF Owns, SessionsKeepKind, Busy
<1>3. CASE SendResponse(h)
  <2> DEFINE m == [type |-> "inform", req |-> h, what |-> thread[h].answer]
  <2>1. Own(h)
    BY DEF Owns
  <2>2. /\ session' = session /\ outcome' = outcome /\ arrived' = arrived
        /\ thread'[h].at = "done" /\ thread'[h].raw = None
        /\ \A r \in Requests \ {h} : thread'[r] = thread[r]
    BY <1>0, <1>3 DEF SendResponse, Others
  <2>3. ~Running(h) /\ ~Running(h)' /\ ~Shown(h) /\ ~Shown(h)' /\ ~Leaving(h)'
    BY <1>3, <2>1, <2>2 DEF SendResponse, Own, Running, Leaving, Shown
  <2>4. m \in Messages
    BY <1>0, <1>3 DEF SendResponse, Messages, Threads
  <2>5. CASE thread[h].raw = None
    <3>1. adapterQ' = adapterQ
      BY <1>3, <2>5 DEF SendResponse
    <3>2. ThreadFollows(h)
      BY <1>3, <2>2, <2>3, <2>5 DEF ThreadFollows, SendResponse
    <3>3. ASSUME NEW r \in Requests
          PROVE  Own(r)'
      <4>1. Follows(r, 0) /\ ThreadFollows(r)
        BY <2>2, <3>1, <3>2, SameQueueFollows, SameThreadFollows
      <4>2. Shown(r)' <=> Shown(r)
        BY <2>2 DEF Shown
      <4> QED BY <2>2, <4>1, <4>2, KeepOwn DEF Owns
    <3> QED BY <2>2, <3>3 DEF Owns, SessionsKeepKind, Busy
  <2>6. CASE thread[h].raw # None
    <3>1. thread[h].raw = h /\ adapterQ' = Append(adapterQ, m)
      BY <1>3, <2>1, <2>6 DEF SendResponse, Own
    <3>2. outcome[h] = <<>> /\ h \in arrived /\ \A i : ~CarriesAt(adapterQ, h, i)
      BY <1>3, <2>1, <3>1 DEF Own, SendResponse
    <3>3. \A i : CarriesAt(adapterQ', h, i) => i = Len(adapterQ) + 1
      BY <2>4, <3>1, <3>2, AppendPlaces DEF NiTypeOK
    <3>4. \A i : CarriesAt(adapterQ', h, i) => adapterQ'[i] = m
      BY <2>4, <3>1, <3>3, AppendPlaces DEF NiTypeOK
    <3>5. \A i : CarriesAt(adapterQ', h, i) => adapterQ'[i].type # "notify"
      BY <3>4
    <3>6. \A i, j : CarriesAt(adapterQ', h, i) /\ CarriesAt(adapterQ', h, j) => i = j
      BY <3>3
    <3>7. Own(h)'
      BY <1>0, <2>2, <2>3, <3>2, <3>5, <3>6 DEF Own
    <3>8. ASSUME NEW r \in Requests, r # h
          PROVE  Own(r)'
      <4>1. Follows(r, 0) /\ ThreadFollows(r)
        BY <2>2, <2>4, <3>1, <3>8, AppendedFollows, SameThreadFollows
      <4>2. Shown(r)' <=> Shown(r)
        BY <2>2 DEF Shown
      <4> QED BY <2>2, <4>1, <4>2, KeepOwn DEF Owns
    <3> QED BY <2>2, <3>7, <3>8 DEF Owns, SessionsKeepKind, Busy
  <2> QED BY <2>5, <2>6
<1> QED BY <1>1, <1>2, <1>3 DEF Thread

LEMMA StepOwns ==
    ASSUME NiTypeOK, ArrivesOnce, Owns, [NiNext]_niVars
    PROVE  Owns'
<1>1. ASSUME NEW h \in Requests, NEW route \in {"deny", "accept", "show"}, RequestNi(h, route)
      PROVE  Owns'
  <2> DEFINE m == [type |-> "notify", req |-> h, what |-> route]
  <2>0. h # None
    BY NoneIsNoRequest DEF Requests
  <2>1. m \in Messages
    BY DEF Messages, Answers
  <2>2. /\ adapterQ' = Append(adapterQ, m) /\ arrived' = arrived \cup {h}
        /\ session' = session /\ thread' = thread /\ outcome' = outcome
    BY <1>1 DEF RequestNi
  <2>3. thread[h].at = "none" /\ outcome[h] = <<>> /\ \A i : ~CarriesAt(adapterQ, h, i)
    BY <1>1 DEF RequestNi, Owns, Own
  <2>4. thread[h].raw = None /\ ~Shown(h) /\ ~Running(h)
    BY <2>3 DEF Owns, Own, Leaving, Running
  <2>5. \A i : CarriesAt(adapterQ', h, i) => i = Len(adapterQ) + 1
    BY <2>1, <2>2, <2>3, AppendPlaces DEF NiTypeOK
  <2>6. \A i, j : CarriesAt(adapterQ', h, i) /\ CarriesAt(adapterQ', h, j) => i = j
    BY <2>5
  <2>a. \A i : CarriesAt(adapterQ', h, i) => adapterQ'[i].type = "notify"
    BY <2>1, <2>2, <2>5, AppendPlaces DEF NiTypeOK
  <2>7. ~Shown(h)' /\ ~Running(h)' /\ h \in arrived'
    BY <2>2, <2>4 DEF Shown, Running
  <2>8. Own(h)'
    BY <2>0, <2>2, <2>3, <2>4, <2>6, <2>7, <2>a DEF Own
  <2>9. ASSUME NEW r \in Requests, r # h
        PROVE  Own(r)'
    <3>1. Follows(r, 0) /\ ThreadFollows(r)
      BY <2>1, <2>2, <2>9, AppendedFollows, SameThreadFollows
    <3>2. Shown(r)' <=> Shown(r)
      BY <2>2 DEF Shown
    <3>3. r \in arrived' <=> r \in arrived
      BY <2>2, <2>9
    <3> QED BY <2>2, <3>1, <3>2, <3>3, KeepOwn DEF Owns
  <2> QED BY <2>2, <2>8, <2>9 DEF Owns, SessionsKeepKind, Busy
<1>2. ASSUME NEW h \in Requests, NEW reply \in Replies, UserAnswers(h, reply)
      PROVE  Owns'
  <2> DEFINE m == [type |-> "respond", req |-> h, what |-> reply]
  <2>1. m \in Messages
    BY RepliesAssumption DEF Messages, Answers
  <2>2. /\ adapterQ' = Append(adapterQ, m) /\ arrived' = arrived
        /\ session' = session /\ thread' = thread /\ outcome' = outcome
    BY <1>2 DEF UserAnswers
  <2>3. ASSUME NEW r \in Requests
        PROVE  Own(r)'
    <3>1. Follows(r, 0) /\ ThreadFollows(r)
      BY <2>1, <2>2, AppendedFollows, SameThreadFollows
    <3>2. Shown(r)' <=> Shown(r)
      BY <2>2 DEF Shown
    <3> QED BY <2>2, <3>1, <3>2, KeepOwn DEF Owns
  <2> QED BY <2>2, <2>3 DEF Owns, SessionsKeepKind, Busy
<1>3. CASE ClientChanges \/ UNCHANGED niVars
  <2>1. /\ adapterQ' = adapterQ /\ arrived' = arrived
        /\ session' = session /\ thread' = thread /\ outcome' = outcome
    BY <1>3 DEF ClientChanges, niVars
  <2>2. ASSUME NEW r \in Requests
        PROVE  Own(r)'
    <3>1. Follows(r, 0) /\ ThreadFollows(r)
      BY <2>1, SameQueueFollows, SameThreadFollows
    <3>2. Shown(r)' <=> Shown(r)
      BY <2>1 DEF Shown
    <3> QED BY <2>1, <3>1, <3>2, KeepOwn DEF Owns
  <2> QED BY <2>1, <2>2 DEF Owns, SessionsKeepKind, Busy
<1> QED BY <1>1, <1>2, <1>3, HandlerOwns, ThreadStepOwns DEF NiNext
-----------------------------------------------------------------------------
LEMMA NiInvInductive == NiSpec => []NiInv
<1>1. NiInit => NiInv
  <2> SUFFICES ASSUME NiInit
               PROVE  NiInv
    OBVIOUS
  <2>1. NiTypeOK
    BY DEF NiInit, NiTypeOK, Idle, NoThread, Sessions, Threads, Held, Answers
  <2>2. SessionsKeepKind
    BY DEF NiInit, SessionsKeepKind, Busy, Idle
  <2>3. ASSUME NEW r \in Requests
        PROVE  Own(r)
    <3>1. r # None /\ Kind(r) \in Kinds
      BY KindIsKind, NoneIsNoRequest DEF Requests
    <3>2. ~Shown(r) /\ ~Running(r) /\ thread[r].at = "none" /\ thread[r].raw = None
      BY <3>1 DEF NiInit, Shown, Running, Idle, NoThread
    <3>3. outcome[r] = <<>> /\ \A i : ~CarriesAt(adapterQ, r, i)
      BY DEF NiInit, CarriesAt
    <3> QED BY <3>1, <3>2, <3>3 DEF Own
  <2> QED BY <2>1, <2>2, <2>3, OwnView DEF NiInv
<1>2. NiInv <=> NiTypeOK /\ Owns
  BY OwnView DEF NiInv, Owns
<1>3. ASSUME NiInv, [NiNext]_niVars
      PROVE  (NiTypeOK /\ Owns)'
  BY <1>2, <1>3, StepTypes, StepOwns DEF NiInv
<1> QED BY <1>1, <1>2, <1>3, PTL DEF NiSpec

(* The sessions, their threads and their messages stay well-formed: an     *)
(* answered session has an answer, a thread that has finished has one.     *)
THEOREM NiTypeCorrect == NiSpec => []NiTypeOK
<1>1. NiInv => NiTypeOK
  BY DEF NiInv
<1> QED BY <1>1, NiInvInductive, PTL

(* A raw request of the network has one owner, and is answered or freed    *)
(* once at most (requestNiNotify, niThreadProc, gnssNiResponseCommand).    *)
THEOREM NiOwnedOnce == NiSpec => []OwnedOnce
<1>1. NiInv => OwnedOnce
  BY DEF NiInv
<1> QED BY <1>1, NiInvInductive, PTL

(* A busy session has a thread that has not finished and will end it       *)
(* (requestNiNotify, niThreadProc).                                        *)
THEOREM NiThreadPerSession == NiSpec => []ThreadPerSession
<1>1. NiInv => ThreadPerSession
  BY DEF NiInv
<1> QED BY <1>1, NiInvInductive, PTL
-----------------------------------------------------------------------------
(* The refinement of NiRequests. In a step, the fate of one request        *)
(* changes, and the others' is decided by what stays the same.             *)

LEMMA FateMoves ==
    ASSUME NEW h \in Requests, \A q \in Requests \ {h} : FateOf(q)' = FateOf(q)
    PROVE  Fate' = [Fate EXCEPT ![h] = FateOf(h)']
BY DEF Fate

LEMMA FateStays ==
    ASSUME \A q \in Requests : FateOf(q)' = FateOf(q)
    PROVE  Fate' = Fate
BY DEF Fate

\* the fate of q is not changed
LEMMA SameFate ==
    ASSUME NEW q \in Requests, outcome'[q] = outcome[q], q \in arrived' <=> q \in arrived,
           Running(q)' <=> Running(q), (thread[q].at = "none")' <=> thread[q].at = "none",
           thread[q].at = "none" => (Carried(q)' = {} <=> Carried(q) = {})
    PROVE  FateOf(q)' = FateOf(q)
BY DEF FateOf, Running

LEMMA NoneCarried ==
    ASSUME NEW q
    PROVE  Carried(q) = {} <=> \A i : ~CarriesAt(adapterQ, q, i)
BY CarriedAt

LEMMA AppendedCarries ==
    ASSUME NiTypeOK, NEW m \in Messages, adapterQ' = Append(adapterQ, m), NEW q,
           m.req # q \/ m.type = "respond"
    PROVE  Carried(q)' = {} <=> Carried(q) = {}
<1>1. \A i : CarriesAt(adapterQ', q, i) <=> CarriesAt(adapterQ, q, i)
  BY AppendPlaces DEF NiTypeOK
<1>2. Carried(q)' = {} <=> \A i : ~CarriesAt(adapterQ', q, i)
  BY DEF Carried, CarriesAt
<1> QED BY <1>1, <1>2, NoneCarried

LEMMA TakenCarries ==
    ASSUME NiTypeOK, NEW type, TakeNi(type), NEW q, ~CarriesAt(adapterQ, q, 1)
    PROVE  Carried(q)' = {} <=> Carried(q) = {}
<1>1. \A i : CarriesAt(adapterQ', q, i) => CarriesAt(adapterQ, q, i + 1)
  BY TailPlaces DEF TakeNi, NiTypeOK
<1>2. ASSUME NEW i, CarriesAt(adapterQ, q, i)
      PROVE  CarriesAt(adapterQ', q, i - 1)
  BY <1>2 DEF CarriesAt, TakeNi, NiTypeOK
<1>3. Carried(q)' = {} <=> \A i : ~CarriesAt(adapterQ', q, i)
  BY DEF Carried, CarriesAt
<1> QED BY <1>1, <1>2, <1>3, NoneCarried

LEMMA Moves ==
    ASSUME NEW h \in Requests, \A q \in Requests \ {h} : FateOf(q)' = FateOf(q),
           NEW from, NEW to, FateOf(h) = from, FateOf(h)' \in to
    PROVE  Promise!Becomes(h, from, to)
<1>1. Fate[h] = from
  BY DEF Fate
<1>2. Fate' = [Fate EXCEPT ![h] = FateOf(h)']
  BY FateMoves
<1> QED BY <1>1, <1>2 DEF Promise!Becomes

\* the fate of a request at the head of the queue, and of the others
LEMMA HeadFate ==
    ASSUME NiTypeOK, Owns, NEW type, TakeNi(type), NEW h \in Requests, CarriesAt(adapterQ, h, 1)
    PROVE  /\ outcome[h] = <<>> /\ h \in arrived /\ ~Running(h) /\ Carried(h) # {} /\ Carried(h)' = {}
           /\ adapterQ[1].type = "notify" => FateOf(h) = "pending"
           /\ adapterQ[1].type # "notify" => FateOf(h) = "ending"
           /\ \A q \in Requests \ {h} : Carried(q)' = {} <=> Carried(q) = {}
<1>1. Own(h)
  BY DEF Owns
<1>2. /\ outcome[h] = <<>> /\ ~Shown(h) /\ h \in arrived
      /\ \A i : ~CarriesAt(adapterQ', h, i)
  BY <1>1, HeadTaken
<1>3. ~Running(h) /\ (adapterQ[1].type = "notify" <=> thread[h].at = "none")
  BY <1>1, <1>2 DEF Own
<1>4. Carried(h) # {}
  BY NoneCarried
<1>5. Carried(h)' = {}
  BY <1>2 DEF Carried, CarriesAt
<1>6. adapterQ[1].type = "notify" => FateOf(h) = "pending"
  BY <1>2, <1>3, <1>4 DEF FateOf
<1>7. adapterQ[1].type # "notify" => FateOf(h) = "ending"
  BY <1>2, <1>3 DEF FateOf, Running
<1>8. ASSUME NEW q \in Requests \ {h}
      PROVE  Carried(q)' = {} <=> Carried(q) = {}
  <2>1. ~CarriesAt(adapterQ, q, 1)
    BY <1>8 DEF CarriesAt
  <2> QED BY <2>1, TakenCarries
<1> QED BY <1>2, <1>3, <1>4, <1>5, <1>6, <1>7, <1>8

\* the engine is answered for h, or h is freed
LEMMA HeadEndsFate ==
    ASSUME NiTypeOK, Owns, NEW type, TakeNi(type), NEW a, NEW h \in Requests, CarriesAt(adapterQ, h, 1),
           EndsAs(h, a), thread' = thread
    PROVE  /\ FateOf(h)' \in {"answered", "freed"} /\ (a # "freed" => FateOf(h)' = "answered")
           /\ \A q \in Requests \ {h} : FateOf(q)' = FateOf(q)
<1>1. /\ outcome[h] = <<>> /\ arrived' = arrived
      /\ \A q \in Requests \ {h} : Carried(q)' = {} <=> Carried(q) = {}
  BY HeadFate DEF TakeNi
<1>2. /\ outcome'[h] = <<a>>
      /\ \A q \in Requests \ {h} : outcome'[q] = outcome[q]
  BY <1>1 DEF EndsAs, NiTypeOK
<1>3. FateOf(h)' = IF a = "freed" THEN "freed" ELSE "answered"
  BY <1>2 DEF FateOf
<1>4. \A q \in Requests : Running(q)' <=> Running(q)
  BY DEF Running
<1> QED BY <1>1, <1>2, <1>3, <1>4, SameFate

LEMMA NotifyKeepsPromise ==
    ASSUME NiTypeOK, Owns, ArrivesOnce, HandleNotify
    PROVE  Promise!Next
<1>1. PICK h \in Requests : h = Head(adapterQ).req
  BY TakeTypes DEF HandleNotify
<1>2. /\ TakeNi("notify") /\ CarriesAt(adapterQ, h, 1) /\ thread[h].at = "none"
      /\ thread \in [Requests -> Threads] /\ arrived' = arrived
  BY <1>1, NotifyIsFirst DEF HandleNotify, TakeNi, NiTypeOK
<1>3. adapterQ[1].type = "notify"
  BY <1>2, TailPlaces DEF TakeNi, NiTypeOK
<1>4. /\ FateOf(h) = "pending" /\ outcome[h] = <<>> /\ h \in arrived /\ Carried(h)' = {}
      /\ \A q \in Requests \ {h} : Carried(q)' = {} <=> Carried(q) = {}
  BY <1>2, <1>3, HeadFate
<1>5. h \in Promise!Requests
  BY DEF Promise!Requests, Requests
<1>6. ASSUME NEW a, EndsAs(h, a), NotShown
      PROVE  Promise!Decided(h)
  <2>1. /\ FateOf(h)' \in {"answered", "freed", "dropped"}
        /\ \A q \in Requests \ {h} : FateOf(q)' = FateOf(q)
    BY <1>2, <1>6, HeadEndsFate DEF NotShown
  <2> QED BY <1>4, <2>1, Moves DEF Promise!Decided
<1>7. CASE UNCHANGED outcome /\ NotShown
  <2>1. FateOf(h)' = "dropped"
    BY <1>2, <1>4, <1>7 DEF FateOf, NotShown
  <2>2. ASSUME NEW q \in Requests \ {h}
        PROVE  FateOf(q)' = FateOf(q)
    <3>1. Running(q)' <=> Running(q)
      BY <1>7 DEF Running, NotShown
    <3> QED BY <1>2, <1>4, <1>7, <2>2, <3>1, SameFate DEF NotShown
  <2>3. Promise!Decided(h)
    BY <1>4, <2>1, <2>2, Moves DEF Promise!Decided
  <2> QED BY <1>5, <2>3 DEF Promise!Next
<1>8. CASE BeginSession(h) /\ ~Ignored(h)
  <2>1. /\ thread'[h].at \in {"start", "missing"} /\ outcome' = outcome
        /\ \A q \in Requests \ {h} : thread'[q] = thread[q]
    BY <1>2, <1>8 DEF BeginSession, Moved
  <2>2. FateOf(h)' = "shown"
    BY <1>2, <1>4, <2>1 DEF FateOf
  <2>3. ASSUME NEW q \in Requests \ {h}
        PROVE  FateOf(q)' = FateOf(q)
    <3>1. Running(q)' <=> Running(q)
      BY <2>1, <2>3 DEF Running
    <3> QED BY <1>2, <1>4, <2>1, <2>3, <3>1, SameFate
  <2>4. ASSUME NEW q \in Requests, Fate[q] = "shown"
        PROVE  q \in SuplRequests /\ h \in EsRequests
    <3>1. Running(q) /\ Own(q) /\ q # None
      BY <2>4, NoneIsNoRequest DEF Fate, FateOf, Running, Owns, Requests
    <3>2. Busy(Kind(q))
      BY <3>1 DEF Own, Shown, Busy
    <3>3. Kind(q) # "es" /\ Kind(q) # Kind(h)
      BY <1>8, <3>2 DEF Ignored
    <3> QED BY <3>3 DEF Kind, Requests
  <2>5. Promise!Becomes(h, "pending", {"shown"})
    BY <1>4, <2>2, <2>3, Moves
  <2>6. Promise!Shows(h)
    BY <2>4, <2>5 DEF Promise!Shows, Promise!Requests, Requests
  <2> QED BY <1>5, <2>6 DEF Promise!Next
<1>9. (\E a : EndsAs(h, a) /\ NotShown) \/ (UNCHANGED outcome /\ NotShown) \/ (BeginSession(h) /\ ~Ignored(h))
  BY <1>1 DEF HandleNotify, RequestNiNotify
<1> QED BY <1>5, <1>6, <1>7, <1>8, <1>9 DEF Promise!Next

LEMMA FinishKeepsPromise ==
    ASSUME NiTypeOK, Owns, NEW h \in Requests, NEW a, thread[h].at \in {"start", "waiting"}, Finish(h, a)
    PROVE  Promise!Next
<1>0. h # None /\ session[Kind(h)].raw = h /\ outcome[h] = <<>> /\ h \in arrived
  BY NoneIsNoRequest DEF Owns, Own, Running, Shown, Requests
<1>1. /\ thread'[h].at = "clearing" /\ adapterQ' = adapterQ /\ arrived' = arrived
      /\ \A q \in Requests \ {h} : thread'[q] = thread[q]
  BY DEF Finish, Others, NiTypeOK
<1>2. /\ a = "ignore" => outcome'[h] = <<"freed">>
      /\ a # "ignore" => outcome'[h] = <<>>
      /\ \A q \in Requests \ {h} : outcome'[q] = outcome[q]
  BY <1>0 DEF Finish, EndsAs, NiTypeOK
<1>3. FateOf(h) = "shown"
  BY <1>0 DEF FateOf
<1>4. a = "ignore" => FateOf(h)' = "freed"
  <2>1. SUFFICES ASSUME a = "ignore" PROVE FateOf(h)' = "freed"
    OBVIOUS
  <2>2. outcome'[h] = <<"freed">>
    BY <1>2, <2>1
  <2>3. outcome'[h] # <<>> /\ outcome'[h][1] = "freed"
    BY <2>2
  <2> QED BY <2>3 DEF FateOf
<1>5. a # "ignore" => FateOf(h)' = "ending"
  BY <1>0, <1>1, <1>2 DEF FateOf
<1>6. ASSUME NEW q \in Requests \ {h}
      PROVE  FateOf(q)' = FateOf(q)
  <2>1. Running(q)' <=> Running(q)
    BY <1>1, <1>6 DEF Running
  <2>2. Carried(q)' = Carried(q)
    BY <1>1 DEF Carried
  <2> QED BY <1>1, <1>2, <1>6, <2>1, <2>2, SameFate
<1>7. Promise!Ends(h)
  <2>1. FateOf(h)' \in {"ending", "freed"}
    BY <1>4, <1>5
  <2> QED BY <1>3, <1>6, <2>1, Moves DEF Promise!Ends
<1> QED BY <1>7 DEF Promise!Next, Promise!Requests, Requests

LEMMA StepKeepsPromise ==
    ASSUME NiTypeOK, Owns, ArrivesOnce, [NiNext]_niVars
    PROVE  [Promise!Next]_Fate
<1>1. ASSUME NEW h \in Requests, NEW route \in {"deny", "accept", "show"}, RequestNi(h, route)
      PROVE  Promise!Next
  <2> DEFINE m == [type |-> "notify", req |-> h, what |-> route]
  <2>1. m \in Messages
    BY DEF Messages, Answers
  <2>2. /\ adapterQ' = Append(adapterQ, m) /\ arrived' = arrived \cup {h} /\ h \notin arrived
        /\ session' = session /\ thread' = thread /\ outcome' = outcome
    BY <1>1 DEF RequestNi
  <2>3. thread[h].at = "none" /\ outcome[h] = <<>>
    BY <2>2 DEF Owns, Own
  <2>4. Carried(h)' # {}
    <3>1. Len(adapterQ) + 1 \in DOMAIN adapterQ' /\ adapterQ'[Len(adapterQ) + 1] = m
      BY <2>1, <2>2 DEF NiTypeOK
    <3>2. Len(adapterQ) + 1 \in Carried(h)'
      BY <3>1 DEF Carried
    <3> QED BY <3>2
  <2>5. FateOf(h) = "unknown" /\ FateOf(h)' = "pending"
    BY <2>2, <2>3, <2>4 DEF FateOf
  <2>6. ASSUME NEW q \in Requests \ {h}
        PROVE  FateOf(q)' = FateOf(q)
    <3>1. Running(q)' <=> Running(q)
      BY <2>2 DEF Running
    <3>2. Carried(q)' = {} <=> Carried(q) = {}
      BY <2>1, <2>2, <2>6, AppendedCarries
    <3> QED BY <2>2, <2>6, <3>1, <3>2, SameFate
  <2>7. Promise!Arrives(h)
    BY <2>5, <2>6, Moves DEF Promise!Arrives
  <2> QED BY <2>7 DEF Promise!Next, Promise!Requests, Requests
<1>2. CASE HandleNotify
  BY <1>2, NotifyKeepsPromise
<1>3. CASE InformEngine
  <2>1. PICK h \in Requests : h = Head(adapterQ).req
    BY <1>3, TakeTypes DEF InformEngine
  <2>2. /\ TakeNi("inform") /\ Head(adapterQ) \in Messages /\ adapterQ[1].type = "inform"
        /\ Head(adapterQ) = adapterQ[1] /\ 1 \in DOMAIN adapterQ
    BY <1>3, TakeTypes, TailPlaces DEF InformEngine, TakeNi, NiTypeOK
  <2>3. CarriesAt(adapterQ, h, 1)
    BY <2>1, <2>2 DEF CarriesAt
  <2>4. Head(adapterQ).what # "freed"
    BY <2>2 DEF Messages, Answers
  <2>5. /\ FateOf(h)' = "answered"
        /\ \A q \in Requests \ {h} : FateOf(q)' = FateOf(q)
    BY <1>3, <2>1, <2>2, <2>3, <2>4, HeadEndsFate DEF InformEngine
  <2>6. FateOf(h) = "ending"
    BY <2>2, <2>3, HeadFate
  <2>7. Promise!Answered(h)
    BY <2>5, <2>6, Moves DEF Promise!Answered
  <2> QED BY <2>7 DEF Promise!Next, Promise!Requests, Requests
<1>4. CASE \/ HandleResponse
           \/ \E h \in Requests, reply \in Replies : UserAnswers(h, reply)
           \/ MarkSession \/ ClientChanges \/ UNCHANGED niVars
  <2>1. outcome' = outcome /\ arrived' = arrived /\ thread' = thread
    BY <1>4 DEF HandleResponse, TakeNi, UserAnswers, MarkSession, ClientChanges, niVars
  <2>2. ASSUME NEW q \in Requests
        PROVE  Carried(q)' = {} <=> Carried(q) = {}
    <3>1. CASE HandleResponse
      <4>1. Head(adapterQ).type = "respond" /\ Head(adapterQ) = adapterQ[1]
        BY <3>1, TakeTypes, TailPlaces DEF HandleResponse, TakeNi, NiTypeOK
      <4>2. ~CarriesAt(adapterQ, q, 1)
        BY <4>1 DEF CarriesAt
      <4> QED BY <3>1, <4>2, TakenCarries DEF HandleResponse
    <3>2. ASSUME NEW h \in Requests, NEW reply \in Replies, UserAnswers(h, reply)
          PROVE  Carried(q)' = {} <=> Carried(q) = {}
      <4>1. [type |-> "respond", req |-> h, what |-> reply] \in Messages
        BY RepliesAssumption DEF Messages, Answers
      <4> QED BY <3>2, <4>1, AppendedCarries DEF UserAnswers
    <3>3. CASE adapterQ' = adapterQ
      BY <3>3 DEF Carried
    <3> QED BY <1>4, <3>1, <3>2, <3>3 DEF MarkSession, ClientChanges, niVars
  <2>3. \A q \in Requests : FateOf(q)' = FateOf(q)
    <3>1. \A q \in Requests : Running(q)' <=> Running(q)
      BY <2>1 DEF Running
    <3> QED BY <2>1, <2>2, <3>1, SameFate
  <2> QED BY <2>3, FateStays
<1>5. ASSUME NEW h \in Requests, Thread(h)
      PROVE  [Promise!Next]_Fate
  <2>1. CASE Answered(h) \/ TimesOut(h)
    BY <2>1, FinishKeepsPromise DEF Answered, TimesOut
  <2>2. CASE StartWaiting(h) \/ ClearSession(h) \/ SendResponse(h)
    <3>1. /\ outcome' = outcome /\ arrived' = arrived /\ thread[h].at # "none" /\ thread'[h].at # "none"
          /\ Running(h)' <=> Running(h)
          /\ \A q \in Requests \ {h} : thread'[q] = thread[q]
      BY <2>2 DEF StartWaiting, ClearSession, SendResponse, Others, Moved, Running, NiTypeOK
    <3>2. ASSUME NEW q \in Requests \ {h}
          PROVE  Carried(q)' = {} <=> Carried(q) = {}
      <4>1. CASE adapterQ' = adapterQ
        BY <4>1 DEF Carried
      <4>2. CASE SendResponse(h) /\ adapterQ' # adapterQ
        <5> DEFINE m == [type |-> "inform", req |-> thread[h].raw, what |-> thread[h].answer]
        <5>1. thread[h] \in Threads /\ adapterQ' = Append(adapterQ, m) /\ thread[h].raw # None
          BY <4>2 DEF SendResponse, NiTypeOK
        <5>2. thread[h].raw = h /\ thread[h].answer \in Answers
          BY <4>2, <5>1 DEF Owns, Own, SendResponse, Threads
        <5>3. m \in Messages
          BY <5>2 DEF Messages
        <5> QED BY <3>2, <5>1, <5>2, <5>3, AppendedCarries
      <4> QED BY <2>2, <4>1, <4>2 DEF StartWaiting, ClearSession
    <3>3. ASSUME NEW q \in Requests
          PROVE  FateOf(q)' = FateOf(q)
      <4>1. CASE q = h
        BY <3>1, <4>1, SameFate
      <4>2. CASE q # h
        <5>1. Running(q)' <=> Running(q)
          BY <3>1, <4>2 DEF Running
        <5> QED BY <3>1, <3>2, <4>2, <5>1, SameFate
      <4> QED BY <4>1, <4>2
    <3> QED BY <3>3, FateStays
  <2> QED BY <1>5, <2>1, <2>2 DEF Thread
<1> QED BY <1>1, <1>2, <1>3, <1>4, <1>5 DEF NiNext, Adapter

(* The sessions, with their queue, threads and flags, implement NiRequests: *)
(* a request is shown one at a time but for an emergency, and goes its way *)
(* to its end without a step back (GnssAdapter.cpp 3489-3588, 4488-4765).  *)
THEOREM NiKeepsPromise == NiSpec => PromiseKept
<1>1. NiInit => Promise!Init
  <2> SUFFICES ASSUME NiInit
               PROVE  Promise!Init
    OBVIOUS
  <2>1. \A r \in Requests : FateOf(r) = "unknown"
    BY DEF NiInit, FateOf
  <2> QED BY <2>1 DEF Promise!Init, Promise!Requests, Requests, Fate
<1>2. NiInv /\ [NiNext]_niVars => [Promise!Next]_Fate
  BY OwnView, StepKeepsPromise DEF NiInv, Owns
<1> QED BY <1>1, <1>2, NiInvInductive, PTL DEF NiSpec, PromiseKept, Promise!Spec
-----------------------------------------------------------------------------
(* Why a session ends as it does. An answer that is not the own user's is  *)
(* excused by a time-out, an emergency or a late user of the same session. *)

Ended(r) == thread[r].at \in {"clearing", "sending", "done"}

Excused(k, a) ==
    \/ a = "no_response"
    \/ a = "ignore" /\ k = "supl" /\ EsAccepted
    \/ \E late \in Requests : Kind(late) = k /\ Late(late) /\ given[late] = a

\* the user's answer to r waits in the queue
RespondsAt(q, r, i) == i \in DOMAIN q /\ q[i].type = "respond" /\ q[i].req = r
Waits(r) == \E i : RespondsAt(adapterQ, r, i)

\* a is what the user answered to the request the session holds, and is used up
OwnAnswer(k, a) ==
    Busy(k) /\ a = given[session[k].raw] /\ ~Waits(session[k].raw)

IdFits(k) == Busy(k) => session[k].id \in {None, session[k].raw}
AnswersFit ==
    \A r \in Requests : \A i, j :
        RespondsAt(adapterQ, r, i) /\ RespondsAt(adapterQ, r, j) =>
            i = j /\ adapterQ[i].what = given[r]
FlagFits(k) ==
    session[k].answered =>
        Excused(k, session[k].answer) \/ OwnAnswer(k, session[k].answer)
MarkFits(m) ==
    \/ Excused(m.kind, m.answer)
    \/ /\ OwnAnswer(m.kind, m.answer)
       /\ session[m.kind].answered => Excused(m.kind, session[m.kind].answer)
MarksFit ==
    /\ \A i \in DOMAIN marks : MarkFits(marks[i])
    /\ \A i, j \in DOMAIN marks : marks[i].kind = marks[j].kind => i = j
EndFits(r) ==
    Ended(r) => Excused(Kind(r), thread[r].answer) \/ thread[r].answer = given[r]

Reasons ==
    /\ \A k \in Kinds : IdFits(k) /\ FlagFits(k)
    /\ AnswersFit /\ MarksFit
    /\ \A r \in Requests : EndFits(r)

\* what has been said, and how a thread has ended, stays so
Remembers ==
    /\ \A r \in Requests : given[r] # "none" => given'[r] = given[r]
    /\ \A r \in Requests : Ended(r) => Ended(r)' /\ thread'[r].answer = thread[r].answer
    /\ EsAccepted => EsAccepted'

LEMMA ExcuseStays ==
    ASSUME Remembers, NEW k, NEW a, Excused(k, a)
    PROVE  Excused(k, a)'
<1>1. CASE a = "ignore" /\ k = "supl" /\ EsAccepted
  BY <1>1 DEF Excused, Remembers
<1>2. ASSUME NEW late \in Requests, Kind(late) = k, Late(late), given[late] = a
      PROVE  Excused(k, a)'
  <2>1. given[late] # "none" /\ Ended(late) /\ thread[late].answer # given[late]
    BY <1>2 DEF Late, Ended
  <2>2. given'[late] = a /\ Ended(late)' /\ thread'[late].answer = thread[late].answer
    BY <1>2, <2>1 DEF Remembers
  <2>3. Late(late)'
    BY <1>2, <2>1, <2>2 DEF Late, Ended
  <2> QED BY <1>2, <2>2, <2>3 DEF Excused
<1> QED BY <1>1, <1>2 DEF Excused

LEMMA AcceptedStays ==
    ASSUME NiTypeOK, \A r \in Requests : given[r] # "none" => given'[r] = given[r],
           UNCHANGED outcome \/ \E r \in Requests : \E a : EndsAs(r, a)
    PROVE  EsAccepted => EsAccepted'
<1>1. ASSUME NEW e \in EsRequests, given[e] = "accept"
      PROVE  EsAccepted'
  <2>1. given'[e] = "accept"
    BY <1>1 DEF Requests
  <2> QED BY <2>1 DEF EsAccepted
<1>2. ASSUME NEW e \in EsRequests, NEW i \in DOMAIN outcome[e], outcome[e][i] = "accept"
      PROVE  EsAccepted'
  <2>1. e \in Requests /\ outcome[e] \in Seq(Ends) /\ outcome \in [Requests -> Seq(Ends)]
    BY DEF Requests, NiTypeOK
  <2>2. i \in DOMAIN outcome'[e] /\ outcome'[e][i] = "accept"
    <3>1. CASE UNCHANGED outcome
      BY <1>2, <3>1
    <3>2. ASSUME NEW r \in Requests, NEW a, EndsAs(r, a)
          PROVE  i \in DOMAIN outcome'[e] /\ outcome'[e][i] = "accept"
      <4>1. CASE r = e
        <5>1. outcome'[e] = Append(outcome[e], a)
          BY <2>1, <3>2, <4>1 DEF EndsAs
        <5>2. i \in 1..Len(outcome[e])
          BY <1>2, <2>1
        <5> QED BY <1>2, <2>1, <5>1, <5>2
      <4>2. CASE r # e
        <5>1. outcome'[e] = outcome[e]
          BY <2>1, <3>2, <4>2 DEF EndsAs
        <5> QED BY <1>2, <5>1
      <4> QED BY <4>1, <4>2
    <3> QED BY <3>1, <3>2
  <2> QED BY <2>2 DEF EsAccepted
<1> QED BY <1>1, <1>2 DEF EsAccepted

\* everything but the user's answer and the ways of a thread
LEMMA HandlerRemembers ==
    ASSUME NiTypeOK, UNCHANGED given,
           \A r \in Requests : Ended(r) => thread'[r] = thread[r],
           UNCHANGED outcome \/ \E r \in Requests : \E a : EndsAs(r, a)
    PROVE  Remembers
<1>1. EsAccepted => EsAccepted'
  BY AcceptedStays
<1>2. \A r \in Requests : Ended(r) => Ended(r)' /\ thread'[r].answer = thread[r].answer
  BY DEF Ended
<1> QED BY <1>1, <1>2 DEF Remembers

LEMMA ThreadRemembers ==
    ASSUME NiTypeOK, NEW r \in Requests, Thread(r)
    PROVE  Remembers
<1>1. UNCHANGED given /\ \A q \in Requests \ {r} : thread'[q] = thread[q]
  BY DEF Thread, StartWaiting, Answered, TimesOut, Finish, ClearSession, SendResponse, Others, NiTypeOK
<1>2. Ended(r) => Ended(r)' /\ thread'[r].answer = thread[r].answer
  BY DEF Thread, StartWaiting, Answered, TimesOut, ClearSession, SendResponse, Ended, Moved, NiTypeOK
<1>3. UNCHANGED outcome \/ \E q \in Requests : \E a : EndsAs(q, a)
  <2>1. ASSUME NEW a, Finish(r, a), ~UNCHANGED outcome
        PROVE  \E q \in Requests : \E b : EndsAs(q, b)
    <3>1. session[Kind(r)].raw # None /\ EndsAs(session[Kind(r)].raw, "freed")
      BY <2>1 DEF Finish
    <3>2. session[Kind(r)].raw \in Requests
      BY <3>1, KindIsKind DEF NiTypeOK, Sessions, Held
    <3> QED BY <3>1, <3>2
  <2> QED BY <2>1 DEF Thread, StartWaiting, Answered, TimesOut, ClearSession, SendResponse
<1>4. EsAccepted => EsAccepted'
  BY <1>1, <1>3, AcceptedStays
<1>5. ASSUME NEW q \in Requests, Ended(q)
      PROVE  Ended(q)' /\ thread'[q].answer = thread[q].answer
  <2>1. CASE q = r
    BY <1>2, <1>5, <2>1
  <2>2. CASE q # r
    BY <1>1, <1>5, <2>2 DEF Ended
  <2> QED BY <2>1, <2>2
<1> QED BY <1>1, <1>4, <1>5 DEF Remembers
LEMMA RespondsAppended ==
    ASSUME NEW q \in Seq(Messages), NEW m \in Messages, NEW r, NEW i
    PROVE  /\ RespondsAt(Append(q, m), r, i) <=>
                  RespondsAt(q, r, i) \/ (i = Len(q) + 1 /\ m.type = "respond" /\ m.req = r)
           /\ RespondsAt(q, r, i) => Append(q, m)[i] = q[i] /\ i # Len(q) + 1
           /\ Append(q, m)[Len(q) + 1] = m
BY DEF RespondsAt

LEMMA RespondsTaken ==
    ASSUME NEW q \in Seq(Messages), q # <<>>, NEW r, NEW i, RespondsAt(Tail(q), r, i)
    PROVE  RespondsAt(q, r, i + 1) /\ Tail(q)[i] = q[i + 1] /\ i \in Nat /\ i # 0
BY DEF RespondsAt

\* the queue after a step has no answers it had not, but for one just given
LEMMA TakenAnswers ==
    ASSUME NiTypeOK, AnswersFit, NEW type, TakeNi(type)
    PROVE  /\ AnswersFit'
           /\ \A r : Waits(r)' => Waits(r)
           /\ \A r \in Requests : RespondsAt(adapterQ, r, 1) => ~Waits(r)'
<1>1. /\ adapterQ \in Seq(Messages) /\ adapterQ # <<>>
      /\ adapterQ' = Tail(adapterQ) /\ given' = given
  BY DEF TakeNi, NiTypeOK
<1>2. ASSUME NEW r, NEW i, RespondsAt(adapterQ', r, i)
      PROVE  RespondsAt(adapterQ, r, i + 1) /\ adapterQ'[i] = adapterQ[i + 1] /\ i \in Nat /\ i # 0
  BY <1>1, <1>2, RespondsTaken
<1>3. ASSUME NEW r \in Requests, NEW i, NEW j, RespondsAt(adapterQ', r, i), RespondsAt(adapterQ', r, j)
      PROVE  i = j /\ adapterQ'[i].what = given'[r]
  <2>1. /\ RespondsAt(adapterQ, r, i + 1) /\ RespondsAt(adapterQ, r, j + 1)
        /\ adapterQ'[i] = adapterQ[i + 1] /\ i \in Nat /\ j \in Nat
    BY <1>2, <1>3
  <2>2. i + 1 = j + 1 /\ adapterQ[i + 1].what = given[r]
    BY <2>1 DEF AnswersFit
  <2>3. i = j
    BY <2>1, <2>2
  <2>4. adapterQ'[i].what = given[r] /\ given' = given
    BY <2>1, <2>2, <1>1
  <2> QED BY <2>3, <2>4
<1>4. AnswersFit'
  BY <1>3 DEF AnswersFit
<1>5. \A r : Waits(r)' => Waits(r)
  BY <1>2 DEF Waits
<1>6. ASSUME NEW r \in Requests, RespondsAt(adapterQ, r, 1)
      PROVE  ~Waits(r)'
  <2>1. ASSUME NEW i, RespondsAt(adapterQ', r, i)
        PROVE  FALSE
    <3>1. i \in Nat /\ i # 0 /\ RespondsAt(adapterQ, r, i + 1)
      BY <1>2, <2>1
    <3>2. i + 1 = 1
      BY ONLY AnswersFit, r \in Requests, <1>6, <3>1 DEF AnswersFit
    <3> QED BY <3>1, <3>2
  <2> QED BY <2>1 DEF Waits
<1> QED BY <1>4, <1>5, <1>6

LEMMA AppendedAnswers ==
    ASSUME NiTypeOK, AnswersFit, NEW m \in Messages, m.type # "respond",
           UNCHANGED adapterQ \/ adapterQ' = Append(adapterQ, m), UNCHANGED given
    PROVE  AnswersFit' /\ \A r : Waits(r)' <=> Waits(r)
<1>1. ASSUME NEW r, NEW i
      PROVE  /\ RespondsAt(adapterQ', r, i) <=> RespondsAt(adapterQ, r, i)
             /\ RespondsAt(adapterQ, r, i) => adapterQ'[i] = adapterQ[i]
  <2>1. CASE UNCHANGED adapterQ
    BY <2>1
  <2>2. CASE adapterQ' = Append(adapterQ, m)
    BY <2>2, RespondsAppended DEF NiTypeOK
  <2> QED BY <2>1, <2>2
<1>2. ASSUME NEW r \in Requests, NEW i, NEW j,
             RespondsAt(adapterQ', r, i), RespondsAt(adapterQ', r, j)
      PROVE  i = j /\ adapterQ'[i].what = given'[r]
  <2>1. /\ RespondsAt(adapterQ, r, i) /\ RespondsAt(adapterQ, r, j)
        /\ adapterQ'[i] = adapterQ[i] /\ given'[r] = given[r]
    BY <1>1, <1>2
  <2>2. i = j /\ adapterQ[i].what = given[r]
    BY ONLY AnswersFit, r \in Requests, <2>1 DEF AnswersFit
  <2> QED BY ONLY <2>1, <2>2
<1>3. AnswersFit'
  BY ONLY <1>2 DEF AnswersFit
<1>4. \A r : Waits(r)' <=> Waits(r)
  BY ONLY <1>1 DEF Waits
<1> QED BY <1>3, <1>4

LEMMA GivenAnswers ==
    ASSUME NiTypeOK, AnswersFit, NEW r \in Requests, NEW reply \in Replies, UserAnswers(r, reply)
    PROVE  /\ AnswersFit'
           /\ \A q \in Requests \ {r} : (Waits(q)' <=> Waits(q)) /\ given'[q] = given[q]
<1> DEFINE m == [type |-> "respond", req |-> r, what |-> reply]
<1>1. reply \in Answers /\ m \in Messages /\ adapterQ \in Seq(Messages)
  BY RepliesAssumption DEF Messages, Answers, NiTypeOK
<1>2. /\ adapterQ' = Append(adapterQ, m) /\ given[r] = "none" /\ given'[r] = reply
      /\ \A q \in Requests \ {r} : given'[q] = given[q]
  BY DEF UserAnswers, NiTypeOK
<1>3. ASSUME NEW i, RespondsAt(adapterQ, r, i)
      PROVE  FALSE
  <2>1. adapterQ[i].what = "none"
    BY <1>2, <1>3 DEF AnswersFit
  <2>2. adapterQ[i].what \in Answers
    BY <1>1, <1>3 DEF RespondsAt, Messages
  <2> QED BY <2>1, <2>2 DEF Answers
<1>4. ASSUME NEW q, NEW i
      PROVE  /\ RespondsAt(adapterQ', q, i) <=> RespondsAt(adapterQ, q, i) \/ (i = Len(adapterQ) + 1 /\ q = r)
             /\ RespondsAt(adapterQ, q, i) => adapterQ'[i] = adapterQ[i]
  <2>1. m.type = "respond" /\ m.req = r
    OBVIOUS
  <2> HIDE DEF m
  <2>2. /\ RespondsAt(Append(adapterQ, m), q, i) <=>
               RespondsAt(adapterQ, q, i) \/ (i = Len(adapterQ) + 1 /\ m.type = "respond" /\ m.req = q)
        /\ RespondsAt(adapterQ, q, i) => Append(adapterQ, m)[i] = adapterQ[i]
    BY ONLY <1>1, RespondsAppended, ZenonT(60)
  <2>3. adapterQ' = Append(adapterQ, m)
    BY <1>2
  <2> QED BY <2>1, <2>2, <2>3, Zenon
<1>5. adapterQ'[Len(adapterQ) + 1] = m
  BY <1>1, <1>2
<1>6. ASSUME NEW q \in Requests, NEW i, NEW j, RespondsAt(adapterQ', q, i), RespondsAt(adapterQ', q, j)
      PROVE  i = j /\ adapterQ'[i].what = given'[q]
  <2>1. CASE q = r
    <3>1. i = Len(adapterQ) + 1 /\ j = Len(adapterQ) + 1
      BY <1>3, <1>4, <1>6, <2>1
    <3> QED BY <1>2, <1>5, <2>1, <3>1
  <2>2. CASE q # r
    <3>1. RespondsAt(adapterQ, q, i) /\ RespondsAt(adapterQ, q, j) /\ adapterQ'[i] = adapterQ[i]
      BY <1>4, <1>6, <2>2
    <3> QED BY <1>2, <2>2, <3>1 DEF AnswersFit
  <2> QED BY <2>1, <2>2
<1>7. AnswersFit'
  BY <1>6 DEF AnswersFit
<1>8. \A q \in Requests \ {r} : Waits(q)' <=> Waits(q)
  BY <1>4 DEF Waits
<1> QED BY <1>2, <1>7, <1>8
-----------------------------------------------------------------------------
(* Steps that leave a session's answer, and the marks for it, alone        *)

\* the request k holds is the same, and its answer was used up before
OwnStays(k) ==
    /\ session'[k].raw = session[k].raw
    /\ Busy(k) => \/ given[session[k].raw] = "none"
                  \/ /\ given'[session[k].raw] = given[session[k].raw]
                     /\ Waits(session[k].raw)' => Waits(session[k].raw)

LEMMA OwnAnswerStays ==
    ASSUME NEW k, OwnStays(k), NEW a \in Answers, OwnAnswer(k, a)
    PROVE  OwnAnswer(k, a)'
<1>1. a # "none"
  BY DEF Answers
<1>2. Busy(k)' /\ session'[k].raw = session[k].raw /\ Busy(k)
  BY DEF OwnStays, OwnAnswer, Busy
<1>3. /\ given'[session[k].raw] = given[session[k].raw]
      /\ Waits(session[k].raw)' => Waits(session[k].raw)
  BY <1>1, <1>2 DEF OwnStays, OwnAnswer
<1>4. ~Waits(session[k].raw) /\ a = given[session[k].raw]
  BY DEF OwnAnswer
<1> QED BY <1>2, <1>3, <1>4 DEF OwnAnswer
\* a session that keeps its request, flag and answer keeps its reasons
LEMMA KindStays ==
    ASSUME NiTypeOK, Remembers, NEW k \in Kinds, OwnStays(k),
           session'[k].answered = session[k].answered, session'[k].answer = session[k].answer,
           session'[k].id \in {None, session[k].id}, IdFits(k), FlagFits(k)
    PROVE  /\ IdFits(k)' /\ FlagFits(k)'
           /\ \A m \in Marks : m.kind = k /\ MarkFits(m) => MarkFits(m)'
<1>1. session'[k].raw = session[k].raw /\ (Busy(k)' <=> Busy(k))
  BY DEF OwnStays, Busy
<1>2. IdFits(k)'
  BY <1>1 DEF IdFits
<1>3. ASSUME NEW a \in Answers
      PROVE  (Excused(k, a) => Excused(k, a)') /\ (OwnAnswer(k, a) => OwnAnswer(k, a)')
  BY <1>3, ExcuseStays, OwnAnswerStays
<1>4. session[k].answered => session[k].answer \in Answers
  BY DEF NiTypeOK, Sessions
<1>5. FlagFits(k)'
  <2>1. CASE session[k].answered
    <3>1. \/ Excused(k, session[k].answer)'
          \/ OwnAnswer(k, session[k].answer)'
      <4> DEFINE a == session[k].answer
      <4>1. a \in Answers /\ (Excused(k, a) \/ OwnAnswer(k, a))
        BY <1>4, <2>1 DEF FlagFits
      <4>2. ASSUME NEW b \in Answers, b = a
            PROVE  Excused(k, b)' \/ OwnAnswer(k, b)'
        BY <1>3, <4>1, <4>2
      <4>3. PICK b \in Answers : b = a
        BY <4>1
      <4>4. session'[k].answer = b
        BY <4>3
      <4> QED BY <4>2, <4>3, <4>4 DEF Excused, OwnAnswer
    <3> QED BY <3>1 DEF FlagFits
  <2>2. CASE ~session[k].answered
    BY <2>2 DEF FlagFits
  <2> QED BY <2>1, <2>2
<1>6. ASSUME NEW m \in Marks, m.kind = k, MarkFits(m)
      PROVE  MarkFits(m)'
  <2>1. m.answer \in Answers
    BY DEF Marks
  <2>2. CASE Excused(k, m.answer)
    BY <1>6, <2>2, ExcuseStays DEF MarkFits
  <2>3. CASE OwnAnswer(k, m.answer) /\ (session[k].answered => Excused(k, session[k].answer))
    <3>1. OwnAnswer(k, m.answer)'
      BY <1>3, <2>1, <2>3
    <3>2. ASSUME session'[k].answered
          PROVE  Excused(k, session[k].answer)'
      <4>1. PICK b \in Answers : b = session[k].answer
        BY <1>4, <3>2
      <4>2. Excused(k, b)'
        BY <2>3, <3>2, <4>1, ExcuseStays
      <4> QED BY <4>1, <4>2 DEF Excused
    <3> QED BY <1>6, <3>1, <3>2 DEF MarkFits
  <2> QED BY <1>6, <2>2, <2>3 DEF MarkFits
<1> QED BY <1>2, <1>5, <1>6

LEMMA EndStays ==
    ASSUME Remembers, NEW r \in Requests, EndFits(r), Ended(r)' => Ended(r),
           Ended(r) => thread[r].answer # "none"
    PROVE  EndFits(r)'
<1> SUFFICES ASSUME Ended(r)'
             PROVE  Excused(Kind(r), thread[r].answer)' \/ thread'[r].answer = given'[r]
  BY DEF EndFits
<1>1. Ended(r) /\ thread'[r].answer = thread[r].answer
  BY DEF Remembers
<1>2. PICK b : b = thread[r].answer
  OBVIOUS
<1>3. CASE Excused(Kind(r), b)
  <2>1. Excused(Kind(r), b)'
    BY <1>3, ExcuseStays
  <2> QED BY <1>1, <1>2, <2>1 DEF Excused
<1>4. CASE b = given[r]
  <2>1. given'[r] = given[r]
    BY <1>1, <1>2, <1>4 DEF Remembers
  <2> QED BY <1>1, <1>2, <1>4, <2>1
<1> QED BY <1>1, <1>2, <1>3, <1>4 DEF EndFits

LEMMA EndedAnswers ==
    ASSUME NiTypeOK, NEW r \in Requests, Ended(r)
    PROVE  thread[r].answer \in Answers /\ thread[r].answer # "none"
BY DEF NiTypeOK, Threads, Ended, Answers

LEMMA MarkIsMark ==
    ASSUME NiTypeOK, NEW i \in DOMAIN marks
    PROVE  marks[i] \in Marks /\ marks[i].kind \in Kinds /\ marks[i].answer \in Answers
<1>1. marks \in Seq(Marks)
  BY DEF NiTypeOK
<1>2. marks[i] \in Marks
  BY <1>1
<1> QED BY <1>2 DEF Marks

\* a step that touches neither a session nor the marks, and ends no thread
LEMMA QuietReasons ==
    ASSUME NiTypeOK, Reasons, Remembers, AnswersFit', UNCHANGED session,
           \A k \in Kinds : OwnStays(k),
           \A r \in Requests : Ended(r)' => Ended(r)
    PROVE  /\ \A k \in Kinds : IdFits(k)' /\ FlagFits(k)'
           /\ \A r \in Requests : EndFits(r)'
           /\ UNCHANGED marks => Reasons'
<1>1. ASSUME NEW k \in Kinds
      PROVE  /\ IdFits(k)' /\ FlagFits(k)'
             /\ \A m \in Marks : m.kind = k /\ MarkFits(m) => MarkFits(m)'
  <2>1. /\ session'[k].answered = session[k].answered /\ session'[k].answer = session[k].answer
        /\ session'[k].id \in {None, session[k].id} /\ IdFits(k) /\ FlagFits(k)
    BY DEF Reasons
  <2> QED BY <2>1, KindStays
<1>2. ASSUME NEW r \in Requests
      PROVE  EndFits(r)'
  BY EndStays, EndedAnswers DEF Reasons
<1>3. ASSUME UNCHANGED marks
      PROVE  MarksFit'
  <2>1. ASSUME NEW i \in DOMAIN marks
        PROVE  MarkFits(marks[i])'
    <3>1. PICK m \in Marks : m = marks[i] /\ m.kind \in Kinds
      BY MarkIsMark
    <3>2. MarkFits(m)
      BY <3>1 DEF Reasons, MarksFit
    <3>3. MarkFits(m)'
      BY <1>1, <3>1, <3>2
    <3>4. marks'[i] = m
      BY <1>3, <3>1
    <3> QED BY <3>3, <3>4 DEF MarkFits, Excused, OwnAnswer
  <2>2. \A i, j \in DOMAIN marks : marks[i].kind = marks[j].kind => i = j
    BY DEF Reasons, MarksFit
  <2> QED BY <1>3, <2>1, <2>2 DEF MarksFit
<1> QED BY <1>1, <1>2, <1>3 DEF Reasons
-----------------------------------------------------------------------------
(* The steps                                                               *)

LEMMA TakenQuiet ==
    ASSUME NiTypeOK, AnswersFit, NEW type, TakeNi(type), UNCHANGED session
    PROVE  \A k \in Kinds : OwnStays(k)
<1>1. /\ \A r : Waits(r)' => Waits(r)
      /\ given' = given
  BY TakenAnswers DEF TakeNi
<1> QED BY <1>1 DEF OwnStays

LEMMA IgnoreSuplFits ==
    ASSUME NiTypeOK, EsAccepted', marks' = IgnoreSupl
    PROVE  MarksFit'
<1>1. ASSUME NEW i \in DOMAIN marks'
      PROVE  marks'[i] = [kind |-> "supl", answer |-> "ignore"] /\ i = 1
  BY <1>1 DEF IgnoreSupl
<1>2. \A i \in DOMAIN marks' : MarkFits(marks[i])'
  BY <1>1 DEF MarkFits, Excused
<1>3. \A i, j \in DOMAIN marks' : marks'[i].kind = marks'[j].kind => i = j
  BY <1>1
<1> QED BY <1>2, <1>3 DEF MarksFit

LEMMA NotifyReasons ==
    ASSUME NiTypeOK, ArrivesOnce, Reasons, HandleNotify
    PROVE  Reasons'
<1>1. PICK h \in Requests : h = Head(adapterQ).req
  BY TakeTypes DEF HandleNotify
<1>2. /\ TakeNi("notify") /\ AnswersFit /\ AnswersFit' /\ given' = given /\ marks = <<>>
      /\ thread[h].at = "none" /\ thread \in [Requests -> Threads]
      /\ \A r : Waits(r)' => Waits(r)
  BY <1>1, NotifyIsFirst, TakenAnswers DEF HandleNotify, TakeNi, NiTypeOK, Reasons
<1>3. CASE NotShown
  <2>1. \A r \in Requests : (Ended(r)' <=> Ended(r)) /\ thread'[r] = thread[r]
    BY <1>3 DEF NotShown, Ended
  <2>2. UNCHANGED outcome \/ \E r \in Requests : \E a : EndsAs(r, a)
    BY <1>1 DEF HandleNotify, RequestNiNotify, BeginSession
  <2>3. Remembers
    BY <1>2, <2>1, <2>2, HandlerRemembers
  <2>4. \A k \in Kinds : OwnStays(k)
    BY <1>2, <1>3, TakenQuiet DEF NotShown
  <2>5. /\ \A k \in Kinds : IdFits(k)' /\ FlagFits(k)'
        /\ \A r \in Requests : EndFits(r)'
        /\ UNCHANGED marks => Reasons'
    BY <1>2, <1>3, <2>1, <2>3, <2>4, QuietReasons DEF NotShown
  <2>6. CASE h \in EsRequests /\ EndsAs(h, "accept") /\ marks' = IgnoreSupl
    <3>1. outcome[h] \in Seq(Ends) /\ outcome'[h] = Append(outcome[h], "accept")
      BY <2>6 DEF EndsAs, NiTypeOK
    <3>2. Len(outcome[h]) + 1 \in DOMAIN outcome'[h] /\ outcome'[h][Len(outcome[h]) + 1] = "accept"
      BY <3>1
    <3>3. EsAccepted'
      BY <2>6, <3>2 DEF EsAccepted
    <3>4. MarksFit'
      BY <2>6, <3>3, IgnoreSuplFits
    <3> QED BY <1>2, <2>5, <3>4 DEF Reasons
  <2>7. UNCHANGED marks \/ (h \in EsRequests /\ EndsAs(h, "accept") /\ marks' = IgnoreSupl)
    BY <1>1 DEF HandleNotify, RequestNiNotify, BeginSession
  <2> QED BY <2>5, <2>6, <2>7
<1>4. CASE BeginSession(h) /\ ~Ignored(h)
  <2> DEFINE k == Kind(h)
  <2>1. /\ k \in Kinds /\ session \in [Kinds -> Sessions] /\ ~Busy(k)
        /\ session' = [session EXCEPT ![k] =
               [raw |-> h, id |-> h, answered |-> @.answered, answer |-> @.answer]]
        /\ thread'[h].at \in {"start", "missing"}
        /\ \A r \in Requests \ {h} : thread'[r] = thread[r]
        /\ outcome' = outcome /\ marks' = marks
    BY <1>2, <1>4, KindIsKind DEF BeginSession, Ignored, NiTypeOK, Moved
  <2>2. ~Ended(h) /\ ~Ended(h)' /\ \A r \in Requests \ {h} : thread'[r] = thread[r]
    BY <1>2, <2>1 DEF Ended, Moved
  <2>3. ASSUME NEW r \in Requests
        PROVE  (Ended(r) => thread'[r] = thread[r]) /\ (Ended(r)' => Ended(r))
    <3>1. CASE r = h
      BY <2>2, <3>1
    <3>2. CASE r # h
      BY <2>2, <3>2 DEF Ended
    <3> QED BY <3>1, <3>2
  <2>4. Remembers
    BY <1>2, <2>1, <2>3, HandlerRemembers
  <2>5. ASSUME NEW r \in Requests
        PROVE  EndFits(r)'
    BY <2>3, <2>4, EndStays, EndedAnswers DEF Reasons
  <2>6. ASSUME NEW q \in Kinds, q # k
        PROVE  IdFits(q)' /\ FlagFits(q)'
    <3>1. session'[q] = session[q] /\ OwnStays(q) /\ IdFits(q) /\ FlagFits(q)
      BY <1>2, <2>1, <2>6 DEF OwnStays, Reasons
    <3> QED BY <2>4, <3>1, KindStays
  <2>7. IdFits(k)'
    BY <2>1 DEF IdFits
  <2>8. FlagFits(k)'
    <3>1. /\ session'[k].answered = session[k].answered /\ session'[k].answer = session[k].answer
      BY <2>1
    <3>2. ASSUME session[k].answered
          PROVE  Excused(k, session[k].answer)'
      <4>1. PICK a : a = session[k].answer
        OBVIOUS
      <4>2. Excused(k, a)
        BY <2>1, <3>2, <4>1 DEF Reasons, FlagFits, OwnAnswer
      <4>3. Excused(k, a)'
        BY <2>4, <4>2, ExcuseStays
      <4> QED BY <3>1, <4>1, <4>3 DEF Excused
    <3> QED BY <3>1, <3>2 DEF FlagFits
  <2>9. MarksFit'
    BY <1>2, <2>1 DEF MarksFit
  <2> QED BY <1>2, <2>5, <2>6, <2>7, <2>8, <2>9 DEF Reasons
<1> QED BY <1>1, <1>3, <1>4 DEF HandleNotify, RequestNiNotify

\* the session a user's answer finds is the one that shows his request
LEMMA FoundSession ==
    ASSUME NiTypeOK, Owns, Reasons, HandleResponse, NEW k \in Kinds,
           InProgress(k, Head(adapterQ).req)
    PROVE  /\ \A a : a = Head(adapterQ).what => OwnAnswer(k, a)'
           /\ session[k].answered => Excused(k, session[k].answer)
           /\ Kind(Head(adapterQ).req) = k
<1>1. PICK r \in Requests : r = Head(adapterQ).req
  BY TakeTypes DEF HandleResponse
<1>2. /\ adapterQ \in Seq(Messages) /\ adapterQ # <<>> /\ TakeNi("respond") /\ AnswersFit
      /\ session' = session /\ given' = given
  BY DEF HandleResponse, TakeNi, NiTypeOK, Reasons
<1>3. RespondsAt(adapterQ, r, 1) /\ Head(adapterQ) = adapterQ[1]
  <2>1. Head(adapterQ) = adapterQ[1] /\ 1 \in DOMAIN adapterQ
    BY <1>2, TailPlaces
  <2> QED BY <1>1, <1>2, <2>1 DEF RespondsAt, TakeNi
<1>4. adapterQ[1].what = given[r]
  BY <1>2, <1>3 DEF AnswersFit
<1>5. r # None /\ Busy(k) /\ session[k].raw = r
  BY <1>1, NoneIsNoRequest DEF InProgress, Requests, Reasons, IdFits
<1>6. Waits(r) /\ ~Waits(r)'
  BY <1>2, <1>3, TakenAnswers DEF Waits
<1>7. ASSUME NEW a, a = Head(adapterQ).what
      PROVE  OwnAnswer(k, a)'
  <2>1. Busy(k)' /\ session'[k].raw = r /\ given'[r] = a
    BY <1>2, <1>3, <1>4, <1>5, <1>7 DEF Busy
  <2> QED BY <1>6, <2>1 DEF OwnAnswer, Waits
<1>8. session[k].answered => Excused(k, session[k].answer)
  BY <1>5, <1>6 DEF Reasons, FlagFits, OwnAnswer
<1>9. Kind(r) = k
  BY <1>5 DEF Owns, SessionsKeepKind
<1> QED BY <1>1, <1>7, <1>8, <1>9

LEMMA AppendFirst ==
    ASSUME NEW S, NEW e \in S, NEW f \in S
    PROVE  /\ Append(<<>>, e) = <<e>>
           /\ DOMAIN Append(<<f>>, e) = {1, 2}
           /\ Append(<<f>>, e)[1] = f /\ Append(<<f>>, e)[2] = e
<1>1. Append(<<>>, e) = <<e>>
  OBVIOUS
<1>2. PICK s \in Seq(S) : s = <<f>> /\ Len(s) = 1 /\ s[1] = f
  <2>1. Append(<<>>, f) \in Seq(S) /\ Len(Append(<<>>, f)) = 1 /\ Append(<<>>, f)[1] = f
    OBVIOUS
  <2>2. Append(<<>>, f) = <<f>>
    OBVIOUS
  <2> QED BY <2>1, <2>2
<1>3. DOMAIN Append(s, e) = {1, 2} /\ Append(s, e)[1] = f /\ Append(s, e)[2] = e
  BY <1>2
<1> QED BY <1>1, <1>2, <1>3

LEMMA MarkFitsOwn ==
    ASSUME NiTypeOK, Remembers, UNCHANGED session, NEW k \in Kinds, NEW a, OwnAnswer(k, a)',
           session[k].answered => Excused(k, session[k].answer)
    PROVE  MarkFits([kind |-> k, answer |-> a])'
<1>1. ASSUME session'[k].answered
      PROVE  Excused(k, session[k].answer)'
  <2>1. PICK b : b = session[k].answer
    OBVIOUS
  <2>2. Excused(k, b)'
    BY <1>1, <2>1, ExcuseStays
  <2> QED BY <2>1, <2>2 DEF Excused
<1> DEFINE m == [kind |-> k, answer |-> a]
<1>2. m.kind = k /\ m.answer = a
  OBVIOUS
<1> HIDE DEF m
<1>3. MarkFits(m)'
  BY <1>1, <1>2 DEF MarkFits
<1> QED BY <1>3 DEF m

LEMMA ResponseReasons ==
    ASSUME NiTypeOK, Owns, Reasons, HandleResponse
    PROVE  Reasons'
<1>1. PICK r \in Requests, a \in Answers : r = Head(adapterQ).req /\ a = Head(adapterQ).what
  <2>1. /\ Head(adapterQ) \in Messages /\ Head(adapterQ).type = "respond"
        /\ Head(adapterQ).req \in Requests
    BY TakeTypes DEF HandleResponse
  <2>2. Head(adapterQ).what \in Answers
    BY <2>1 DEF Messages
  <2> QED BY <2>1, <2>2
<1>2. /\ TakeNi("respond") /\ AnswersFit /\ session' = session /\ given' = given
      /\ thread' = thread /\ outcome' = outcome /\ marks = <<>>
  BY DEF HandleResponse, TakeNi, Reasons
<1>3. \A q \in Requests : (Ended(q)' <=> Ended(q)) /\ thread'[q] = thread[q]
  BY <1>2 DEF Ended
<1>4. Remembers
  BY <1>2, <1>3, HandlerRemembers
<1>5. /\ AnswersFit' /\ \A k \in Kinds : OwnStays(k)
  BY <1>2, TakenAnswers, TakenQuiet
<1>6. /\ \A k \in Kinds : IdFits(k)' /\ FlagFits(k)'
      /\ \A q \in Requests : EndFits(q)'
  BY <1>2, <1>3, <1>4, <1>5, QuietReasons
<1>7. ASSUME NEW k \in Kinds, InProgress(k, r)
      PROVE  /\ MarkFits([kind |-> k, answer |-> a])'
             /\ Kind(r) = k
  <2>1. /\ OwnAnswer(k, a)' /\ Kind(r) = k
        /\ session[k].answered => Excused(k, session[k].answer)
    BY <1>1, <1>7, FoundSession
  <2> QED BY <1>2, <1>4, <2>1, MarkFitsOwn
<1>8. MarksFit'
  <2>1. CASE marks' = <<>>
    BY <2>1 DEF MarksFit
  <2>2. CASE InProgress("supl", r) /\ marks' = <<[kind |-> "supl", answer |-> a]>>
    <3>1. MarkFits([kind |-> "supl", answer |-> a])'
      BY <1>7, <2>2 DEF Kinds
    <3>2. DOMAIN marks' = {1} /\ marks'[1] = [kind |-> "supl", answer |-> a]
      BY <2>2
    <3> QED BY <3>1, <3>2 DEF MarksFit, MarkFits
  <2>3. CASE /\ InProgress("es", r)
             /\ marks' = Append(IF a = "accept" THEN IgnoreSupl ELSE <<>>, [kind |-> "es", answer |-> a])
    <3> DEFINE own == [kind |-> "es", answer |-> a]
               ignored == [kind |-> "supl", answer |-> "ignore"]
    <3>1. MarkFits(own)' /\ Kind(r) = "es"
      BY <1>7, <2>3 DEF Kinds
    <3>2. a = "accept" => MarkFits(ignored)'
      <4>1. SUFFICES ASSUME a = "accept"
                     PROVE  EsAccepted'
        BY DEF MarkFits, Excused
      <4>2. TakeNi("respond") /\ adapterQ \in Seq(Messages) /\ adapterQ # <<>>
        BY <1>2 DEF TakeNi, NiTypeOK
      <4>3. Head(adapterQ) = adapterQ[1] /\ 1 \in DOMAIN adapterQ
        BY <4>2, TailPlaces
      <4>4. RespondsAt(adapterQ, r, 1)
        BY <1>1, <4>2, <4>3 DEF RespondsAt, TakeNi
      <4>5. given[r] = "accept"
        BY <1>1, <1>2, <4>1, <4>3, <4>4 DEF AnswersFit
      <4>6. r \in EsRequests
        BY <3>1 DEF Kind
      <4> QED BY <1>2, <4>5, <4>6 DEF EsAccepted
    <3>3. CASE marks' = <<own>>
      <4>1. DOMAIN marks' = {1} /\ marks'[1] = own
        BY <3>3
      <4> HIDE DEF own
      <4> QED BY <3>1, <4>1 DEF MarksFit, MarkFits
    <3>4. CASE /\ a = "accept"
               /\ DOMAIN marks' = {1, 2} /\ marks'[1] = ignored /\ marks'[2] = own
      <4>1. DOMAIN marks' = {1, 2} /\ marks'[1] = ignored /\ marks'[2] = own
        BY <3>4
      <4>2. ignored.kind # own.kind
        OBVIOUS
      <4> HIDE DEF own, ignored
      <4>3. MarkFits(own)' /\ MarkFits(ignored)'
        BY <3>1, <3>2, <3>4
      <4>4. ASSUME NEW i \in DOMAIN marks'
            PROVE  MarkFits(marks[i])'
        <5>1. CASE i = 1
          BY <4>1, <4>3, <5>1 DEF MarkFits
        <5>2. CASE i = 2
          BY <4>1, <4>3, <5>2 DEF MarkFits
        <5> QED BY <4>1, <5>1, <5>2
      <4>5. \A i, j \in DOMAIN marks' : marks'[i].kind = marks'[j].kind => i = j
        BY <4>1, <4>2
      <4> QED BY <4>4, <4>5 DEF MarksFit
    <3>5. \/ marks' = <<own>>
          \/ a = "accept" /\ DOMAIN marks' = {1, 2} /\ marks'[1] = ignored /\ marks'[2] = own
      <4>1. /\ Append(<<>>, own) = <<own>>
            /\ DOMAIN Append(<<ignored>>, own) = {1, 2}
            /\ Append(<<ignored>>, own)[1] = ignored /\ Append(<<ignored>>, own)[2] = own
        <5>1. own \in Marks /\ ignored \in Marks
          BY DEF Marks, Kinds, Answers
        <5> HIDE DEF own, ignored
        <5> QED BY <5>1, AppendFirst
      <4>2. IgnoreSupl \in {<<>>, <<ignored>>}
        BY DEF IgnoreSupl
      <4>3. marks' = Append(<<>>, own) \/ (a = "accept" /\ marks' = Append(<<ignored>>, own))
        BY <2>3, <4>2
      <4> HIDE DEF own, ignored
      <4> QED BY <4>1, <4>3
    <3> QED BY <3>3, <3>4, <3>5
  <2> QED BY <1>1, <2>1, <2>2, <2>3 DEF HandleResponse
<1> QED BY <1>5, <1>6, <1>8 DEF Reasons

LEMMA MarkReasons ==
    ASSUME NiTypeOK, Reasons, MarkSession
    PROVE  Reasons'
<1>1. PICK m \in Marks : m = Head(marks) /\ m = marks[1] /\ m.kind \in Kinds /\ m.answer \in Answers
  <2>1. marks \in Seq(Marks) /\ marks # <<>>
    BY DEF MarkSession, NiTypeOK
  <2>2. Head(marks) \in Marks /\ Head(marks) = marks[1]
    BY <2>1
  <2> QED BY <2>2 DEF Marks
<1> DEFINE k == m.kind
<1>2. /\ session' = [session EXCEPT ![k] =
             [raw |-> @.raw, id |-> @.id, answered |-> TRUE, answer |-> m.answer]]
      /\ session \in [Kinds -> Sessions]
      /\ thread' = thread /\ adapterQ' = adapterQ /\ given' = given /\ outcome' = outcome
  BY <1>1 DEF MarkSession, NiTypeOK
<1>3. /\ session'[k].raw = session[k].raw /\ session'[k].id = session[k].id
      /\ session'[k].answered /\ session'[k].answer = m.answer
      /\ \A q \in Kinds \ {k} : session'[q] = session[q]
  BY <1>1, <1>2
<1>4. \A r : Waits(r)' <=> Waits(r)
  BY <1>2 DEF Waits
<1>5. \A q \in Kinds : OwnStays(q)
  BY <1>2, <1>3, <1>4 DEF OwnStays
<1>6. \A r \in Requests : (Ended(r)' <=> Ended(r)) /\ thread'[r] = thread[r]
  BY <1>2 DEF Ended
<1>7. Remembers
  BY <1>2, <1>6, HandlerRemembers
<1>8. MarkFits(m)
  <2>1. 1 \in DOMAIN marks
    BY DEF MarkSession, NiTypeOK
  <2> QED BY <1>1, <2>1 DEF Reasons, MarksFit
<1>9. IdFits(k)' /\ FlagFits(k)'
  <2>1. IdFits(k)'
    BY <1>1, <1>3 DEF Reasons, IdFits, Busy
  <2>2. Excused(k, m.answer)' \/ OwnAnswer(k, m.answer)'
    <3>1. PICK a \in Answers : a = m.answer
      BY <1>1
    <3>2. Excused(k, a) => Excused(k, a)'
      BY <1>7, ExcuseStays
    <3>3. OwnAnswer(k, a) => OwnAnswer(k, a)'
      BY <1>1, <1>5, OwnAnswerStays
    <3> QED BY <1>8, <3>1, <3>2, <3>3 DEF MarkFits
  <2> QED BY <1>3, <2>1, <2>2 DEF FlagFits, Excused, OwnAnswer
<1>10. ASSUME NEW q \in Kinds, q # k
       PROVE  /\ IdFits(q)' /\ FlagFits(q)'
              /\ \A n \in Marks : n.kind = q /\ MarkFits(n) => MarkFits(n)'
  <2>1. session'[q] = session[q] /\ OwnStays(q) /\ IdFits(q) /\ FlagFits(q)
    BY <1>3, <1>5, <1>10 DEF Reasons
  <2> QED BY <1>7, <2>1, KindStays
<1>11. MarksFit'
  <2>1. marks' = Tail(marks) /\ marks \in Seq(Marks) /\ marks # <<>>
    BY DEF MarkSession, NiTypeOK
  <2>2. ASSUME NEW i \in DOMAIN marks'
        PROVE  i \in Nat /\ i # 0 /\ i + 1 \in DOMAIN marks /\ marks'[i] = marks[i + 1]
    BY <2>1, <2>2
  <2>3. ASSUME NEW i \in DOMAIN marks'
        PROVE  MarkFits(marks[i])'
    <3>1. i \in Nat /\ i # 0 /\ i + 1 \in DOMAIN marks /\ marks'[i] = marks[i + 1]
      BY <2>2
    <3>2. 1 \in DOMAIN marks
      BY <2>1
    <3>3. PICK n \in Marks : n = marks[i + 1] /\ n.kind \in Kinds
      BY <3>1, MarkIsMark
    <3>4. MarkFits(n)
      BY <3>1, <3>3 DEF Reasons, MarksFit
    <3>5. n.kind # k
      <4>1. i + 1 # 1
        BY <3>1
      <4> QED BY <1>1, <3>1, <3>2, <3>3, <4>1 DEF Reasons, MarksFit
    <3>6. MarkFits(n)'
      BY <1>10, <3>3, <3>4, <3>5
    <3> QED BY <3>1, <3>3, <3>6 DEF MarkFits
  <2>4. ASSUME NEW i \in DOMAIN marks', NEW j \in DOMAIN marks', marks'[i].kind = marks'[j].kind
        PROVE  i = j
    <3>1. /\ i \in Nat /\ j \in Nat /\ i + 1 \in DOMAIN marks /\ j + 1 \in DOMAIN marks
          /\ marks[i + 1].kind = marks[j + 1].kind
      BY <2>2, <2>4
    <3>2. i + 1 = j + 1
      BY <3>1 DEF Reasons, MarksFit
    <3> QED BY <3>1, <3>2
  <2> QED BY <2>3, <2>4 DEF MarksFit
<1>12. \A r \in Requests : EndFits(r)'
  BY <1>6, <1>7, EndStays, EndedAnswers DEF Reasons
<1>13. AnswersFit'
  BY <1>2 DEF Reasons, AnswersFit
<1> QED BY <1>9, <1>10, <1>11, <1>12, <1>13 DEF Reasons

\* the thread of r ends with a: a time-out, or what the session's flag says
LEMMA FinishReasons ==
    ASSUME NiTypeOK, Owns, Reasons, Remembers, NEW r \in Requests, NEW a \in Answers,
           thread[r].at \in {"start", "waiting"}, Finish(r, a),
           \/ a = "no_response"
           \/ session[Kind(r)].answered /\ a = session[Kind(r)].answer
    PROVE  Reasons'
<1> DEFINE k == Kind(r)
<1>1. /\ k \in Kinds /\ session \in [Kinds -> Sessions] /\ thread \in [Requests -> Threads]
      /\ session[k].raw = r /\ r # None
  BY KindIsKind, NoneIsNoRequest DEF NiTypeOK, Owns, Own, Shown, Running, Requests
<1>2. /\ session'[k].raw = None /\ ~session'[k].answered
      /\ \A q \in Kinds \ {k} : session'[q] = session[q]
      /\ thread'[r].at = "clearing" /\ thread'[r].answer = a
      /\ \A q \in Requests \ {r} : thread'[q] = thread[q]
      /\ adapterQ' = adapterQ /\ given' = given /\ marks' = marks
  BY <1>1 DEF Finish, Others
<1>3. \A q : Waits(q)' <=> Waits(q)
  BY <1>2 DEF Waits
<1>4. ASSUME NEW q \in Kinds, q # k
      PROVE  /\ IdFits(q)' /\ FlagFits(q)'
             /\ \A m \in Marks : m.kind = q /\ MarkFits(m) => MarkFits(m)'
  <2>1. session'[q] = session[q] /\ IdFits(q) /\ FlagFits(q)
    BY <1>2, <1>4 DEF Reasons
  <2>2. OwnStays(q)
    BY <1>2, <1>3, <2>1 DEF OwnStays
  <2> QED BY <2>1, <2>2, KindStays
<1>5. IdFits(k)' /\ FlagFits(k)'
  BY <1>2 DEF IdFits, FlagFits, Busy
<1>6. Ended(r)' /\ ~Ended(r)
  BY <1>2 DEF Ended
<1>7. EndFits(r)'
  <2>1. CASE a = "no_response"
    BY <1>2, <2>1 DEF EndFits, Excused
  <2>2. CASE session[k].answered /\ a = session[k].answer
    <3>1. Excused(k, a) \/ a = given[r]
      BY <1>1, <2>2 DEF Reasons, FlagFits, OwnAnswer
    <3>2. CASE Excused(k, a)
      <4>1. Excused(k, a)'
        BY <3>2, ExcuseStays
      <4> QED BY <1>2, <4>1 DEF EndFits, Excused
    <3>3. CASE a = given[r]
      BY <1>2, <3>3 DEF EndFits
    <3> QED BY <3>1, <3>2, <3>3
  <2> QED BY <2>1, <2>2
<1>8. ASSUME NEW q \in Requests, q # r
      PROVE  EndFits(q)'
  <2>1. Ended(q)' => Ended(q)
    BY <1>2, <1>8 DEF Ended
  <2> QED BY <2>1, EndStays, EndedAnswers DEF Reasons
<1>9. ASSUME NEW m \in Marks, m.kind = k, MarkFits(m)
      PROVE  MarkFits(m)'
  <2>1. m.answer \in Answers /\ m.answer # "none"
    BY DEF Marks, Answers
  <2>2. Excused(k, m.answer)'
    <3>1. CASE Excused(k, m.answer)
      BY <3>1, ExcuseStays
    <3>2. CASE OwnAnswer(k, m.answer) /\ (session[k].answered => Excused(k, session[k].answer))
      <4>1. m.answer = given[r]
        BY <1>1, <3>2 DEF OwnAnswer
      <4>2. CASE a = m.answer
        <5>1. CASE a = "no_response"
          BY <4>2, <5>1 DEF Excused
        <5>2. CASE Excused(k, a)
          BY <3>2, <4>2, <5>2, ExcuseStays
        <5> QED BY <3>2, <5>1, <5>2
      <4>3. CASE a # m.answer
        <5>1. Late(r)'
          BY <1>2, <2>1, <4>1, <4>3 DEF Late
        <5>2. given'[r] = m.answer /\ Kind(r) = k
          BY <1>2, <4>1
        <5> QED BY <5>1, <5>2 DEF Excused
      <4> QED BY <4>2, <4>3
    <3> QED BY <1>9, <3>1, <3>2 DEF MarkFits
  <2> QED BY <1>9, <2>2 DEF MarkFits
<1>10. MarksFit'
  <2>1. ASSUME NEW i \in DOMAIN marks
        PROVE  MarkFits(marks[i])'
    <3>1. PICK m \in Marks : m = marks[i] /\ m.kind \in Kinds
      BY MarkIsMark
    <3>2. MarkFits(m)
      BY <3>1 DEF Reasons, MarksFit
    <3>3. MarkFits(m)'
      BY <1>4, <1>9, <3>1, <3>2
    <3>4. marks'[i] = m
      BY <1>2, <3>1
    <3> QED BY <3>3, <3>4 DEF MarkFits
  <2>2. \A i, j \in DOMAIN marks : marks[i].kind = marks[j].kind => i = j
    BY DEF Reasons, MarksFit
  <2> QED BY <1>2, <2>1, <2>2 DEF MarksFit
<1>11. AnswersFit'
  BY <1>2 DEF Reasons, AnswersFit
<1> QED BY <1>4, <1>5, <1>7, <1>8, <1>10, <1>11 DEF Reasons

LEMMA ThreadReasons ==
    ASSUME NiTypeOK, Owns, Reasons, NEW r \in Requests, Thread(r)
    PROVE  Reasons'
<1>1. /\ Remembers /\ AnswersFit
      /\ Kind(r) \in Kinds /\ session \in [Kinds -> Sessions] /\ thread \in [Requests -> Threads]
  BY ThreadRemembers, KindIsKind DEF Reasons, NiTypeOK
<1>2. CASE Answered(r)
  <2>1. session[Kind(r)].answer \in Answers /\ session[Kind(r)].answered
    BY <1>1, <1>2 DEF Answered, Sessions
  <2> QED BY <1>1, <1>2, <2>1, FinishReasons DEF Answered
<1>3. CASE TimesOut(r)
  <2>1. "no_response" \in Answers
    BY DEF Answers
  <2> QED BY <1>1, <1>3, <2>1, FinishReasons DEF TimesOut
<1>4. CASE StartWaiting(r) \/ ClearSession(r) \/ SendResponse(r)
  <2>1. /\ given' = given /\ marks' = marks
        /\ \A q \in Requests \ {r} : thread'[q] = thread[q]
        /\ Ended(r)' => Ended(r)
    BY <1>1, <1>4 DEF StartWaiting, ClearSession, SendResponse, Others, Ended, Moved
  <2>2. \A q \in Requests : Ended(q)' => Ended(q)
    BY <2>1 DEF Ended
  <2>3. AnswersFit' /\ \A q : Waits(q)' <=> Waits(q)
    <3>1. CASE UNCHANGED adapterQ
      BY <1>1, <2>1, <3>1 DEF AnswersFit, Waits
    <3>2. CASE SendResponse(r) /\ adapterQ' # adapterQ
      <4> DEFINE m == [type |-> "inform", req |-> thread[r].raw, what |-> thread[r].answer]
      <4>1. adapterQ' = Append(adapterQ, m) /\ thread[r].raw # None /\ thread[r] \in Threads
        BY <1>1, <3>2 DEF SendResponse
      <4>2. thread[r].raw \in Requests /\ thread[r].answer \in Answers
        BY <3>2, <4>1 DEF SendResponse, Threads, Held
      <4>3. m \in Messages /\ m.type # "respond"
        BY <4>2 DEF Messages
      <4> HIDE DEF m
      <4> QED BY <1>1, <2>1, <4>1, <4>3, AppendedAnswers
    <3> QED BY <1>4, <3>1, <3>2 DEF StartWaiting, ClearSession
  <2>4. ASSUME NEW k \in Kinds
        PROVE  /\ session'[k].raw = session[k].raw
               /\ session'[k].answered = session[k].answered /\ session'[k].answer = session[k].answer
               /\ session'[k].id \in {None, session[k].id}
    <3>1. CASE UNCHANGED session
      BY <3>1
    <3>2. CASE ClearSession(r) /\ k = Kind(r)
      BY <1>1, <3>2 DEF ClearSession
    <3>3. CASE ClearSession(r) /\ k # Kind(r)
      BY <1>1, <3>3 DEF ClearSession
    <3> QED BY <1>4, <3>1, <3>2, <3>3 DEF StartWaiting, SendResponse
  <2>5. ASSUME NEW k \in Kinds
        PROVE  /\ IdFits(k)' /\ FlagFits(k)'
               /\ \A m \in Marks : m.kind = k /\ MarkFits(m) => MarkFits(m)'
    <3>1. OwnStays(k)
      BY <2>1, <2>3, <2>4 DEF OwnStays
    <3>2. IdFits(k) /\ FlagFits(k)
      BY DEF Reasons
    <3> QED BY <1>1, <2>4, <3>1, <3>2, KindStays
  <2>6. MarksFit'
    <3>1. ASSUME NEW i \in DOMAIN marks
          PROVE  MarkFits(marks[i])'
      <4>1. PICK m \in Marks : m = marks[i] /\ m.kind \in Kinds
        BY MarkIsMark
      <4>2. MarkFits(m)
        BY <4>1 DEF Reasons, MarksFit
      <4>3. MarkFits(m)'
        BY <2>5, <4>1, <4>2
      <4>4. marks'[i] = m
        BY <2>1, <4>1
      <4> QED BY <4>3, <4>4 DEF MarkFits
    <3>2. \A i, j \in DOMAIN marks : marks[i].kind = marks[j].kind => i = j
      BY DEF Reasons, MarksFit
    <3> QED BY <2>1, <3>1, <3>2 DEF MarksFit
  <2>7. \A q \in Requests : EndFits(q)'
    BY <1>1, <2>2, EndStays, EndedAnswers DEF Reasons
  <2> QED BY <2>3, <2>5, <2>6, <2>7 DEF Reasons
<1> QED BY <1>2, <1>3, <1>4 DEF Thread

LEMMA StepReasons ==
    ASSUME NiTypeOK, Owns, ArrivesOnce, Reasons, [NiNext]_niVars
    PROVE  Reasons'
<1>0. AnswersFit
  BY DEF Reasons
<1>1. ASSUME NEW r \in Requests, NEW reply \in Replies, UserAnswers(r, reply)
      PROVE  Reasons'
  <2>1. /\ AnswersFit' /\ given[r] = "none"
        /\ \A q \in Requests \ {r} : (Waits(q)' <=> Waits(q)) /\ given'[q] = given[q]
    BY <1>0, <1>1, GivenAnswers DEF UserAnswers
  <2>2. UNCHANGED <<session, thread, marks, outcome>>
    BY <1>1 DEF UserAnswers
  <2>3. \A q \in Requests : (Ended(q)' <=> Ended(q)) /\ thread'[q] = thread[q]
    BY <2>2 DEF Ended
  <2>4. \A q \in Requests : given[q] # "none" => given'[q] = given[q]
    BY <2>1
  <2>5. Remembers
    BY <2>2, <2>3, <2>4, AcceptedStays DEF Remembers
  <2>6. ASSUME NEW k \in Kinds
        PROVE  OwnStays(k)
    <3>1. CASE Busy(k)
      <4>1. PICK q \in Requests : q = session[k].raw
        BY <3>1 DEF Busy, NiTypeOK, Sessions, Held
      <4>2. Waits(session[k].raw)' <=> Waits(q)'
        BY <2>2, <4>1 DEF Waits
      <4>3. q # r => (Waits(q)' <=> Waits(q)) /\ given'[q] = given[q]
        BY <2>1
      <4> QED BY <2>1, <2>2, <4>1, <4>2, <4>3 DEF OwnStays
    <3>2. CASE ~Busy(k)
      BY <2>2, <3>2 DEF OwnStays
    <3> QED BY <3>1, <3>2
  <2> QED BY <2>1, <2>2, <2>3, <2>5, <2>6, QuietReasons
<1>2. ASSUME NEW r \in Requests, NEW route \in {"deny", "accept", "show"}, RequestNi(r, route)
      PROVE  Reasons'
  <2> DEFINE m == [type |-> "notify", req |-> r, what |-> route]
  <2>1. m \in Messages /\ m.type # "respond"
    BY DEF Messages, Answers
  <2>2. adapterQ' = Append(adapterQ, m) /\ UNCHANGED <<session, thread, marks, outcome, given>>
    BY <1>2 DEF RequestNi
  <2> HIDE DEF m
  <2>3. AnswersFit' /\ \A q : Waits(q)' <=> Waits(q)
    BY <1>0, <2>1, <2>2, AppendedAnswers
  <2>4. \A q \in Requests : (Ended(q)' <=> Ended(q)) /\ thread'[q] = thread[q]
    BY <2>2 DEF Ended
  <2>5. Remembers
    BY <2>2, <2>4, HandlerRemembers
  <2>6. \A k \in Kinds : OwnStays(k)
    BY <2>2, <2>3 DEF OwnStays
  <2> QED BY <2>2, <2>3, <2>4, <2>5, <2>6, QuietReasons
<1>3. CASE ClientChanges \/ UNCHANGED niVars
  <2>1. UNCHANGED <<session, thread, marks, outcome, given, adapterQ>>
    BY <1>3 DEF ClientChanges, niVars
  <2>2. AnswersFit' /\ \A q : Waits(q)' <=> Waits(q)
    BY <1>0, <2>1 DEF AnswersFit, Waits
  <2>3. \A q \in Requests : (Ended(q)' <=> Ended(q)) /\ thread'[q] = thread[q]
    BY <2>1 DEF Ended
  <2>4. Remembers
    BY <2>1, <2>3, HandlerRemembers
  <2>5. \A k \in Kinds : OwnStays(k)
    BY <2>1, <2>2 DEF OwnStays
  <2> QED BY <2>1, <2>2, <2>3, <2>4, <2>5, QuietReasons
<1>4. CASE InformEngine
  <2>1. /\ TakeNi("inform") /\ UNCHANGED <<session, thread, marks, given>>
        /\ \E r \in Requests : \E a : EndsAs(r, a)
    BY <1>4, TakeTypes DEF InformEngine, TakeNi
  <2>2. AnswersFit' /\ \A k \in Kinds : OwnStays(k)
    BY <1>0, <2>1, TakenAnswers, TakenQuiet
  <2>3. \A q \in Requests : (Ended(q)' <=> Ended(q)) /\ thread'[q] = thread[q]
    BY <2>1 DEF Ended
  <2>4. Remembers
    BY <2>1, <2>3, HandlerRemembers
  <2> QED BY <2>1, <2>2, <2>3, <2>4, QuietReasons
<1> QED
  BY <1>1, <1>2, <1>3, <1>4, NotifyReasons, ResponseReasons, MarkReasons, ThreadReasons
  DEF NiNext, Adapter

(* A session ends with its own user's answer, with a time-out, ignored for *)
(* an accepted emergency, or with the late answer of an earlier user of    *)
(* its kind - and with nothing else, whatever flag was left set (the       *)
(* handlers of both responses and niThreadProc).                           *)
THEOREM NiEndsForAReason == NiSpec => []EndsForAReason
<1>1. NiInit => Reasons
  <2> SUFFICES ASSUME NiInit
               PROVE  Reasons
    OBVIOUS
  <2>1. \A k \in Kinds : ~Busy(k) /\ ~session[k].answered
    BY DEF NiInit, Idle, Busy
  <2>2. \A r \in Requests : ~Ended(r)
    BY DEF NiInit, NoThread, Ended
  <2>3. AnswersFit /\ MarksFit
    BY DEF NiInit, AnswersFit, RespondsAt, MarksFit
  <2> QED BY <2>1, <2>2, <2>3 DEF Reasons, IdFits, FlagFits, EndFits
<1>2. NiInv /\ Reasons /\ [NiNext]_niVars => Reasons'
  BY OwnView, StepReasons DEF NiInv, Owns
<1>3. NiInv /\ Reasons => EndsForAReason
  <2> SUFFICES ASSUME NiInv, Reasons, NEW r \in Requests, Ended(r)
               PROVE  \/ thread[r].answer = "no_response"
                      \/ thread[r].answer = given[r]
                      \/ thread[r].answer = "ignore" /\ Kind(r) = "supl" /\ EsAccepted
                      \/ \E late \in Requests \ {r} :
                             Kind(late) = Kind(r) /\ Late(late) /\ given[late] = thread[r].answer
    BY DEF EndsForAReason, Ended
  <2>1. Excused(Kind(r), thread[r].answer) \/ thread[r].answer = given[r]
    BY DEF Reasons, EndFits
  <2>2. ASSUME NEW late \in Requests, Late(late), given[late] = thread[r].answer
        PROVE  late # r
    BY <2>2 DEF Late
  <2> QED BY <2>1, <2>2 DEF Excused
<1> QED BY <1>1, <1>2, <1>3, NiInvInductive, PTL DEF NiSpec
=============================================================================
