------------------------------ MODULE LocTimer ------------------------------
(***************************************************************************)
(* Timers (LocTimer.cpp).  A LocTimer makes a delegate each time it is     *)
(* started; the delegates that tick are in a heap that only the message    *)
(* thread touches.  The kernel's timer is set for the soonest of them; the *)
(* poll thread waits for it and tells the message thread.  Threads of      *)
(* clients start and stop their timers at any time.                        *)
(*                                                                         *)
(* One of the two containers (timers, alarms), which do not share more     *)
(* than the threads.  The kernel is external: a timer that is due stays so *)
(* until it is set again, nobody reads it.                                 *)
(***************************************************************************)
EXTENDS LocHeap

CONSTANTS
    Timers,         \* LocTimer objects
    None,           \* NULL
    MaxStarts,      \* bounds the delegates
    MaxTime         \* bounds the clock

ASSUME LocTimerAssumption == None \notin Timers /\ {MaxStarts, MaxTime} \subseteq Nat

VARIABLES
    now,            \* CLOCK_BOOTTIME
    alive,          \* LocTimer objects that were not deleted
    mTimer,         \* the delegate of each, or 0
    delegates,      \* LocTimerDelegates in the order they were made
    tree,           \* the heap
    msgQ,           \* messages to the message thread
    msgAt,          \* what the message thread is doing
    pollAt,         \* and the poll thread
    armed,          \* what the kernel's timer is set for, 0 for nothing
    polled,         \* is it polled
    ended           \* how each delegate ended: "stopped", "fired"

timerVars == <<now, alive, mTimer, delegates, tree, msgQ, msgAt, pollAt, armed, polled, ended>>

Idle == [step |-> "idle"]

TimerInit ==
    /\ now = 1
    /\ alive = Timers
    /\ mTimer = [c \in Timers |-> 0]
    /\ delegates = <<>>
    /\ tree = NoNodes
    /\ msgQ = <<>>
    /\ msgAt = Idle
    /\ pollAt = "wait"
    /\ armed = 0
    /\ polled = FALSE
    /\ ended = <<>>

-----------------------------------------------------------------------------
(* LocTimer, on any thread, under the lock of the timer.                   *)

\* What start and stop change, for callers that do more than one of them.
Now == [mTimer |-> mTimer, delegates |-> delegates, msgQ |-> msgQ, ended |-> ended]

Become(st) ==
    mTimer' = st.mTimer /\ delegates' = st.delegates /\ msgQ' = st.msgQ /\ ended' = st.ended

\* A timer that runs is not started again.
Started(st, c, delay) ==
    IF st.mTimer[c] # 0 THEN st
    ELSE LET d == Len(st.delegates) + 1
         IN  [mTimer |-> [st.mTimer EXCEPT ![c] = d],
              delegates |-> Append(st.delegates, [client |-> c, due |-> now + delay,
                                                  ticking |-> TRUE, deleted |-> FALSE]),
              msgQ |-> Append(st.msgQ, [type |-> "push", of |-> d]),
              ended |-> Append(st.ended, <<>>)]

\* destroyLocked: the delegate forgets its client and is taken out by the message thread.
Destroyed(st, c, how) ==
    LET d == st.mTimer[c]
    IN  [mTimer |-> [st.mTimer EXCEPT ![c] = 0],
         delegates |-> [st.delegates EXCEPT ![d].client = None, ![d].ticking = FALSE],
         msgQ |-> Append(st.msgQ, [type |-> "remove", of |-> d]),
         ended |-> [st.ended EXCEPT ![d] = Append(@, how)]]

Stopped(st, c, how) == IF st.mTimer[c] = 0 THEN st ELSE Destroyed(st, c, how)

ClientStart(c, delay) ==
    /\ c \in alive /\ mTimer[c] = 0 /\ Len(delegates) < MaxStarts
    /\ Become(Started(Now, c, delay))
    /\ UNCHANGED <<now, alive, tree, msgAt, pollAt, armed, polled>>

ClientStop(c) ==
    /\ c \in alive /\ mTimer[c] # 0
    /\ Become(Stopped(Now, c, "stopped"))
    /\ UNCHANGED <<now, alive, tree, msgAt, pollAt, armed, polled>>

\* ~LocTimer
ClientDelete(c) ==
    /\ c \in alive
    /\ alive' = alive \ {c}
    /\ Become(Stopped(Now, c, "stopped"))
    /\ UNCHANGED <<now, tree, msgAt, pollAt, armed, polled>>

-----------------------------------------------------------------------------
(* The message thread.                                                     *)

Item(d) == [of |-> d, due |-> delegates[d].due]
TopOf(t) == IF t = NoNodes THEN None ELSE t[Top]

Receive(type) == msgAt = Idle /\ msgQ # <<>> /\ Head(msgQ).type = type

\* Mutant: the kernel's timer is set only when it was not.
AwaitIfDisarmed(t) ==
    IF t = NoNodes \/ armed # 0 THEN msgAt' = Idle /\ UNCHANGED polled
    ELSE msgAt' = [step |-> "arm"] /\ polled' = TRUE

\* updateSoonestTime with another top than before: the kernel's timer is polled, then
\* set.  (It is not taken back when the heap is empty: then the caller passes NULL for
\* what was the top, and there is none now.)
Await(t) ==
    IF t = NoNodes THEN msgAt' = Idle /\ UNCHANGED polled
    ELSE msgAt' = [step |-> "arm"] /\ polled' = TRUE

Arm ==
    /\ msgAt.step = "arm"
    /\ armed' = tree[Top].due
    /\ msgAt' = Idle
    /\ UNCHANGED <<now, alive, mTimer, delegates, tree, msgQ, pollAt, polled, ended>>

HandlePush ==
    /\ Receive("push")
    /\ tree' = Push(tree, Item(Head(msgQ).of))
    /\ IF TopOf(tree') = TopOf(tree) THEN msgAt' = Idle /\ UNCHANGED polled ELSE Await(tree')
    /\ msgQ' = Tail(msgQ)
    /\ UNCHANGED <<now, alive, mTimer, delegates, pollAt, armed, ended>>

HandleRemove ==
    /\ Receive("remove")
    /\ LET d == Head(msgQ).of
       IN  /\ tree' = RemoveItem(tree, Item(d))
           /\ IF TopOf(tree) = Item(d) THEN Await(tree') ELSE msgAt' = Idle /\ UNCHANGED polled
           /\ delegates' = [delegates EXCEPT ![d].deleted = TRUE]
    /\ msgQ' = Tail(msgQ)
    /\ UNCHANGED <<now, alive, mTimer, pollAt, armed, ended>>

\* The delegate on top is popped; the message thread keeps its client.
Expiring(t, at) ==
    /\ tree' = PopAt(t, Top)
    /\ msgAt' = [step |-> "stop", of |-> t[Top].of, client |-> delegates[t[Top].of].client, at |-> at]

\* The first is popped whenever it is due.
HandleExpire ==
    /\ Receive("expire")
    /\ IF tree = NoNodes THEN UNCHANGED <<tree, msgAt>> ELSE Expiring(tree, now)
    /\ msgQ' = Tail(msgQ)
    /\ UNCHANGED <<now, alive, mTimer, delegates, pollAt, armed, polled, ended>>

\* expire() stops the client, whatever delegate it has by now, and calls it back.  It took
\* the client without a lock, and a client deleted since is used all the same: that has no
\* outcome to go on from, and the model takes the mildest, that nothing is stopped or called.
ExpireStop ==
    /\ msgAt.step = "stop"
    /\ LET c == msgAt.client
       IN  IF c = None \/ c \notin alive \/ mTimer[c] = 0
           THEN /\ msgAt' = [step |-> "next", at |-> msgAt.at]
                /\ UNCHANGED <<mTimer, delegates, msgQ, ended>>
           ELSE /\ Become(Stopped(Now, c, "fired"))
                /\ msgAt' = [step |-> "call", client |-> c, at |-> msgAt.at]
    /\ UNCHANGED <<now, alive, tree, pollAt, armed, polled>>

\* timeOutCallback
Calling(c) == msgAt.step = "call" /\ msgAt.client = c

Called ==
    /\ msgAt' = [step |-> "next", at |-> msgAt.at]
    /\ UNCHANGED <<now, alive, mTimer, delegates, tree, msgQ, pollAt, armed, polled, ended>>

ExpireNext ==
    /\ msgAt.step = "next"
    /\ IF tree # NoNodes /\ tree[Top].due <= msgAt.at
       THEN Expiring(tree, msgAt.at) /\ UNCHANGED polled
       ELSE Await(tree) /\ UNCHANGED <<tree>>
    /\ UNCHANGED <<now, alive, mTimer, delegates, msgQ, pollAt, armed, ended>>

-----------------------------------------------------------------------------
(* The poll thread: LocTimerContainer::expire, which anything may meet.     *)

PollWakes ==
    /\ pollAt = "wait" /\ polled /\ armed # 0 /\ armed <= now
    /\ pollAt' = "disarm"
    /\ UNCHANGED <<now, alive, mTimer, delegates, tree, msgQ, msgAt, armed, polled, ended>>

PollDisarms ==
    /\ pollAt = "disarm"
    /\ armed' = 0
    /\ pollAt' = "unpoll"
    /\ UNCHANGED <<now, alive, mTimer, delegates, tree, msgQ, msgAt, polled, ended>>

PollRemoves ==
    /\ pollAt = "unpoll"
    /\ polled' = FALSE
    /\ pollAt' = "send"
    /\ UNCHANGED <<now, alive, mTimer, delegates, tree, msgQ, msgAt, armed, ended>>

PollSends ==
    /\ pollAt = "send"
    /\ msgQ' = Append(msgQ, [type |-> "expire"])
    /\ pollAt' = "wait"
    /\ UNCHANGED <<now, alive, mTimer, delegates, tree, msgAt, armed, polled, ended>>

Tick ==
    /\ now < MaxTime
    /\ now' = now + 1
    /\ UNCHANGED <<alive, mTimer, delegates, tree, msgQ, msgAt, pollAt, armed, polled, ended>>

\* What the two threads and the clock do of themselves; callbacks are the client's.
TimerNext ==
    \/ HandlePush \/ HandleRemove \/ HandleExpire \/ Arm \/ ExpireStop \/ ExpireNext
    \/ PollWakes \/ PollDisarms \/ PollRemoves \/ PollSends \/ Tick

-----------------------------------------------------------------------------
Expired(d) == msgAt.step = "stop" /\ msgAt.of = d

TimerTypeOK ==
    /\ now \in 1..MaxTime /\ alive \subseteq Timers
    /\ mTimer \in [Timers -> 0..Len(delegates)]
    /\ \A d \in 1..Len(delegates) :
        delegates[d] \in [client : Timers \cup {None}, due : Nat, ticking : BOOLEAN, deleted : BOOLEAN]
    /\ HeapOrdered(tree)
    /\ msgAt.step \in {"idle", "arm", "stop", "call", "next"}
    /\ pollAt \in {"wait", "disarm", "unpoll", "send"}
    /\ armed \in Nat /\ polled \in BOOLEAN /\ Len(ended) = Len(delegates)

\* A timer that was started ends once: it fires, or it is stopped, never both, whoever
\* comes first.
EndsOnce == \A d \in 1..Len(delegates) : Len(ended[d]) <= 1

\* A delegate that ticks is in the heap, or on its way into it, or just taken out to expire.
TickingIsKept ==
    \A d \in 1..Len(delegates) :
        delegates[d].ticking =>
            Item(d) \in Items(tree) \/ Contains(msgQ, [type |-> "push", of |-> d]) \/ Expired(d)

\* A delegate that was deleted is not used any more.
NoneDangles ==
    \A d \in 1..Len(delegates) :
        delegates[d].deleted =>
            /\ Item(d) \notin Items(tree) /\ ~Expired(d)
            /\ \A c \in Timers : mTimer[c] # d
            /\ \A k \in 1..Len(msgQ) : msgQ[k].type # "expire" => msgQ[k].of # d

\* The kernel watches the soonest delegate, or what makes it do so is under way: whatever
\* the poll thread takes back, it has the message thread set again.
SoonestIsWatched ==
    tree # NoNodes =>
        \/ polled /\ armed # 0 /\ armed <= tree[Top].due
        \/ msgAt # Idle
        \/ pollAt # "wait"
        \/ \E k \in 1..Len(msgQ) : msgQ[k].type = "expire"

\* A timer that ticks will be noticed, and one that ended is done with: every delegate of
\* LocTimer ends once and is not touched after it was deleted.
TimersAreSound == EndsOnce /\ NoneDangles /\ TickingIsKept /\ SoonestIsWatched
=============================================================================
