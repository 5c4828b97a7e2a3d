---------------------------- MODULE Agps_proofs ----------------------------
(***************************************************************************)
(* Proofs about Agps: its variables keep their types, the state of a       *)
(* machine always fits its list of subscribers, the connection is open     *)
(* only while it is needed, and the machines agree with the modem.  The    *)
(* inductive invariants are SubscribersFit, Sessions (one request and one  *)
(* report of each session of the framework), HandlesFit (where a handle is *)
(* between its request and its close) and Progress (a machine that waits   *)
(* has an answer coming).                                                  *)
(***************************************************************************)
EXTENDS Agps, TLAPS

NifRecords == [state : States, active : SUBSET Handles, inactive : SUBSET Handles]
Reactions ==
    [nif : NifRecords, asks : Seq({"request", "release"}), to : SUBSET Handles,
     what : {"opened", "refused", "closed"}]

(* The two things the event handlers of Agps.cpp may ask for *)
LEMMA AsksAreSequences ==
    /\ <<>> \in Seq({"request", "release"})
    /\ <<"request">> \in Seq({"request", "release"})
    /\ <<"release">> \in Seq({"request", "release"})
OBVIOUS

(* Every event handler returns a machine of the right type, and one whose  *)
(* list fits if it was given such a machine.                               *)
LEMMA SubscribeKeeps ==
    ASSUME NEW n \in NifRecords, NEW h \in Handles
    PROVE  /\ Subscribe(n, h) \in Reactions
           /\ Fits(n) => Fits(Subscribe(n, h).nif)
<1>1. AddSubscriber(n, h) \in NifRecords
  BY DEF AddSubscriber, NifRecords, Members, States
<1>2. Subscribe(n, h) \in Reactions
  BY <1>1, AsksAreSequences
  DEF Subscribe, Reactions, React, Ignore, NifRecords, States
<1>3. Fits(n) => Fits(Subscribe(n, h).nif)
  BY DEF Subscribe, React, Ignore, NifRecords, States, AddSubscriber, Fits, Members
<1> QED BY <1>2, <1>3

LEMMA UnsubscribeKeeps ==
    ASSUME NEW n \in NifRecords, NEW h \in Members(n)
    PROVE  /\ Unsubscribe(n, h) \in Reactions
           /\ Fits(n) => Fits(Unsubscribe(n, h).nif)
<1>0. h \in Handles
  BY DEF NifRecords, Members
<1>1. Deactivate(n, h) \in NifRecords
  BY <1>0 DEF Deactivate, NifRecords, States
<1>2. Unsubscribe(n, h) \in Reactions
  BY <1>0, <1>1, AsksAreSequences
  DEF Unsubscribe, Reactions, React, Ignore, NifRecords, States
<1>3. Fits(n) => Fits(Unsubscribe(n, h).nif)
  BY DEF Unsubscribe, React, Ignore, NifRecords, States, Deactivate, Fits, Members
<1> QED BY <1>2, <1>3

LEMMA FreshIsRight == Fresh \in NifRecords /\ Fits(Fresh)
BY DEF Fresh, NifRecords, States, Fits, Members

LEMMA AnswersKeep ==
    ASSUME NEW n \in NifRecords
    PROVE  /\ Granted(n) \in Reactions /\ (Fits(n) => Fits(Granted(n).nif))
           /\ Released(n) \in Reactions /\ (Fits(n) => Fits(Released(n).nif))
           /\ Denied(n) \in Reactions /\ (Fits(n) => Fits(Denied(n).nif))
<1>1. Granted(n) \in Reactions /\ (Fits(n) => Fits(Granted(n).nif))
  BY AsksAreSequences
  DEF Granted, Reactions, React, Ignore, NifRecords, States, Fits, Members
<1>2. Closing(n) \in Reactions
  BY AsksAreSequences, FreshIsRight
  DEF Closing, Reactions, React, NifRecords, States
<1>3. ASSUME Fits(n) PROVE Fits(Closing(n).nif)
  <2>1. CASE n.active # {}
    BY <1>3, <2>1 DEF Closing, React, NifRecords, States, Fits, Members
  <2>2. CASE n.active = {}
    BY <2>2, FreshIsRight DEF Closing, React
  <2> QED BY <2>1, <2>2
<1>4. Members(n) \in SUBSET Handles
  BY DEF Members, NifRecords
<1>5. Released(n) \in Reactions /\ Denied(n) \in Reactions
  BY <1>2, <1>4, AsksAreSequences, FreshIsRight
  DEF Released, Denied, Reactions, React, Ignore
<1>6. ASSUME Fits(n) PROVE Fits(Released(n).nif) /\ Fits(Denied(n).nif)
  BY <1>3, <1>6, FreshIsRight DEF Released, Denied, React, Ignore
<1> QED BY <1>1, <1>3, <1>5, <1>6

-----------------------------------------------------------------------------
(* What a reaction does to the rest of the system keeps the types *)

LEMMA NativeAnswersAreMessages ==
    ASSUME NEW asks
    PROVE  NativeAnswers(asks) \in Seq(Messages)
<1>1. \A type \in {"opened", "failed", "closed"} :
          <<[type |-> type, nif |-> "internet"]>> \in Seq(Messages)
  BY DEF Messages, Nifs
<1>2. <<>> \in Seq(Messages)
  OBVIOUS
<1> QED BY <1>1, <1>2 DEF NativeAnswers

LEMMA TellKeeps ==
    ASSUME modem \in [Handles -> Phases], NEW to, NEW what, Tell(to, what)
    PROVE  modem' \in [Handles -> Phases]
BY DEF Tell, Hears, Phases

LEMMA PerformKeeps ==
    ASSUME TypeOK, NEW nif \in Nifs, NEW r \in Reactions, NEW rest \in Seq(Messages),
           Perform(nif, r, rest)
    PROVE  /\ nifs' \in [Nifs -> NifRecords]
           /\ modem' \in [Handles -> Phases]
           /\ adapterQ' \in Seq(Messages)
           /\ frameworkQ' \in Seq({"request", "release"})
           /\ SubscribersFit /\ Fits(r.nif) => SubscribersFit'
<1>1. nifs \in [Nifs -> NifRecords] /\ r.nif \in NifRecords
  BY DEF TypeOK, NifRecords, Reactions
<1>2. nifs' = [nifs EXCEPT ![nif] = r.nif]
  BY DEF Perform
<1>3. nifs' \in [Nifs -> NifRecords]
  BY <1>1, <1>2
<1>4. modem' \in [Handles -> Phases]
  BY TellKeeps DEF Perform, TypeOK
<1>5. /\ NativeAnswers(r.asks) \in Seq(Messages)
      /\ r.asks \in Seq({"request", "release"})
      /\ frameworkQ \in Seq({"request", "release"})
  BY NativeAnswersAreMessages DEF Reactions, TypeOK
<1>6. adapterQ' \in Seq(Messages)
  <2>1. CASE nif = "agnss"
    BY <2>1 DEF Perform
  <2>2. CASE nif # "agnss"
    <3>1. adapterQ' = rest \o NativeAnswers(r.asks)
      BY <2>2 DEF Perform
    <3> QED BY <3>1, <1>5
  <2> QED BY <2>1, <2>2
<1>7. frameworkQ' \in Seq({"request", "release"})
  <2>1. CASE nif = "agnss"
    <3>1. frameworkQ' = frameworkQ \o r.asks
      BY <2>1 DEF Perform
    <3> QED BY <3>1, <1>5
  <2>2. CASE nif # "agnss"
    BY <2>2, <1>5 DEF Perform
  <2> QED BY <2>1, <2>2
<1>8. SubscribersFit /\ Fits(r.nif) => SubscribersFit'
  <2> SUFFICES ASSUME SubscribersFit, Fits(r.nif), NEW m \in Nifs
               PROVE  Fits(nifs'[m])
    BY DEF SubscribersFit
  <2>1. CASE m = nif
    BY <2>1, <1>1, <1>2
  <2>2. CASE m # nif
    BY <2>2, <1>1, <1>2 DEF SubscribersFit
  <2> QED BY <2>1, <2>2
<1> QED BY <1>3, <1>4, <1>6, <1>7, <1>8

(* The message at the head of the queue, and the queue without it *)
LEMMA NextMessage ==
    ASSUME TypeOK, NEW type, NextIs(type)
    PROVE  /\ Head(adapterQ) \in Messages /\ Head(adapterQ).type = type
           /\ Tail(adapterQ) \in Seq(Messages)
BY DEF TypeOK, NextIs

LEMMA MessageFields ==
    ASSUME NEW m \in Messages
    PROVE  /\ m.type \in {"init", "opened", "granted", "failed", "closed"} => m.nif \in Nifs
           /\ m.type = "request" => m.nif \in Nifs /\ m.handle \in Handles
           /\ m.type = "release" => m.handle \in Handles
BY DEF Messages

LEMMA HolderIsNif == ASSUME NEW h PROVE Holder(h) \in Nifs
BY DEF Holder, Nifs

-----------------------------------------------------------------------------
(* Both invariants, action by action.  The steps that leave the machines    *)
(* alone keep SubscribersFit because it reads nothing else.                 *)

Inv == TypeOK /\ SubscribersFit

LEMMA InitInv == Init => Inv
<1> SUFFICES ASSUME Init PROVE Inv
  OBVIOUS
<1>1. nifs \in [Nifs -> NifRecords] /\ SubscribersFit
  BY FreshIsRight DEF Init, SubscribersFit
<1>2. [type |-> "init", nif |-> "internet"] \in Messages
  BY DEF Messages, Nifs
<1>3. adapterQ \in Seq(Messages) /\ frameworkQ \in Seq({"request", "release"})
  BY <1>2 DEF Init
<1>4. wds \in BOOLEAN
  BY AgpsAssumption DEF Init, AgpsAssumption
<1>5. modem \in [Handles -> Phases] /\ lookups \in [Nifs -> Nat]
  BY DEF Init, Phases
<1>6. created \subseteq Nifs /\ requests \in Nat /\ upsets \in [loss : Nat, apn : Nat, crash : Nat]
  BY DEF Init
<1>7. TypeOK
  BY <1>1, <1>3, <1>4, <1>5, <1>6 DEF Init, TypeOK, NifRecords
<1> QED BY <1>1, <1>7 DEF Inv

LEMMA PostKeeps ==
    ASSUME TypeOK, NEW m \in Messages, Post(m)
    PROVE  adapterQ' \in Seq(Messages)
BY DEF TypeOK, Post

LEMMA FitKeep == ASSUME SubscribersFit, UNCHANGED nifs PROVE SubscribersFit'
BY DEF SubscribersFit

LEMMA UpsetKeeps ==
    ASSUME TypeOK, NEW what \in {"loss", "apn", "crash"}, Upset(what)
    PROVE  upsets' \in [loss : Nat, apn : Nat, crash : Nat]
<1>1. upsets \in [loss : Nat, apn : Nat, crash : Nat]
  BY DEF TypeOK
<1>2. upsets' = [upsets EXCEPT ![what] = @ + 1]
  BY DEF Upset
<1>3. CASE what = "loss"
  BY <1>1, <1>2, <1>3
<1>4. CASE what = "apn"
  BY <1>1, <1>2, <1>4
<1>5. CASE what = "crash"
  BY <1>1, <1>2, <1>5
<1> QED BY <1>3, <1>4, <1>5

LEMMA HandlesKeep ==
    ASSUME Inv, Adapter
    PROVE  Inv'
<1> USE DEF Inv
<1>1. CASE HandleInit
  <2>1. Head(adapterQ).nif \in Nifs /\ Tail(adapterQ) \in Seq(Messages)
    BY <1>1, NextMessage, MessageFields DEF HandleInit
  <2>2. TypeOK'
    BY <1>1, <2>1 DEF HandleInit, TypeOK, used
  <2> QED BY <1>1, <2>2, FitKeep DEF HandleInit
<1>2. CASE HandleRequest
  <2> DEFINE m == Head(adapterQ)
  <2>1. /\ m.nif \in Nifs /\ m.handle \in Handles
        /\ Tail(adapterQ) \in Seq(Messages)
    BY <1>2, NextMessage, MessageFields DEF HandleRequest
  <2>2. CASE m.nif \in created
    <3>1. nifs[m.nif] \in NifRecords /\ Fits(nifs[m.nif])
      BY <2>1 DEF TypeOK, NifRecords, SubscribersFit
    <3> DEFINE r == Subscribe(nifs[m.nif], m.handle)
    <3>2. r \in Reactions /\ Fits(r.nif)
      BY <2>1, <3>1, SubscribeKeeps
    <3>3. Perform(m.nif, r, Tail(adapterQ))
      BY <1>2, <2>2 DEF HandleRequest
    <3> HIDE DEF r, m
    <3>4. /\ nifs' \in [Nifs -> NifRecords] /\ modem' \in [Handles -> Phases]
          /\ adapterQ' \in Seq(Messages) /\ frameworkQ' \in Seq({"request", "release"})
          /\ SubscribersFit'
      BY <2>1, <3>2, <3>3, PerformKeeps
    <3> QED BY <1>2, <3>4 DEF HandleRequest, TypeOK, NifRecords, used
  <2>3. CASE m.nif \notin created
    <3>1. Tell({m.handle}, "refused") /\ adapterQ' = Tail(adapterQ) /\ UNCHANGED <<nifs, frameworkQ>>
      BY <1>2, <2>3 DEF HandleRequest
    <3>2. modem' \in [Handles -> Phases]
      BY <3>1, TellKeeps DEF TypeOK
    <3>3. TypeOK'
      BY <1>2, <2>1, <3>1, <3>2 DEF HandleRequest, TypeOK, used
    <3> QED BY <3>1, <3>3, FitKeep
  <2> QED BY <2>2, <2>3
<1>3. CASE HandleRelease
  <2> DEFINE h == Head(adapterQ).handle
  <2>1. h \in Handles /\ Tail(adapterQ) \in Seq(Messages) /\ Holder(h) \in Nifs
    BY <1>3, NextMessage, MessageFields, HolderIsNif DEF HandleRelease
  <2>2. CASE h \in Members(nifs[Holder(h)])
    <3>1. nifs[Holder(h)] \in NifRecords /\ Fits(nifs[Holder(h)])
      BY <2>1 DEF TypeOK, NifRecords, SubscribersFit
    <3> DEFINE r == Unsubscribe(nifs[Holder(h)], h)
    <3>2. r \in Reactions /\ Fits(r.nif)
      BY <2>2, <3>1, UnsubscribeKeeps
    <3>3. Perform(Holder(h), r, Tail(adapterQ))
      BY <1>3, <2>2 DEF HandleRelease
    <3> HIDE DEF r, h
    <3>4. /\ nifs' \in [Nifs -> NifRecords] /\ modem' \in [Handles -> Phases]
          /\ adapterQ' \in Seq(Messages) /\ frameworkQ' \in Seq({"request", "release"})
          /\ SubscribersFit'
      BY <2>1, <3>2, <3>3, PerformKeeps
    <3> QED BY <1>3, <3>4 DEF HandleRelease, TypeOK, NifRecords, used
  <2>3. CASE h \notin Members(nifs[Holder(h)])
    <3>1. adapterQ' = Tail(adapterQ) /\ UNCHANGED <<nifs, frameworkQ, modem>>
      BY <1>3, <2>3 DEF HandleRelease
    <3>2. TypeOK'
      BY <1>3, <2>1, <3>1 DEF HandleRelease, TypeOK, used
    <3> QED BY <3>1, <3>2, FitKeep
  <2> QED BY <2>2, <2>3
<1>4. CASE HandleOpened \/ HandleGranted \/ HandleFailed \/ HandleClosed
  <2> DEFINE nif == Head(adapterQ).nif
             n == nifs[nif]
  <2>1. nif \in Nifs /\ Tail(adapterQ) \in Seq(Messages)
    BY <1>4, NextMessage, MessageFields
    DEF HandleOpened, HandleGranted, HandleFailed, HandleClosed
  <2>2. n \in NifRecords /\ Fits(n)
    BY <2>1 DEF TypeOK, NifRecords, SubscribersFit
  <2>3. \A r \in {Granted(n), Released(n), Denied(n)} : r \in Reactions /\ Fits(r.nif)
    BY <2>2, AnswersKeep
  <2>4. /\ UNCHANGED <<created, conn, registered, mobile, wds, requests, upsets>>
        /\ \/ /\ lookups' = [lookups EXCEPT ![nif] = @ + 1]
              /\ adapterQ' = Tail(adapterQ) /\ UNCHANGED <<nifs, frameworkQ, modem>>
           \/ /\ \E r \in {Granted(n), Released(n), Denied(n)} : Perform(nif, r, Tail(adapterQ))
              /\ UNCHANGED lookups
    BY <1>4 DEF HandleOpened, HandleGranted, HandleFailed, HandleClosed, used
  <2> HIDE DEF n, nif
  <2>5. CASE /\ lookups' = [lookups EXCEPT ![nif] = @ + 1]
             /\ adapterQ' = Tail(adapterQ) /\ UNCHANGED <<nifs, frameworkQ, modem>>
    <3>1. TypeOK'
      BY <2>1, <2>4, <2>5 DEF TypeOK
    <3> QED BY <2>5, <3>1, FitKeep
  <2>6. CASE /\ \E r \in {Granted(n), Released(n), Denied(n)} : Perform(nif, r, Tail(adapterQ))
             /\ UNCHANGED lookups
    <3>1. PICK r \in Reactions : Fits(r.nif) /\ Perform(nif, r, Tail(adapterQ))
      BY <2>3, <2>6
    <3>2. /\ nifs' \in [Nifs -> NifRecords] /\ modem' \in [Handles -> Phases]
          /\ adapterQ' \in Seq(Messages) /\ frameworkQ' \in Seq({"request", "release"})
          /\ SubscribersFit'
      BY <2>1, <3>1, PerformKeeps
    <3> QED BY <2>4, <2>6, <3>2 DEF TypeOK, NifRecords
  <2> QED BY <2>4, <2>5, <2>6
<1> QED BY <1>1, <1>2, <1>3, <1>4 DEF Adapter

(* The modem, WDS, the framework and the network *)
LEMMA OthersKeep ==
    ASSUME Inv,
           \/ \E h \in Handles, nif \in Nifs : RequestATL(h, nif)
           \/ \E h \in Handles : ReleaseATL(h)
           \/ ModemCrash
           \/ \E nif \in Nifs : WdsAnswers(nif)
           \/ Register \/ Framework \/ ConnectionLost \/ NetworkInfo
    PROVE  Inv'
<1> USE DEF Inv
<1>1. ASSUME NEW h \in Handles, NEW nif \in Nifs, RequestATL(h, nif) PROVE Inv'
  <2>1. [type |-> "request", nif |-> nif, handle |-> h] \in Messages
    BY DEF Messages
  <2>2. adapterQ' \in Seq(Messages)
    BY <1>1, <2>1, PostKeeps DEF RequestATL
  <2>3. TypeOK'
    BY <1>1, <2>2 DEF RequestATL, TypeOK, Phases
  <2> QED BY <1>1, <2>3, FitKeep DEF RequestATL
<1>2. ASSUME NEW h \in Handles, ReleaseATL(h) PROVE Inv'
  <2>1. [type |-> "release", handle |-> h] \in Messages
    BY DEF Messages
  <2>2. adapterQ' \in Seq(Messages)
    BY <1>2, <2>1, PostKeeps DEF ReleaseATL
  <2>3. TypeOK'
    BY <1>2, <2>2 DEF ReleaseATL, TypeOK, Phases, used
  <2> QED BY <1>2, <2>3, FitKeep DEF ReleaseATL
<1>3. CASE ModemCrash
  <2>1. upsets' \in [loss : Nat, apn : Nat, crash : Nat]
    BY <1>3, UpsetKeeps DEF ModemCrash
  <2>2. modem' \in [Handles -> Phases]
    BY <1>3 DEF ModemCrash, Phases
  <2>3. TypeOK'
    BY <1>3, <2>1, <2>2 DEF ModemCrash, TypeOK
  <2> QED BY <1>3, <2>3, FitKeep DEF ModemCrash
<1>4. ASSUME NEW nif \in Nifs, WdsAnswers(nif) PROVE Inv'
  <2>1. [type |-> "granted", nif |-> nif] \in Messages
    BY DEF Messages
  <2>2. adapterQ' \in Seq(Messages)
    BY <1>4, <2>1, PostKeeps DEF WdsAnswers
  <2>3. lookups' \in [Nifs -> Nat]
    BY <1>4 DEF WdsAnswers, TypeOK
  <2>4. TypeOK'
    BY <1>4, <2>2, <2>3 DEF WdsAnswers, TypeOK, used
  <2> QED BY <1>4, <2>4, FitKeep DEF WdsAnswers
<1>5. \A type \in {"init", "opened", "failed", "closed"} : [type |-> type, nif |-> "agnss"] \in Messages
  BY DEF Messages, Nifs
<1>6. CASE Register
  <2>1. adapterQ' \in Seq(Messages)
    BY <1>5, <1>6, PostKeeps DEF Register
  <2>2. TypeOK'
    BY <1>6, <2>1 DEF Register, TypeOK, used
  <2> QED BY <1>6, <2>2, FitKeep DEF Register
<1>7. ASSUME TakeRequest \/ TakeRelease \/ ConnectionUp \/ ConnectionFails PROVE Inv'
  <2>1. adapterQ' \in Seq(Messages)
    BY <1>5, <1>7, PostKeeps DEF TakeRequest, TakeRelease, ConnectionUp, ConnectionFails, TypeOK
  <2>2. frameworkQ' \in Seq({"request", "release"})
    <3>1. frameworkQ' = frameworkQ \/ (frameworkQ # <<>> /\ frameworkQ' = Tail(frameworkQ))
      BY <1>7 DEF TakeRequest, TakeRelease, ConnectionUp, ConnectionFails
    <3>2. frameworkQ \in Seq({"request", "release"})
      BY DEF TypeOK
    <3> QED BY <3>1, <3>2
  <2>3. TypeOK'
    BY <1>7, <2>1, <2>2
    DEF TakeRequest, TakeRelease, ConnectionUp, ConnectionFails, TypeOK, used
  <2> QED BY <1>7, <2>3, FitKeep DEF TakeRequest, TakeRelease, ConnectionUp, ConnectionFails
<1>8. CASE ConnectionUpBadApn
  <2>1. nifs["agnss"] \in NifRecords /\ Fits(nifs["agnss"]) /\ "agnss" \in Nifs
    BY DEF TypeOK, NifRecords, SubscribersFit, Nifs
  <2> DEFINE r == Released(nifs["agnss"])
  <2>2. r \in Reactions /\ Fits(r.nif)
    BY <2>1, AnswersKeep
  <2>3. Perform("agnss", r, adapterQ)
    BY <1>8 DEF ConnectionUpBadApn
  <2>4. upsets' \in [loss : Nat, apn : Nat, crash : Nat]
    BY <1>8, UpsetKeeps DEF ConnectionUpBadApn
  <2>5. adapterQ \in Seq(Messages)
    BY DEF TypeOK
  <2> HIDE DEF r
  <2>6. /\ nifs' \in [Nifs -> NifRecords] /\ modem' \in [Handles -> Phases]
        /\ adapterQ' \in Seq(Messages) /\ frameworkQ' \in Seq({"request", "release"})
        /\ SubscribersFit'
    BY <2>1, <2>2, <2>3, <2>5, PerformKeeps
  <2> QED BY <1>8, <2>4, <2>6 DEF ConnectionUpBadApn, TypeOK, NifRecords
<1>9. CASE ConnectionLost
  <2>1. upsets' \in [loss : Nat, apn : Nat, crash : Nat]
    BY <1>9, UpsetKeeps DEF ConnectionLost
  <2>2. adapterQ' \in Seq(Messages)
    BY <1>5, <1>9, PostKeeps DEF ConnectionLost
  <2>3. TypeOK'
    BY <1>9, <2>1, <2>2 DEF ConnectionLost, TypeOK
  <2> QED BY <1>9, <2>3, FitKeep DEF ConnectionLost
<1>10. CASE NetworkInfo
  <2>1. upsets' \in [loss : Nat, apn : Nat, crash : Nat]
    BY <1>10, UpsetKeeps DEF NetworkInfo, TypeOK
  <2>2. TypeOK'
    BY <1>10, <2>1 DEF NetworkInfo, TypeOK
  <2> QED BY <1>10, <2>2, FitKeep DEF NetworkInfo
<1> QED BY <1>1, <1>2, <1>3, <1>4, <1>6, <1>7, <1>8, <1>9, <1>10 DEF Framework

LEMMA StepInv == Inv /\ [Next]_vars => Inv'
<1>1. ASSUME Inv, Next PROVE Inv'
  BY <1>1, HandlesKeep, OthersKeep DEF Next
<1>2. ASSUME Inv, UNCHANGED vars PROVE Inv'
  <2>1. TypeOK'
    BY <1>2 DEF Inv, TypeOK, vars
  <2> QED BY <1>2, <2>1, FitKeep DEF Inv, vars
<1> QED BY <1>1, <1>2

(* The variables of Agps keep their types. *)
THEOREM AgpsTypeCorrect == Spec => []TypeOK
<1>1. Inv => TypeOK
  BY DEF Inv
<1> QED BY <1>1, InitInv, StepInv, PTL DEF Spec

(* In every execution, with any number of handles, requests, losses, bad    *)
(* APNs and modem crashes, each AgpsStateMachine is RELEASED exactly when   *)
(* its subscriber list is empty, asks for or holds a connection only for an *)
(* active subscriber, and is RELEASING only while an inactive one waits.    *)
THEOREM AgpsSubscribersFit == Spec => []SubscribersFit
<1>1. Inv => SubscribersFit
  BY DEF Inv
<1> QED BY <1>1, InitInv, StepInv, PTL DEF Spec
-----------------------------------------------------------------------------
(* The connection.  A session of the framework runs from the request that   *)
(* asks for it to the one report that it failed or is closed; the machine   *)
(* of the AGNSS interface leaves RELEASED with the request and comes back   *)
(* with the report.  So there is never more than one request and never more *)
(* than one such report on the way, and the last word the framework will    *)
(* read is the one that fits the machine.                                   *)

Some(q, E) == \E i \in DOMAIN q : q[i] \in E
One(q, E) == \A i, j \in DOMAIN q : q[i] \in E /\ q[j] \in E => i = j

Reports == [type : {"closed", "failed"}, nif : {"agnss"}]
Requested == Some(frameworkQ, {"request"})
LastWord == frameworkQ[Len(frameworkQ)]
Agnss == nifs["agnss"].state

OneSession ==
    /\ One(adapterQ, Reports) /\ One(frameworkQ, {"request"})
    /\ Some(adapterQ, Reports) => Agnss # "released" /\ conn = "closed" /\ ~Requested
    /\ Requested \/ conn # "closed" => Agnss # "released"
    /\ Requested => conn = "closed"

LastWordFits ==
    /\ Agnss \in {"pending", "acquired"} =>
           /\ conn # "closed" => frameworkQ = <<>>
           /\ Requested => LastWord = "request"
    /\ Agnss = "releasing" =>
           /\ conn # "closed" => frameworkQ # <<>>
           /\ Requested => LastWord = "release"

Sessions == upsets.apn = 0 => OneSession /\ LastWordFits

(* What an event that is not the end of a session does to a machine, and    *)
(* what the end of one does                                                 *)
Moves(n, r) ==
    \/ r.nif.state = n.state /\ r.asks = <<>>
    \/ n.state = "released" /\ r.nif.state = "pending" /\ r.asks = <<"request">>
    \/ n.state = "pending" /\ r.nif.state = "acquired" /\ r.asks = <<>>
    \/ n.state \in {"pending", "acquired"} /\ r.nif.state = "releasing" /\ r.asks = <<"release">>

Ends(n, r) ==
    \/ r.nif.state = n.state /\ r.asks = <<>>
    \/ r.nif.state = "released" /\ r.asks = <<>>
    \/ r.nif.state = "pending" /\ r.asks = <<"request">>

LEMMA EventsMove ==
    ASSUME NEW n \in NifRecords, NEW h \in Handles
    PROVE  /\ Moves(n, Subscribe(n, h)) /\ Moves(n, Unsubscribe(n, h)) /\ Moves(n, Granted(n))
<1>1. AddSubscriber(n, h) \in NifRecords /\ AddSubscriber(n, h).state = n.state
  BY DEF AddSubscriber, NifRecords, Members
<1>2. Moves(n, Subscribe(n, h))
  BY <1>1 DEF Moves, Subscribe, React, Ignore, NifRecords
<1>3. Deactivate(n, h) \in NifRecords /\ Deactivate(n, h).state = n.state
  BY DEF Deactivate, NifRecords
<1>4. Moves(n, Unsubscribe(n, h))
  BY <1>3 DEF Moves, Unsubscribe, React, Ignore, NifRecords
<1>5. Moves(n, Granted(n))
  BY DEF Moves, Granted, React, Ignore, NifRecords
<1> QED BY <1>2, <1>4, <1>5

LEMMA AnswersEnd ==
    ASSUME NEW n \in NifRecords
    PROVE  Ends(n, Released(n)) /\ Ends(n, Denied(n))
<1>1. Ends(n, Closing(n))
  BY DEF Ends, Closing, React, NifRecords, Fresh
<1> QED BY <1>1 DEF Ends, Released, Denied, React, Ignore, NifRecords, Fresh

(* Queues: a message is added behind, and taken off in front *)
LEMMA Appended ==
    ASSUME NEW S, NEW q \in Seq(S), NEW m \in S
    PROVE  /\ Append(q, m) \in Seq(S) /\ Len(Append(q, m)) = Len(q) + 1
           /\ DOMAIN Append(q, m) = 1 .. Len(q) + 1 /\ DOMAIN q = 1 .. Len(q)
           /\ \A i \in 1 .. Len(q) : Append(q, m)[i] = q[i]
           /\ Append(q, m)[Len(q) + 1] = m
OBVIOUS

LEMMA TakenOff ==
    ASSUME NEW S, NEW q \in Seq(S), q # <<>>
    PROVE  /\ Tail(q) \in Seq(S) /\ Len(Tail(q)) = Len(q) - 1 /\ Len(q) \in Nat \ {0}
           /\ DOMAIN Tail(q) = 1 .. Len(q) - 1 /\ DOMAIN q = 1 .. Len(q)
           /\ \A i \in 1 .. Len(q) - 1 : Tail(q)[i] = q[i + 1]
           /\ Head(q) = q[1] /\ Head(q) \in S
OBVIOUS

LEMMA SomeAppended ==
    ASSUME NEW S, NEW q \in Seq(S), NEW m \in S, NEW E
    PROVE  /\ Some(Append(q, m), E) <=> Some(q, E) \/ m \in E
           /\ One(q, E) /\ (m \in E => ~Some(q, E)) => One(Append(q, m), E)
<1>1. Some(Append(q, m), E) <=> Some(q, E) \/ m \in E
  BY Appended DEF Some
<1>2. ASSUME One(q, E), m \in E => ~Some(q, E) PROVE One(Append(q, m), E)
  <2> SUFFICES ASSUME NEW i \in 1 .. Len(q) + 1, NEW j \in 1 .. Len(q) + 1,
                      Append(q, m)[i] \in E, Append(q, m)[j] \in E
               PROVE  i = j
    BY Appended DEF One
  <2>1. CASE i \in 1 .. Len(q) /\ j \in 1 .. Len(q)
    BY <1>2, <2>1, Appended DEF One
  <2>2. CASE i = Len(q) + 1 \/ j = Len(q) + 1
    BY <1>2, <2>2, Appended DEF Some
  <2>3. Len(q) \in Nat
    OBVIOUS
  <2> QED BY <2>1, <2>2, <2>3
<1> QED BY <1>1, <1>2

LEMMA SomeTakenOff ==
    ASSUME NEW S, NEW q \in Seq(S), q # <<>>, NEW E
    PROVE  /\ Some(q, E) <=> Some(Tail(q), E) \/ Head(q) \in E
           /\ One(q, E) => One(Tail(q), E) /\ (Head(q) \in E => ~Some(Tail(q), E))
<1>1. ASSUME Some(q, E) PROVE Some(Tail(q), E) \/ Head(q) \in E
  <2>1. PICK i \in DOMAIN q : q[i] \in E
    BY <1>1 DEF Some
  <2>2. CASE i = 1
    BY <2>1, <2>2, TakenOff
  <2>3. CASE i # 1
    <3>1. i - 1 \in DOMAIN Tail(q) /\ Tail(q)[i - 1] \in E
      BY <2>1, <2>3, TakenOff
    <3> QED BY <3>1 DEF Some
  <2> QED BY <2>2, <2>3
<1>2. \A i \in DOMAIN Tail(q) : i + 1 \in DOMAIN q /\ Tail(q)[i] = q[i + 1] /\ i \in Nat \ {0}
  BY TakenOff
<1>3. ASSUME Some(Tail(q), E) \/ Head(q) \in E PROVE Some(q, E)
  BY <1>2, <1>3, TakenOff DEF Some
<1>4. ASSUME One(q, E) PROVE One(Tail(q), E)
  <2> SUFFICES ASSUME NEW i \in DOMAIN Tail(q), NEW j \in DOMAIN Tail(q),
                      Tail(q)[i] \in E, Tail(q)[j] \in E
               PROVE  i = j
    BY DEF One
  <2>1. i + 1 = j + 1
    BY <1>2, <1>4 DEF One
  <2> QED BY <1>2, <2>1
<1>5. ASSUME One(q, E), Head(q) \in E PROVE ~Some(Tail(q), E)
  <2> SUFFICES ASSUME NEW i \in DOMAIN Tail(q), Tail(q)[i] \in E
               PROVE  FALSE
    BY DEF Some
  <2>1. i + 1 = 1
    BY <1>2, <1>5, TakenOff DEF One
  <2> QED BY <1>2, <2>1
<1> QED BY <1>1, <1>3, <1>4, <1>5

LEMMA InNextState ==
    /\ Some(frameworkQ, {"request"})' <=> Some(frameworkQ', {"request"})
    /\ One(frameworkQ, {"request"})' <=> One(frameworkQ', {"request"})
    /\ Some(adapterQ, Reports)' <=> Some(adapterQ', Reports)
    /\ One(adapterQ, Reports)' <=> One(adapterQ', Reports)
BY DEF Some, One, Reports

(* The queues a reaction leaves: NativeAgpsHandler adds at most one message *)
(* about the internet, the framework's queue gets what is asked of it.      *)
LEMMA PerformQueues ==
    ASSUME TypeOK, NEW nif \in Nifs, NEW r \in Reactions, NEW rest \in Seq(Messages),
           Perform(nif, r, rest)
    PROVE  /\ \/ adapterQ' = rest
              \/ nif = "internet" /\ \E type \in {"opened", "failed", "closed"} :
                     adapterQ' = Append(rest, [type |-> type, nif |-> "internet"])
           /\ frameworkQ' = IF nif = "agnss" THEN frameworkQ \o r.asks ELSE frameworkQ
           /\ nifs' = [nifs EXCEPT ![nif] = r.nif]
<1>1. CASE nif = "agnss"
  BY <1>1 DEF Perform
<1>2. CASE nif = "internet"
  <2>1. adapterQ' = rest \o NativeAnswers(r.asks) /\ frameworkQ' = frameworkQ
    BY <1>2 DEF Perform
  <2>2. \/ NativeAnswers(r.asks) = <<>>
        \/ \E type \in {"opened", "failed", "closed"} :
               NativeAnswers(r.asks) = <<[type |-> type, nif |-> "internet"]>>
    BY DEF NativeAnswers
  <2>3. rest \o <<>> = rest /\ \A m : rest \o <<m>> = Append(rest, m)
    OBVIOUS
  <2> QED BY <1>2, <2>1, <2>2, <2>3 DEF Perform
<1> QED BY <1>1, <1>2 DEF Nifs

LEMMA AskedOfFramework ==
    ASSUME NEW f \in Seq({"request", "release"})
    PROVE  /\ f \o <<>> = f
           /\ \A a \in {"request", "release"} :
                  /\ f \o <<a>> = Append(f, a) /\ f \o <<a>> # <<>>
                  /\ (f \o <<a>>)[Len(f \o <<a>>)] = a
OBVIOUS

LEMMA RequestsAppended ==
    ASSUME NEW f \in Seq({"request", "release"}), NEW a \in {"request", "release"}
    PROVE  /\ Some(Append(f, a), {"request"}) <=> Some(f, {"request"}) \/ a = "request"
           /\ One(f, {"request"}) /\ (a = "request" => ~Some(f, {"request"}))
                  => One(Append(f, a), {"request"})
<1> DEFINE E == {"request"}
<1>1. a \in E <=> a = "request"
  OBVIOUS
<1> HIDE DEF E
<1>2. /\ Some(Append(f, a), E) <=> Some(f, E) \/ a \in E
      /\ One(f, E) /\ (a \in E => ~Some(f, E)) => One(Append(f, a), E)
  BY SomeAppended
<1> QED BY <1>1, <1>2 DEF E

LEMMA MachineKeepsSession ==
    ASSUME TypeOK, OneSession, LastWordFits, NEW r \in Reactions,
           nifs' = [nifs EXCEPT !["agnss"] = r.nif],
           frameworkQ' = frameworkQ \o r.asks, UNCHANGED conn, One(adapterQ, Reports)',
           \/ Moves(nifs["agnss"], r) /\ (Some(adapterQ, Reports)' => Some(adapterQ, Reports))
           \/ /\ Ends(nifs["agnss"], r)
              /\ Some(adapterQ, Reports) /\ ~Some(adapterQ, Reports)'
    PROVE  OneSession' /\ LastWordFits'
<1>1. Agnss' = r.nif.state /\ Agnss \in States
  BY DEF TypeOK, Agnss, Nifs
<1>2. frameworkQ \in Seq({"request", "release"})
  BY DEF TypeOK
<1>3. CASE r.nif.state = Agnss /\ r.asks = <<>>
  <2>1. frameworkQ' = frameworkQ /\ Agnss' = Agnss
    BY <1>1, <1>2, <1>3, AskedOfFramework
  <2> QED BY <2>1 DEF OneSession, LastWordFits, Requested, LastWord
<1>4. CASE /\ \/ Agnss = "released" /\ r.nif.state = "pending"
              \/ Some(adapterQ, Reports) /\ ~Some(adapterQ, Reports)' /\ r.nif.state = "pending"
           /\ r.asks = <<"request">>
  <2>1. ~Requested /\ conn = "closed"
    BY <1>4 DEF OneSession
  <2>2. /\ frameworkQ' = Append(frameworkQ, "request")
        /\ LastWord' = "request"
    BY <1>2, <1>4, AskedOfFramework DEF LastWord
  <2>3. One(frameworkQ', {"request"})
    <3>1. One(frameworkQ, {"request"}) /\ ~Some(frameworkQ, {"request"})
      BY <2>1 DEF Requested, OneSession
    <3>2. One(Append(frameworkQ, "request"), {"request"})
      BY <1>2, <3>1, RequestsAppended
    <3> QED BY <2>2, <3>2
  <2>5. Agnss' = "pending"
    BY <1>1, <1>4
  <2>4. ~Some(adapterQ, Reports)'
    BY <1>1, <1>4 DEF OneSession, Moves, Agnss, Ends
  <2> QED BY <2>1, <2>2, <2>3, <2>4, <2>5, InNextState DEF OneSession, LastWordFits
<1>5. CASE /\ Agnss = "pending" /\ r.nif.state = "acquired" /\ r.asks = <<>>
           /\ (Some(adapterQ, Reports)' => Some(adapterQ, Reports))
  <2>1. frameworkQ' = frameworkQ /\ Agnss' = "acquired"
    BY <1>1, <1>2, <1>5, AskedOfFramework
  <2> QED BY <1>5, <2>1 DEF OneSession, LastWordFits, Requested, LastWord
<1>6. CASE /\ Agnss \in {"pending", "acquired"} /\ r.nif.state = "releasing"
           /\ r.asks = <<"release">>
           /\ (Some(adapterQ, Reports)' => Some(adapterQ, Reports))
  <2>1. /\ frameworkQ' = Append(frameworkQ, "release") /\ frameworkQ' # <<>>
        /\ LastWord' = "release"
    BY <1>2, <1>6, AskedOfFramework DEF LastWord
  <2>2. /\ Requested' <=> Requested
        /\ One(frameworkQ', {"request"})
    <3>1. One(frameworkQ, {"request"})
      BY DEF OneSession
    <3>2. /\ Some(Append(frameworkQ, "release"), {"request"}) <=> Some(frameworkQ, {"request"})
          /\ One(Append(frameworkQ, "release"), {"request"})
      BY <1>2, <3>1, RequestsAppended
    <3> QED BY <2>1, <3>2, InNextState DEF Requested
  <2>3. Agnss' = "releasing"
    BY <1>1, <1>6
  <2> QED BY <1>6, <2>1, <2>2, <2>3, InNextState DEF OneSession, LastWordFits
<1>7. CASE /\ Some(adapterQ, Reports) /\ ~Some(adapterQ, Reports)'
           /\ r.nif.state = "released" /\ r.asks = <<>>
  <2>1. frameworkQ' = frameworkQ /\ Agnss' = "released"
    BY <1>1, <1>2, <1>7, AskedOfFramework
  <2> QED BY <1>7, <2>1 DEF OneSession, LastWordFits, Requested
<1> QED BY <1>3, <1>4, <1>5, <1>6, <1>7 DEF Moves, Ends, Agnss

(* What a reaction leaves of the reports of the framework: what the rest of *)
(* the queue has of them                                                    *)
LEMMA PerformReports ==
    ASSUME TypeOK, NEW nif \in Nifs, NEW r \in Reactions, NEW rest \in Seq(Messages),
           Perform(nif, r, rest)
    PROVE  /\ Some(adapterQ, Reports)' <=> Some(rest, Reports)
           /\ One(rest, Reports) => One(adapterQ, Reports)'
<1>1. CASE adapterQ' = rest
  BY <1>1, InNextState
<1>2. ASSUME NEW type \in {"opened", "failed", "closed"},
             adapterQ' = Append(rest, [type |-> type, nif |-> "internet"])
      PROVE  /\ Some(adapterQ, Reports)' <=> Some(rest, Reports)
             /\ One(rest, Reports) => One(adapterQ, Reports)'
  <2> DEFINE m == [type |-> type, nif |-> "internet"]
  <2>1. m \in Messages /\ m \notin Reports
    BY DEF Messages, Nifs, Reports
  <2> HIDE DEF m
  <2>2. adapterQ' = Append(rest, m)
    BY <1>2 DEF m
  <2>3. /\ Some(Append(rest, m), Reports) <=> Some(rest, Reports) \/ m \in Reports
        /\ One(rest, Reports) /\ (m \in Reports => ~Some(rest, Reports))
               => One(Append(rest, m), Reports)
    BY <2>1, SomeAppended
  <2> QED BY <2>1, <2>2, <2>3, InNextState
<1> QED BY <1>1, <1>2, PerformQueues

(* A reaction to the message in front that is no report of the framework,   *)
(* and one to a report                                                      *)
LEMMA ReactionKeepsSession ==
    ASSUME TypeOK, OneSession, LastWordFits, adapterQ # <<>>, UNCHANGED conn,
           NEW nif \in Nifs, NEW r \in Reactions, Perform(nif, r, Tail(adapterQ)),
           nif = "agnss" => IF Head(adapterQ) \in Reports THEN Ends(nifs[nif], r)
                                                          ELSE Moves(nifs[nif], r),
           nif # "agnss" => Head(adapterQ) \notin Reports
    PROVE  OneSession' /\ LastWordFits'
<1>1. adapterQ \in Seq(Messages) /\ nifs \in [Nifs -> NifRecords]
  BY DEF TypeOK, NifRecords
<1>2. /\ Tail(adapterQ) \in Seq(Messages)
      /\ Some(adapterQ, Reports) <=> Some(Tail(adapterQ), Reports) \/ Head(adapterQ) \in Reports
      /\ One(adapterQ, Reports) =>
             /\ One(Tail(adapterQ), Reports)
             /\ Head(adapterQ) \in Reports => ~Some(Tail(adapterQ), Reports)
  BY <1>1, TakenOff, SomeTakenOff
<1>3. /\ Some(adapterQ, Reports)' <=> Some(Tail(adapterQ), Reports)
      /\ One(Tail(adapterQ), Reports) => One(adapterQ, Reports)'
  BY <1>2, PerformReports
<1>4. One(adapterQ, Reports)'
  BY <1>2, <1>3 DEF OneSession
<1>5. /\ frameworkQ' = IF nif = "agnss" THEN frameworkQ \o r.asks ELSE frameworkQ
      /\ nifs' = [nifs EXCEPT ![nif] = r.nif]
  BY <1>2, PerformQueues
<1>6. CASE nif = "agnss"
  <2>1. /\ nifs' = [nifs EXCEPT !["agnss"] = r.nif]
        /\ frameworkQ' = frameworkQ \o r.asks
    BY <1>5, <1>6
  <2>2. \/ Moves(nifs["agnss"], r) /\ (Some(adapterQ, Reports)' => Some(adapterQ, Reports))
        \/ /\ Ends(nifs["agnss"], r)
           /\ Some(adapterQ, Reports) /\ ~Some(adapterQ, Reports)'
    BY <1>2, <1>3, <1>6 DEF OneSession
  <2> QED BY <1>4, <2>1, <2>2, MachineKeepsSession
<1>7. CASE nif # "agnss"
  <2>1. Agnss' = Agnss /\ frameworkQ' = frameworkQ
    BY <1>1, <1>5, <1>7 DEF Agnss, Nifs
  <2>2. Some(adapterQ, Reports)' <=> Some(adapterQ, Reports)
    BY <1>2, <1>3, <1>7
  <2> QED BY <1>4, <2>1, <2>2 DEF OneSession, LastWordFits, Requested, LastWord
<1> QED BY <1>6, <1>7

(* A report that is posted while there is none is the only one; another     *)
(* message changes nothing                                                  *)
LEMMA ReportPosted ==
    ASSUME adapterQ \in Seq(Messages), NEW type \in {"closed", "failed"},
           Post([type |-> type, nif |-> "agnss"]),
           One(adapterQ, Reports), ~Some(adapterQ, Reports)
    PROVE  One(adapterQ, Reports)'
<1> DEFINE m == [type |-> type, nif |-> "agnss"]
<1>1. m \in Messages
  BY DEF Messages, Nifs
<1> HIDE DEF m
<1>2. One(Append(adapterQ, m), Reports)
  BY <1>1, SomeAppended
<1> QED BY <1>2, InNextState DEF Post, m

LEMMA QuietPosted ==
    ASSUME adapterQ \in Seq(Messages), NEW m \in Messages \ Reports, Post(m),
           One(adapterQ, Reports)
    PROVE  (Some(adapterQ, Reports)' <=> Some(adapterQ, Reports)) /\ One(adapterQ, Reports)'
<1>1. /\ Some(Append(adapterQ, m), Reports) <=> Some(adapterQ, Reports) \/ m \in Reports
      /\ One(adapterQ, Reports) /\ (m \in Reports => ~Some(adapterQ, Reports))
             => One(Append(adapterQ, m), Reports)
  BY SomeAppended
<1> QED BY <1>1, InNextState DEF Post

(* So does a step that leaves the machine and the framework alone and posts *)
(* or takes off a message that is no report                                 *)
LEMMA QuietKeepsSession ==
    ASSUME TypeOK, OneSession, LastWordFits, UNCHANGED <<conn, frameworkQ, nifs>>,
           \/ UNCHANGED adapterQ
           \/ \E m \in Messages \ Reports : Post(m)
           \/ adapterQ # <<>> /\ Head(adapterQ) \notin Reports /\ adapterQ' = Tail(adapterQ)
    PROVE  OneSession' /\ LastWordFits'
<1>1. adapterQ \in Seq(Messages)
  BY DEF TypeOK
<1>2. /\ Some(adapterQ, Reports)' <=> Some(adapterQ, Reports)
      /\ One(adapterQ, Reports)'
  <2>1. CASE UNCHANGED adapterQ
    BY <2>1, InNextState DEF OneSession
  <2>2. ASSUME NEW m \in Messages \ Reports, Post(m)
        PROVE  (Some(adapterQ, Reports)' <=> Some(adapterQ, Reports)) /\ One(adapterQ, Reports)'
    BY <1>1, <2>2, QuietPosted DEF OneSession
  <2>3. CASE adapterQ # <<>> /\ Head(adapterQ) \notin Reports /\ adapterQ' = Tail(adapterQ)
    <3>1. /\ Some(adapterQ, Reports) <=> Some(Tail(adapterQ), Reports) \/ Head(adapterQ) \in Reports
          /\ One(adapterQ, Reports) => One(Tail(adapterQ), Reports)
      BY <1>1, <2>3, SomeTakenOff
    <3> QED BY <2>3, <3>1, InNextState DEF OneSession
  <2> QED BY <2>1, <2>2, <2>3
<1>3. Agnss' = Agnss /\ (Requested' <=> Requested) /\ LastWord' = LastWord
  BY InNextState DEF Agnss, Requested, LastWord
<1> QED BY <1>2, <1>3, InNextState DEF OneSession, LastWordFits

LEMMA ReportTypes ==
    ASSUME NEW m \in Messages
    PROVE  m \in Reports <=> m.type \in {"closed", "failed"} /\ m.nif = "agnss"
BY DEF Messages, Reports, Nifs

LEMMA AdapterKeepsSession ==
    ASSUME Inv, OneSession, LastWordFits, Adapter
    PROVE  OneSession' /\ LastWordFits'
<1> DEFINE m == Head(adapterQ)
<1>1. TypeOK /\ nifs \in [Nifs -> NifRecords]
  BY DEF Inv, TypeOK, NifRecords
<1>2. adapterQ # <<>> /\ m \in Messages /\ Tail(adapterQ) \in Seq(Messages)
  BY <1>1, NextMessage DEF Adapter, HandleInit, HandleRequest, HandleRelease, HandleOpened,
                          HandleGranted, HandleFailed, HandleClosed, NextIs
<1>3. m \in Reports <=> m.type \in {"closed", "failed"} /\ m.nif = "agnss"
  BY <1>2, ReportTypes
<1>4. UNCHANGED conn
  BY DEF Adapter, HandleInit, HandleRequest, HandleRelease, HandleOpened,
         HandleGranted, HandleFailed, HandleClosed
<1>5. CASE \/ HandleInit
           \/ HandleRequest /\ m.nif \notin created
           \/ HandleRelease /\ m.handle \notin Members(nifs[Holder(m.handle)])
           \/ HandleOpened /\ wds
  <2>1. adapterQ' = Tail(adapterQ) /\ UNCHANGED <<nifs, frameworkQ>> /\ m \notin Reports
    BY <1>3, <1>5 DEF HandleInit, HandleRequest, HandleRelease, HandleOpened, NextIs
  <2> QED BY <1>1, <1>2, <1>4, <2>1, QuietKeepsSession
<1>6. CASE HandleRequest /\ m.nif \in created
  <2>1. m.nif \in Nifs /\ m.handle \in Handles /\ m \notin Reports
    BY <1>2, <1>3, <1>6, MessageFields DEF HandleRequest, NextIs
  <2> DEFINE n == nifs[m.nif]
             r == Subscribe(n, m.handle)
  <2>2. r \in Reactions /\ Moves(n, r)
    BY <1>1, <2>1, SubscribeKeeps, EventsMove
  <2>3. Perform(m.nif, r, Tail(adapterQ))
    BY <1>6 DEF HandleRequest
  <2> HIDE DEF r
  <2> QED BY <1>1, <1>2, <1>4, <2>1, <2>2, <2>3, ReactionKeepsSession
<1>7. CASE HandleRelease /\ m.handle \in Members(nifs[Holder(m.handle)])
  <2> DEFINE h == m.handle
             n == nifs[Holder(h)]
             r == Unsubscribe(n, h)
  <2>1. Holder(h) \in Nifs /\ h \in Handles /\ m \notin Reports
    BY <1>2, <1>3, <1>7, MessageFields, HolderIsNif DEF HandleRelease, NextIs
  <2>2. r \in Reactions /\ Moves(n, r)
    BY <1>1, <1>7, <2>1, UnsubscribeKeeps, EventsMove
  <2>3. Perform(Holder(h), r, Tail(adapterQ))
    BY <1>7 DEF HandleRelease
  <2> HIDE DEF r
  <2> QED BY <1>1, <1>2, <1>4, <2>1, <2>2, <2>3, ReactionKeepsSession
<1>8. CASE (HandleOpened /\ ~wds) \/ HandleGranted
  <2>1. m.nif \in Nifs /\ m \notin Reports
    BY <1>2, <1>3, <1>8, MessageFields DEF HandleOpened, HandleGranted, NextIs
  <2> DEFINE n == nifs[m.nif]
             r == Granted(n)
  <2>2. r \in Reactions
    BY <1>1, <2>1, AnswersKeep
  <2>3. Moves(n, r)
    BY <1>1, <2>1 DEF Moves, Granted, React, Ignore, NifRecords
  <2>4. Perform(m.nif, r, Tail(adapterQ))
    BY <1>8 DEF HandleOpened, HandleGranted
  <2> HIDE DEF r
  <2> QED BY <1>1, <1>2, <1>4, <2>1, <2>2, <2>3, <2>4, ReactionKeepsSession
<1>9. CASE HandleFailed \/ HandleClosed
  <2>1. m.nif \in Nifs /\ (m \in Reports <=> m.nif = "agnss")
    BY <1>2, <1>3, <1>9, MessageFields DEF HandleFailed, HandleClosed, NextIs
  <2> DEFINE n == nifs[m.nif]
  <2>2. \A r \in {Released(n), Denied(n)} : r \in Reactions /\ Ends(n, r)
    BY <1>1, <2>1, AnswersKeep, AnswersEnd
  <2>3. PICK r \in {Released(n), Denied(n)} : Perform(m.nif, r, Tail(adapterQ))
    BY <1>9 DEF HandleFailed, HandleClosed
  <2> QED BY <1>1, <1>2, <1>4, <2>1, <2>2, <2>3, ReactionKeepsSession
<1> QED BY <1>5, <1>6, <1>7, <1>8, <1>9 DEF Adapter

LEMMA FrameworkKeepsSession ==
    ASSUME Inv, OneSession, LastWordFits,
           TakeRequest \/ TakeRelease \/ ConnectionUp \/ ConnectionFails \/ ConnectionLost
    PROVE  OneSession' /\ LastWordFits'
<1>1. adapterQ \in Seq(Messages) /\ frameworkQ \in Seq({"request", "release"}) /\ Agnss \in States
  BY DEF Inv, TypeOK, Agnss, Nifs
<1>2. Agnss' = Agnss
  BY DEF TakeRequest, TakeRelease, ConnectionUp, ConnectionFails, ConnectionLost, Agnss
<1>3. CASE TakeRequest \/ TakeRelease
  <2>1. /\ frameworkQ # <<>> /\ frameworkQ' = Tail(frameworkQ)
        /\ Head(frameworkQ) = "request" => TakeRequest
        /\ Head(frameworkQ) # "request" => TakeRelease
    BY <1>3 DEF TakeRequest, TakeRelease
  <2>2. Requested <=> Requested' \/ Head(frameworkQ) = "request"
    <3>1. Head(frameworkQ) \in {"request"} <=> Head(frameworkQ) = "request"
      OBVIOUS
    <3>2. Some(frameworkQ, {"request"}) <=>
              Some(Tail(frameworkQ), {"request"}) \/ Head(frameworkQ) \in {"request"}
      BY <1>1, <2>1, SomeTakenOff
    <3> QED BY <2>1, <3>1, <3>2, InNextState DEF Requested
  <2>3. One(frameworkQ, {"request"})' /\ (Head(frameworkQ) = "request" => ~Requested')
    <3>1. One(frameworkQ, {"request"}) =>
              /\ One(Tail(frameworkQ), {"request"})
              /\ Head(frameworkQ) \in {"request"} => ~Some(Tail(frameworkQ), {"request"})
      BY <1>1, <2>1, SomeTakenOff
    <3> QED BY <2>1, <3>1, InNextState DEF OneSession, Requested
  <2>4. /\ Len(frameworkQ) = 1 => LastWord = Head(frameworkQ) /\ frameworkQ' = <<>>
        /\ Len(frameworkQ) # 1 => LastWord' = LastWord /\ frameworkQ' # <<>>
    <3>1. /\ Len(frameworkQ) \in Nat \ {0} /\ Head(frameworkQ) = frameworkQ[1]
          /\ Len(Tail(frameworkQ)) = Len(frameworkQ) - 1
          /\ \A i \in 1 .. Len(frameworkQ) - 1 : Tail(frameworkQ)[i] = frameworkQ[i + 1]
      BY <1>1, <2>1
    <3>3. Len(frameworkQ') = 0 <=> frameworkQ' = <<>>
      <4>1. frameworkQ' \in Seq({"request", "release"})
        BY <1>1, <2>1
      <4> QED BY <4>1
    <3>2. LastWord = frameworkQ[Len(frameworkQ)]
          /\ LastWord' = Tail(frameworkQ)[Len(Tail(frameworkQ))]
      BY <2>1 DEF LastWord
    <3> QED BY <2>1, <3>1, <3>2, <3>3
  <2>5. Requested' => frameworkQ' # <<>>
    BY <1>1, <2>1 DEF Requested, Some
  <2>6. CASE Head(frameworkQ) = "request"
    <3>1. conn' = "opening" /\ UNCHANGED adapterQ
      BY <2>1, <2>6 DEF TakeRequest
    <3>2. Requested /\ ~Requested' /\ ~Some(adapterQ, Reports)
      BY <2>2, <2>3, <2>6 DEF OneSession
    <3>3. /\ ~Some(adapterQ, Reports)' /\ One(adapterQ, Reports)'
      BY <3>1, <3>2, InNextState DEF OneSession
    <3>4. /\ Agnss \in {"pending", "acquired"} => frameworkQ' = <<>>
          /\ Agnss = "releasing" => frameworkQ' # <<>>
      <4>1. Agnss \in {"pending", "acquired"} => LastWord = "request"
        BY <3>2 DEF LastWordFits
      <4>2. LastWord = "request" => Len(frameworkQ) = 1
        <5>1. 1 \in DOMAIN frameworkQ /\ Len(frameworkQ) \in DOMAIN frameworkQ
              /\ frameworkQ[1] = "request"
          BY <1>1, <2>1, <2>6
        <5> QED BY <5>1 DEF OneSession, One, LastWord
      <4>3. Agnss = "releasing" => LastWord = "release"
        BY <3>2 DEF LastWordFits
      <4> QED BY <2>4, <2>6, <4>1, <4>2, <4>3
    <3> QED BY <1>2, <2>3, <3>1, <3>2, <3>3, <3>4 DEF OneSession, LastWordFits
  <2>7. CASE Head(frameworkQ) = "release"
    <3>1. /\ conn' = "closed"
          /\ conn = "closed" => UNCHANGED adapterQ
          /\ conn # "closed" => Post([type |-> "closed", nif |-> "agnss"])
      BY <2>1, <2>7 DEF TakeRelease
    <3>2. Requested' <=> Requested
      BY <2>2, <2>7
    <3>3. Requested' => LastWord' = LastWord
      BY <2>4, <2>5
    <3>4. CASE conn = "closed"
      BY <1>2, <2>3, <3>1, <3>2, <3>3, <3>4, InNextState DEF OneSession, LastWordFits
    <3>5. CASE conn # "closed"
      <4>1. ~Some(adapterQ, Reports) /\ ~Requested /\ Agnss # "released"
        BY <3>5 DEF OneSession
      <4>2. One(adapterQ, Reports)'
        BY <1>1, <3>1, <3>5, <4>1, ReportPosted DEF OneSession
      <4> QED BY <1>2, <2>3, <3>1, <3>2, <4>1, <4>2 DEF OneSession, LastWordFits
    <3> QED BY <3>4, <3>5
  <2> QED BY <1>1, <2>1, <2>6, <2>7
<1>4. CASE ConnectionUp
  <2>1. [type |-> "opened", nif |-> "agnss"] \in Messages \ Reports
    BY DEF Messages, Nifs, Reports
  <2>2. Post([type |-> "opened", nif |-> "agnss"])
    BY <1>4 DEF ConnectionUp
  <2>3. (Some(adapterQ, Reports)' <=> Some(adapterQ, Reports)) /\ One(adapterQ, Reports)'
    BY <1>1, <2>1, <2>2, QuietPosted DEF OneSession
  <2>4. UNCHANGED frameworkQ /\ conn = "opening" /\ conn' = "open"
    BY <1>4 DEF ConnectionUp
  <2>5. One(frameworkQ, {"request"})' /\ (Requested' <=> Requested) /\ LastWord' = LastWord
    BY <2>4, InNextState DEF Requested, LastWord, OneSession
  <2> QED BY <1>2, <2>3, <2>4, <2>5 DEF OneSession, LastWordFits
<1>5. CASE ConnectionFails \/ ConnectionLost
  <2>1. /\ conn # "closed" /\ conn' = "closed" /\ UNCHANGED frameworkQ
        /\ \/ Post([type |-> "failed", nif |-> "agnss"])
           \/ Post([type |-> "closed", nif |-> "agnss"])
    BY <1>5 DEF ConnectionFails, ConnectionLost
  <2>2. ~Some(adapterQ, Reports) /\ ~Requested /\ Agnss # "released"
    BY <2>1 DEF OneSession
  <2>3. One(adapterQ, Reports)'
    BY <1>1, <2>1, <2>2, ReportPosted DEF OneSession
  <2>4. One(frameworkQ, {"request"})' /\ (Requested' <=> Requested) /\ LastWord' = LastWord
    BY <2>1, InNextState DEF Requested, LastWord, OneSession
  <2> QED BY <1>2, <2>1, <2>2, <2>3, <2>4 DEF OneSession, LastWordFits
<1> QED BY <1>3, <1>4, <1>5

LEMMA InitSessions == Init => Sessions
<1> SUFFICES ASSUME Init PROVE OneSession /\ LastWordFits
  BY DEF Sessions
<1>1. Agnss = "released" /\ conn = "closed"
  BY DEF Init, Agnss, Nifs, Fresh
<1>2. ~Requested /\ One(frameworkQ, {"request"})
  BY DEF Init, Requested, Some, One
<1>3. ~Some(adapterQ, Reports) /\ One(adapterQ, Reports)
  <2>1. \A i \in DOMAIN adapterQ : adapterQ[i].type = "init"
    BY DEF Init
  <2>2. \A m \in Reports : m.type # "init"
    BY DEF Reports
  <2> QED BY <2>1, <2>2 DEF Some, One
<1> QED BY <1>1, <1>2, <1>3 DEF OneSession, LastWordFits

LEMMA StepSessions == Inv /\ Sessions /\ [Next]_vars => Sessions'
<1> SUFFICES ASSUME Inv, Sessions, [Next]_vars, upsets'.apn = 0
             PROVE  OneSession' /\ LastWordFits'
  BY DEF Sessions
<1>1. TypeOK /\ upsets \in [loss : Nat, apn : Nat, crash : Nat]
  BY DEF Inv, TypeOK
<1>2. ASSUME NEW what \in {"loss", "apn", "crash"}, Upset(what)
      PROVE  upsets.apn = 0 /\ what # "apn"
  BY <1>1, <1>2 DEF Upset
<1>3. ~ConnectionUpBadApn
  BY <1>2 DEF ConnectionUpBadApn
<1>4. upsets.apn = 0
  <2>1. UNCHANGED upsets \/ Upset("loss") \/ Upset("apn") \/ Upset("crash")
    BY DEF Next, vars, RequestATL, ReleaseATL, ModemCrash, Adapter, HandleInit, HandleRequest,
           HandleRelease, HandleOpened, HandleGranted, HandleFailed, HandleClosed, WdsAnswers,
           Register, Framework, TakeRequest, TakeRelease, ConnectionUp, ConnectionUpBadApn,
           ConnectionFails, ConnectionLost, NetworkInfo, used
  <2> QED BY <1>2, <2>1
<1>5. OneSession /\ LastWordFits
  BY <1>4 DEF Sessions
<1>6. CASE Adapter
  BY <1>5, <1>6, AdapterKeepsSession
<1>7. CASE Framework \/ ConnectionLost
  BY <1>3, <1>5, <1>7, FrameworkKeepsSession DEF Framework
<1>8. CASE \/ \E h \in Handles, nif \in Nifs : RequestATL(h, nif)
           \/ \E h \in Handles : ReleaseATL(h)
           \/ ModemCrash \/ Register \/ NetworkInfo
           \/ \E nif \in Nifs : WdsAnswers(nif)
           \/ UNCHANGED vars
  <2>1. UNCHANGED <<conn, frameworkQ, nifs>>
    BY <1>8 DEF RequestATL, ReleaseATL, ModemCrash, Register, NetworkInfo, WdsAnswers, vars
  <2>2. /\ \A nif \in Nifs, h \in Handles :
               [type |-> "request", nif |-> nif, handle |-> h] \in Messages \ Reports
        /\ \A h \in Handles : [type |-> "release", handle |-> h] \in Messages \ Reports
        /\ \A nif \in Nifs : [type |-> "granted", nif |-> nif] \in Messages \ Reports
        /\ [type |-> "init", nif |-> "agnss"] \in Messages \ Reports
    BY DEF Messages, Reports, Nifs
  <2>3. UNCHANGED adapterQ \/ \E m \in Messages \ Reports : Post(m)
    BY <1>8, <2>2 DEF RequestATL, ReleaseATL, ModemCrash, Register, NetworkInfo, WdsAnswers, vars
  <2> QED BY <1>1, <1>5, <2>1, <2>3, QuietKeepsSession
<1> QED BY <1>6, <1>7, <1>8 DEF Next

(* In every execution, whatever requests, releases, failures, losses, modem *)
(* crashes and late grants cross each other: when every message is handled, *)
(* the framework's connection is open only while AgpsManager's AGNSS        *)
(* machine asks for it or holds it, unless dataConnOpenCommand refused an   *)
(* APN.                                                                     *)
THEOREM AgpsConnectionNeeded == Spec => []ConnectionNeeded
<1>1. Inv /\ Sessions => ConnectionNeeded
  <2> SUFFICES ASSUME Inv, Sessions, AtRest, conn = "open", upsets.apn = 0
               PROVE  Agnss \in {"pending", "acquired"}
    BY DEF ConnectionNeeded, Agnss
  <2>1. Agnss \in States
    BY DEF Inv, TypeOK, Agnss, Nifs
  <2>2. Agnss # "released" /\ (Agnss = "releasing" => frameworkQ # <<>>)
    BY DEF Sessions, OneSession, LastWordFits
  <2> QED BY <2>1, <2>2 DEF AtRest, States
<1> QED BY <1>1, InitInv, StepInv, InitSessions, StepSessions, PTL DEF Spec

-----------------------------------------------------------------------------
(* The handles.  While a request of a handle is on its way, no machine      *)
(* knows the handle; afterwards exactly one does, as an active subscriber   *)
(* until its release is handled, and then as an inactive one.  A release    *)
(* that is still on its way when the handle is told "closed" is overtaken   *)
(* by nothing: it is handled before the next request of the handle.         *)

Follows(q, E, F) == \E i, j \in DOMAIN q : i < j /\ q[i] \in E /\ q[j] \in F

RequestsOf(h) == [type : {"request"}, nif : Nifs, handle : {h}]
ReleasesOf(h) == [type : {"release"}, handle : {h}]

Asks(h) == Some(adapterQ, RequestsOf(h))
AsksOnce(h) == One(adapterQ, RequestsOf(h))
GivesBack(h) == Some(adapterQ, ReleasesOf(h))
GivesBackLast(h) == Follows(adapterQ, RequestsOf(h), ReleasesOf(h))

Known(h) == \E nif \in Nifs : h \in Members(nifs[nif])
ActiveHolding(h) == \E nif \in Nifs : h \in nifs[nif].active /\ nifs[nif].state = "acquired"
ActiveWaiting(h) == \E nif \in Nifs : h \in nifs[nif].active /\ nifs[nif].state # "acquired"
InactiveIn(h) == \E nif \in Nifs : h \in nifs[nif].inactive

HandleFits(h) ==
    /\ AsksOnce(h) /\ (Asks(h) => ~Known(h))
    /\ modem[h] = "idle" => ~Asks(h) /\ ~Known(h)
    /\ modem[h] = "opening" => IF Asks(h) THEN ~GivesBackLast(h)
                                          ELSE ~GivesBack(h) /\ ActiveWaiting(h)
    /\ modem[h] = "open" => ~Asks(h) /\ ~GivesBack(h) /\ ActiveHolding(h)
    /\ modem[h] = "closing" =>
           IF Asks(h) THEN GivesBackLast(h)
           ELSE \/ GivesBack(h) /\ (ActiveHolding(h) \/ ActiveWaiting(h))
                \/ InactiveIn(h)

OneMachine(h) == \A nif, other \in Nifs :
    h \in Members(nifs[nif]) /\ h \in Members(nifs[other]) => nif = other

HandlesFit == upsets.crash = 0 => \A h \in Handles : HandleFits(h) /\ OneMachine(h)

(* What the handling of an event of somebody else may do to a subscriber:   *)
(* keep it, or tell it that it is out                                       *)
Spares(n, r, h) ==
    /\ h \notin Members(n) => h \notin Members(r.nif) /\ h \notin r.to
    /\ h \in Members(n) /\ h \in r.to /\ r.what # "opened" => h \notin Members(r.nif)
    /\ h \in n.inactive /\ ~(h \in r.to /\ r.what # "opened") =>
           h \in r.nif.inactive /\ h \notin r.nif.active /\ h \notin r.to
    /\ h \in n.active /\ ~(h \in r.to /\ r.what # "opened") =>
           /\ h \in r.nif.active /\ h \notin r.nif.inactive
           /\ h \in r.to => r.nif.state = "acquired"
           /\ h \notin r.to => (r.nif.state = "acquired" <=> n.state = "acquired")

LEMMA EventsSpare ==
    ASSUME NEW n \in NifRecords, Fits(n), NEW h \in Handles, NEW g \in Handles
    PROVE  /\ g # h => Spares(n, Subscribe(n, g), h) /\ Spares(n, Unsubscribe(n, g), h)
           /\ Spares(n, Granted(n), h) /\ Spares(n, Released(n), h) /\ Spares(n, Denied(n), h)
<1>1. ASSUME g # h PROVE Spares(n, Subscribe(n, g), h)
  <2>1. /\ AddSubscriber(n, g) \in NifRecords /\ AddSubscriber(n, g).state = n.state
        /\ AddSubscriber(n, g).inactive = n.inactive
        /\ h \in AddSubscriber(n, g).active <=> h \in n.active
    BY <1>1 DEF AddSubscriber, NifRecords, Members
  <2> QED BY <1>1, <2>1 DEF Spares, Subscribe, React, Ignore, NifRecords, Members, Fits
<1>2. ASSUME g # h PROVE Spares(n, Unsubscribe(n, g), h)
  <2>1. /\ Deactivate(n, g) \in NifRecords /\ Deactivate(n, g).state = n.state
        /\ h \in Deactivate(n, g).inactive <=> h \in n.inactive
        /\ h \in Deactivate(n, g).active <=> h \in n.active
    BY <1>2 DEF Deactivate, NifRecords
  <2> QED BY <1>2, <2>1 DEF Spares, Unsubscribe, React, Ignore, NifRecords, Members, Fits
<1>3. Spares(n, Granted(n), h)
  BY DEF Spares, Granted, React, Ignore, NifRecords, Members, Fits
<1>4. ASSUME n.state = "releasing" PROVE Spares(n, Closing(n), h)
  BY <1>4 DEF Spares, Closing, React, NifRecords, Members, Fits, Fresh
<1>5. Spares(n, Ignore(n), h)
  BY DEF Spares, React, Ignore, NifRecords, Members, Fits
<1>6. \A what \in {"closed", "refused"} : Spares(n, React(Fresh, <<>>, Members(n), what), h)
  BY DEF Spares, React, NifRecords, Members, Fits, Fresh
<1> QED BY <1>1, <1>2, <1>3, <1>4, <1>5, <1>6 DEF Released, Denied

(* The subscriber's own events *)
LEMMA OwnEvents ==
    ASSUME NEW n \in NifRecords, Fits(n), NEW h \in Handles
    PROVE  /\ h \notin Members(n) =>
                  /\ h \in Subscribe(n, h).nif.active /\ h \notin Subscribe(n, h).nif.inactive
                  /\ Subscribe(n, h).nif.state = "acquired" <=> n.state = "acquired"
                  /\ Subscribe(n, h).to = IF n.state = "acquired" THEN {h} ELSE {}
                  /\ Subscribe(n, h).what = "opened"
           /\ h \in Members(n) =>
                  /\ h \in Unsubscribe(n, h).nif.inactive /\ h \notin Unsubscribe(n, h).nif.active
                  /\ Unsubscribe(n, h).to = {}
<1>1. ASSUME h \notin Members(n)
      PROVE  /\ h \in Subscribe(n, h).nif.active /\ h \notin Subscribe(n, h).nif.inactive
             /\ Subscribe(n, h).nif.state = "acquired" <=> n.state = "acquired"
             /\ Subscribe(n, h).to = IF n.state = "acquired" THEN {h} ELSE {}
             /\ Subscribe(n, h).what = "opened"
  <2>1. /\ AddSubscriber(n, h) \in NifRecords /\ AddSubscriber(n, h).state = n.state
        /\ h \in AddSubscriber(n, h).active /\ h \notin AddSubscriber(n, h).inactive
    BY <1>1 DEF AddSubscriber, NifRecords, Members
  <2> QED BY <2>1 DEF Subscribe, React, Ignore, NifRecords
<1>2. ASSUME h \in Members(n)
      PROVE  /\ h \in Unsubscribe(n, h).nif.inactive /\ h \notin Unsubscribe(n, h).nif.active
             /\ Unsubscribe(n, h).to = {}
  <2>1. /\ Deactivate(n, h) \in NifRecords /\ Deactivate(n, h).state = n.state
        /\ h \in Deactivate(n, h).inactive /\ h \notin Deactivate(n, h).active
    BY DEF Deactivate, NifRecords
  <2>2. n.state # "released"
    BY <1>2 DEF Fits
  <2> QED BY <2>1, <2>2 DEF Unsubscribe, React, Ignore, NifRecords
<1> QED BY <1>1, <1>2

LEMMA FollowsAppended ==
    ASSUME NEW S, NEW q \in Seq(S), NEW m \in S, NEW E, NEW F
    PROVE  Follows(Append(q, m), E, F) <=> Follows(q, E, F) \/ (m \in F /\ Some(q, E))
<1>1. ASSUME NEW i \in 1 .. Len(q) + 1, NEW j \in 1 .. Len(q) + 1,
             i < j, Append(q, m)[i] \in E, Append(q, m)[j] \in F
      PROVE  Follows(q, E, F) \/ (m \in F /\ Some(q, E))
  <2>1. Len(q) \in Nat /\ i \in 1 .. Len(q)
    BY <1>1
  <2>2. CASE j \in 1 .. Len(q)
    BY <1>1, <2>1, <2>2, Appended DEF Follows
  <2>3. CASE j = Len(q) + 1
    BY <1>1, <2>1, <2>3, Appended DEF Some
  <2> QED BY <2>1, <2>2, <2>3
<1>2. ASSUME Follows(q, E, F) PROVE Follows(Append(q, m), E, F)
  <2>1. PICK i \in 1 .. Len(q), j \in 1 .. Len(q) : i < j /\ q[i] \in E /\ q[j] \in F
    BY <1>2, Appended DEF Follows
  <2>2. /\ i \in DOMAIN Append(q, m) /\ j \in DOMAIN Append(q, m)
        /\ Append(q, m)[i] = q[i] /\ Append(q, m)[j] = q[j]
    BY Appended
  <2> QED BY <2>1, <2>2 DEF Follows
<1>3. ASSUME m \in F, Some(q, E) PROVE Follows(Append(q, m), E, F)
  <2>1. PICK i \in 1 .. Len(q) : q[i] \in E
    BY <1>3, Appended DEF Some
  <2>2. /\ i \in DOMAIN Append(q, m) /\ Len(q) + 1 \in DOMAIN Append(q, m) /\ i < Len(q) + 1
        /\ Append(q, m)[i] = q[i] /\ Append(q, m)[Len(q) + 1] = m
    BY Appended
  <2> QED BY <1>3, <2>1, <2>2 DEF Follows
<1> QED BY <1>1, <1>2, <1>3, Appended DEF Follows

LEMMA FollowsTakenOff ==
    ASSUME NEW S, NEW q \in Seq(S), q # <<>>, NEW E, NEW F
    PROVE  Follows(q, E, F) <=> Follows(Tail(q), E, F) \/ (Head(q) \in E /\ Some(Tail(q), F))
<1>1. \A i \in DOMAIN Tail(q) : i + 1 \in DOMAIN q /\ Tail(q)[i] = q[i + 1] /\ i \in Nat \ {0}
  BY TakenOff
<1>2. \A i \in DOMAIN q : i # 1 => i - 1 \in DOMAIN Tail(q) /\ Tail(q)[i - 1] = q[i] /\ i \in Nat \ {0}
  BY TakenOff
<1>3. 1 \in DOMAIN q /\ Head(q) = q[1]
  BY TakenOff
<1>4. ASSUME NEW i \in DOMAIN q, NEW j \in DOMAIN q, i < j, q[i] \in E, q[j] \in F
      PROVE  Follows(Tail(q), E, F) \/ (Head(q) \in E /\ Some(Tail(q), F))
  <2>1. i \in Nat \ {0} /\ j \in Nat \ {0} /\ j # 1
    BY <1>4, TakenOff
  <2>2. j - 1 \in DOMAIN Tail(q) /\ Tail(q)[j - 1] \in F
    BY <1>2, <1>4, <2>1
  <2>3. CASE i = 1
    BY <1>3, <1>4, <2>2, <2>3 DEF Some
  <2>4. CASE i # 1
    <3>1. i - 1 \in DOMAIN Tail(q) /\ Tail(q)[i - 1] \in E /\ i - 1 < j - 1
      BY <1>2, <1>4, <2>1, <2>4
    <3> QED BY <2>2, <3>1 DEF Follows
  <2> QED BY <2>3, <2>4
<1>5. ASSUME Follows(Tail(q), E, F) PROVE Follows(q, E, F)
  <2>1. PICK i \in DOMAIN Tail(q), j \in DOMAIN Tail(q) :
            i < j /\ Tail(q)[i] \in E /\ Tail(q)[j] \in F
    BY <1>5 DEF Follows
  <2>2. i + 1 \in DOMAIN q /\ j + 1 \in DOMAIN q /\ i + 1 < j + 1 /\ q[i + 1] \in E /\ q[j + 1] \in F
    BY <1>1, <2>1
  <2> QED BY <2>2 DEF Follows
<1>6. ASSUME Head(q) \in E, Some(Tail(q), F) PROVE Follows(q, E, F)
  <2>1. PICK j \in DOMAIN Tail(q) : Tail(q)[j] \in F
    BY <1>6 DEF Some
  <2>2. j + 1 \in DOMAIN q /\ 1 < j + 1 /\ q[j + 1] \in F
    BY <1>1, <2>1
  <2> QED BY <1>3, <1>6, <2>2 DEF Follows
<1> QED BY <1>4, <1>5, <1>6 DEF Follows

LEMMA HandleQueues ==
    ASSUME NEW h
    PROVE  /\ Asks(h)' <=> Some(adapterQ', RequestsOf(h))
           /\ AsksOnce(h)' <=> One(adapterQ', RequestsOf(h))
           /\ GivesBack(h)' <=> Some(adapterQ', ReleasesOf(h))
           /\ GivesBackLast(h)' <=> Follows(adapterQ', RequestsOf(h), ReleasesOf(h))
BY DEF Asks, AsksOnce, GivesBack, GivesBackLast

(* A message that is not about h, posted or taken off, changes nothing for  *)
(* h; one about h does what it says                                         *)
SameQueue(h) ==
    /\ Asks(h)' <=> Asks(h)
    /\ AsksOnce(h) => AsksOnce(h)'
    /\ GivesBack(h)' <=> GivesBack(h)
    /\ Asks(h) => (GivesBackLast(h)' <=> GivesBackLast(h))

LEMMA PostedFor ==
    ASSUME adapterQ \in Seq(Messages), NEW m \in Messages, adapterQ' = Append(adapterQ, m), NEW h
    PROVE  /\ Asks(h)' <=> Asks(h) \/ m \in RequestsOf(h)
           /\ AsksOnce(h) /\ (m \in RequestsOf(h) => ~Asks(h)) => AsksOnce(h)'
           /\ GivesBack(h)' <=> GivesBack(h) \/ m \in ReleasesOf(h)
           /\ GivesBackLast(h)' <=> GivesBackLast(h) \/ (m \in ReleasesOf(h) /\ Asks(h))
<1>1. \A E : /\ Some(Append(adapterQ, m), E) <=> Some(adapterQ, E) \/ m \in E
             /\ One(adapterQ, E) /\ (m \in E => ~Some(adapterQ, E)) => One(Append(adapterQ, m), E)
  BY SomeAppended
<1>2. Follows(Append(adapterQ, m), RequestsOf(h), ReleasesOf(h)) <=>
          \/ Follows(adapterQ, RequestsOf(h), ReleasesOf(h))
          \/ (m \in ReleasesOf(h) /\ Some(adapterQ, RequestsOf(h)))
  BY FollowsAppended
<1> QED BY <1>1, <1>2, HandleQueues DEF Asks, AsksOnce, GivesBack, GivesBackLast

(* The queue of the next state is rest, as far as h is concerned *)
Leaves(rest, h) ==
    /\ Asks(h)' <=> Some(rest, RequestsOf(h))
    /\ One(rest, RequestsOf(h)) => AsksOnce(h)'
    /\ GivesBack(h)' <=> Some(rest, ReleasesOf(h))
    /\ GivesBackLast(h)' <=> Follows(rest, RequestsOf(h), ReleasesOf(h))

LEMMA PerformLeaves ==
    ASSUME TypeOK, NEW nif \in Nifs, NEW r \in Reactions, NEW rest \in Seq(Messages),
           Perform(nif, r, rest), NEW h
    PROVE  Leaves(rest, h)
<1>1. CASE adapterQ' = rest
  BY <1>1, HandleQueues DEF Leaves
<1>2. ASSUME NEW type \in {"opened", "failed", "closed"},
             adapterQ' = Append(rest, [type |-> type, nif |-> "internet"])
      PROVE  Leaves(rest, h)
  <2> DEFINE m == [type |-> type, nif |-> "internet"]
  <2>1. m \in Messages /\ m \notin RequestsOf(h) /\ m \notin ReleasesOf(h)
    BY DEF Messages, Nifs, RequestsOf, ReleasesOf
  <2> HIDE DEF m
  <2>2. adapterQ' = Append(rest, m)
    BY <1>2 DEF m
  <2>3. \A E : /\ Some(Append(rest, m), E) <=> Some(rest, E) \/ m \in E
               /\ One(rest, E) /\ (m \in E => ~Some(rest, E)) => One(Append(rest, m), E)
    BY <2>1, SomeAppended
  <2>4. Follows(Append(rest, m), RequestsOf(h), ReleasesOf(h)) <=>
            \/ Follows(rest, RequestsOf(h), ReleasesOf(h))
            \/ m \in ReleasesOf(h) /\ Some(rest, RequestsOf(h))
    BY <2>1, FollowsAppended
  <2> QED BY <2>1, <2>2, <2>3, <2>4, HandleQueues DEF Leaves
<1> QED BY <1>1, <1>2, PerformQueues

LEMMA TakenOffFor ==
    ASSUME adapterQ \in Seq(Messages), adapterQ # <<>>, NEW h, Leaves(Tail(adapterQ), h)
    PROVE  /\ Asks(h) <=> Asks(h)' \/ Head(adapterQ) \in RequestsOf(h)
           /\ AsksOnce(h) => AsksOnce(h)' /\ (Head(adapterQ) \in RequestsOf(h) => ~Asks(h)')
           /\ GivesBack(h) <=> GivesBack(h)' \/ Head(adapterQ) \in ReleasesOf(h)
           /\ GivesBackLast(h) <=> \/ GivesBackLast(h)'
                                   \/ Head(adapterQ) \in RequestsOf(h) /\ GivesBack(h)'
           /\ GivesBackLast(h)' => Asks(h)'
<1>1. \A E : /\ Some(adapterQ, E) <=> Some(Tail(adapterQ), E) \/ Head(adapterQ) \in E
             /\ One(adapterQ, E) => /\ One(Tail(adapterQ), E)
                                    /\ Head(adapterQ) \in E => ~Some(Tail(adapterQ), E)
  BY SomeTakenOff
<1>2. Follows(adapterQ, RequestsOf(h), ReleasesOf(h)) <=>
          \/ Follows(Tail(adapterQ), RequestsOf(h), ReleasesOf(h))
          \/ Head(adapterQ) \in RequestsOf(h) /\ Some(Tail(adapterQ), ReleasesOf(h))
  BY FollowsTakenOff
<1>3. \A q, E, F : Follows(q, E, F) => Some(q, E)
  BY DEF Follows, Some
<1> QED BY <1>1, <1>2, <1>3 DEF Leaves, Asks, AsksOnce, GivesBack, GivesBackLast

(* Where a subscriber that an event spares is afterwards *)
LEMMA MembersAfter ==
    ASSUME nifs \in [Nifs -> NifRecords], NEW nif \in Nifs, NEW n \in NifRecords, NEW h,
           nifs' = [nifs EXCEPT ![nif] = n], OneMachine(h),
           h \in Members(n) => h \in Members(nifs[nif])
    PROVE  /\ OneMachine(h)'
           /\ Known(h)' => Known(h)
           /\ h \in Members(nifs[nif]) /\ h \notin Members(n) => ~Known(h)'
           /\ h \in n.active => (IF n.state = "acquired" THEN ActiveHolding(h)' ELSE ActiveWaiting(h)')
           /\ h \in n.inactive => InactiveIn(h)'
           /\ h \notin Members(nifs[nif]) =>
                  /\ ActiveHolding(h) => ActiveHolding(h)'
                  /\ ActiveWaiting(h) => ActiveWaiting(h)'
                  /\ InactiveIn(h) => InactiveIn(h)'
<1>1. nifs'[nif] = n /\ \A other \in Nifs \ {nif} : nifs'[other] = nifs[other]
  OBVIOUS
<1>2. \A other \in Nifs : h \in Members(nifs'[other]) => h \in Members(nifs[other])
  BY <1>1
<1>3. OneMachine(h)' /\ (Known(h)' => Known(h))
  BY <1>2 DEF OneMachine, Known
<1>4. ASSUME h \in Members(nifs[nif]), h \notin Members(n) PROVE ~Known(h)'
  BY <1>1, <1>2, <1>4 DEF OneMachine, Known
<1>5. /\ h \in n.active => (IF n.state = "acquired" THEN ActiveHolding(h)' ELSE ActiveWaiting(h)')
      /\ h \in n.inactive => InactiveIn(h)'
  BY <1>1 DEF ActiveHolding, ActiveWaiting, InactiveIn
<1>6. ASSUME h \notin Members(nifs[nif])
      PROVE  /\ ActiveHolding(h) => ActiveHolding(h)'
             /\ ActiveWaiting(h) => ActiveWaiting(h)'
             /\ InactiveIn(h) => InactiveIn(h)'
  BY <1>1, <1>6 DEF ActiveHolding, ActiveWaiting, InactiveIn, Members
<1> QED BY <1>3, <1>4, <1>5, <1>6

(* What a machine knows of its own members *)
LEMMA MemberOf ==
    ASSUME nifs \in [Nifs -> NifRecords], SubscribersFit, NEW nif \in Nifs, NEW h, OneMachine(h),
           h \in Members(nifs[nif])
    PROVE  /\ Known(h)
           /\ ActiveHolding(h) <=> h \in nifs[nif].active /\ nifs[nif].state = "acquired"
           /\ ActiveWaiting(h) <=> h \in nifs[nif].active /\ nifs[nif].state # "acquired"
           /\ InactiveIn(h) <=> h \in nifs[nif].inactive
           /\ h \in nifs[nif].active <=> h \notin nifs[nif].inactive
<1>1. Known(h)
  BY DEF Known
<1>2. \A other \in Nifs : h \in Members(nifs[other]) <=> other = nif
  BY DEF OneMachine
<1>3. /\ ActiveHolding(h) <=> h \in nifs[nif].active /\ nifs[nif].state = "acquired"
      /\ ActiveWaiting(h) <=> h \in nifs[nif].active /\ nifs[nif].state # "acquired"
      /\ InactiveIn(h) <=> h \in nifs[nif].inactive
  BY <1>2 DEF ActiveHolding, ActiveWaiting, InactiveIn, Members
<1>4. h \in nifs[nif].active <=> h \notin nifs[nif].inactive
  BY DEF Members, SubscribersFit, Fits
<1> QED BY <1>1, <1>3, <1>4

(* A reaction that spares h keeps what is said of h *)
LEMMA SpareKeepsHandle ==
    ASSUME TypeOK, SubscribersFit, NEW h \in Handles, HandleFits(h), OneMachine(h),
           NEW nif \in Nifs, NEW r \in Reactions,
           nifs' = [nifs EXCEPT ![nif] = r.nif], Tell(r.to, r.what),
           Spares(nifs[nif], r, h), SameQueue(h)
    PROVE  HandleFits(h)' /\ OneMachine(h)'
<1> DEFINE n == nifs[nif]
<1>1. /\ nifs \in [Nifs -> NifRecords] /\ r.nif \in NifRecords
      /\ modem \in [Handles -> Phases]
  BY DEF TypeOK, NifRecords, Reactions
<1>2. h \in Members(r.nif) => h \in Members(n)
  BY DEF Spares
<1>3. modem'[h] = IF h \in r.to THEN Hears(modem[h], r.what) ELSE modem[h]
  BY DEF Tell
<1>4. OneMachine(h)'
  BY <1>1, <1>2, MembersAfter
<1>5. CASE h \notin Members(n)
  <2>1. modem'[h] = modem[h]
    BY <1>3, <1>5 DEF Spares
  <2>2. /\ Known(h)' => Known(h)
        /\ ActiveHolding(h) => ActiveHolding(h)'
        /\ ActiveWaiting(h) => ActiveWaiting(h)'
        /\ InactiveIn(h) => InactiveIn(h)'
    BY <1>1, <1>2, <1>5, MembersAfter
  <2> QED BY <1>4, <2>1, <2>2 DEF HandleFits, SameQueue
<1>6. CASE h \in Members(n) /\ h \in r.to /\ r.what # "opened"
  <2>1. modem'[h] = "idle"
    BY <1>3, <1>6 DEF Hears
  <2>2. h \notin Members(r.nif)
    BY <1>6 DEF Spares
  <2>3. ~Known(h)' /\ ~Asks(h)
    BY <1>1, <1>2, <1>6, <2>2, MembersAfter, MemberOf DEF HandleFits
  <2> QED BY <1>4, <2>1, <2>3 DEF HandleFits, SameQueue
<1>7. CASE h \in Members(n) /\ ~(h \in r.to /\ r.what # "opened")
  <2>1. /\ Known(h) /\ ~Asks(h)
        /\ ActiveHolding(h) <=> h \in n.active /\ n.state = "acquired"
        /\ ActiveWaiting(h) <=> h \in n.active /\ n.state # "acquired"
        /\ InactiveIn(h) <=> h \in n.inactive
        /\ h \in n.active <=> h \notin n.inactive
    BY <1>1, <1>7, MemberOf DEF HandleFits
  <2>2. /\ h \in r.nif.active =>
               (IF r.nif.state = "acquired" THEN ActiveHolding(h)' ELSE ActiveWaiting(h)')
        /\ h \in r.nif.inactive => InactiveIn(h)'
    BY <1>1, <1>2, MembersAfter
  <2>3. CASE h \in n.inactive
    <3>1. h \in r.nif.inactive /\ modem'[h] = modem[h]
      BY <1>3, <1>7, <2>3 DEF Spares
    <3>2. modem[h] = "closing"
      BY <1>1, <2>1, <2>3 DEF HandleFits, Phases
    <3> QED BY <1>4, <2>1, <2>2, <3>1, <3>2 DEF HandleFits, SameQueue
  <2>4. CASE h \in n.active /\ h \notin r.to
    <3>1. /\ modem'[h] = modem[h] /\ h \in r.nif.active
          /\ r.nif.state = "acquired" <=> n.state = "acquired"
      BY <1>3, <2>4 DEF Spares
    <3> QED BY <1>4, <2>1, <2>2, <2>4, <3>1 DEF HandleFits, SameQueue
  <2>5. CASE h \in n.active /\ h \in r.to
    <3>1. /\ modem'[h] = IF modem[h] = "opening" THEN "open" ELSE modem[h]
          /\ h \in r.nif.active /\ r.nif.state = "acquired"
      BY <1>3, <1>7, <2>5 DEF Spares, Hears
    <3>2. ActiveHolding(h)' /\ modem[h] # "idle"
      BY <2>1, <2>2, <3>1 DEF HandleFits
    <3>3. ~Asks(h)' /\ AsksOnce(h)' /\ (GivesBack(h)' <=> GivesBack(h))
      BY <2>1 DEF HandleFits, SameQueue
    <3>4. modem[h] \in {"opening", "open"} => ~GivesBack(h)
      BY <2>1 DEF HandleFits
    <3>5. modem[h] = "closing" => GivesBack(h)
      BY <2>1, <2>5 DEF HandleFits
    <3>6. modem'[h] = "open" => modem[h] \in {"opening", "open"}
      BY <3>1
    <3>7. modem'[h] = "closing" => modem[h] = "closing"
      BY <3>1
    <3>8. modem'[h] \notin {"idle", "opening"}
      BY <3>1, <3>2
    <3> QED BY <1>4, <3>2, <3>3, <3>4, <3>5, <3>6, <3>7, <3>8 DEF HandleFits
  <2> QED BY <1>7, <2>3, <2>4, <2>5 DEF Members
<1> QED BY <1>5, <1>6, <1>7

LEMMA HandleMessages ==
    ASSUME NEW m \in Messages, NEW h \in Handles
    PROVE  /\ m \in RequestsOf(h) <=> m.type = "request" /\ m.handle = h
           /\ m \in ReleasesOf(h) <=> m.type = "release" /\ m.handle = h
BY DEF Messages, RequestsOf, ReleasesOf

(* A step that changes nothing for h *)
LEMMA QuietKeepsHandle ==
    ASSUME NEW h, HandleFits(h), OneMachine(h), SameQueue(h),
           UNCHANGED nifs, modem'[h] = modem[h]
    PROVE  HandleFits(h)' /\ OneMachine(h)'
<1>1. /\ Known(h)' <=> Known(h)
      /\ ActiveHolding(h)' <=> ActiveHolding(h)
      /\ ActiveWaiting(h)' <=> ActiveWaiting(h)
      /\ InactiveIn(h)' <=> InactiveIn(h)
      /\ OneMachine(h)'
  BY DEF Known, ActiveHolding, ActiveWaiting, InactiveIn, OneMachine
<1> QED BY <1>1 DEF HandleFits, SameQueue

LEMMA AdapterKeepsHandle ==
    ASSUME Inv, NEW h \in Handles, HandleFits(h), OneMachine(h), Adapter
    PROVE  HandleFits(h)' /\ OneMachine(h)'
<1> DEFINE m == Head(adapterQ)
<1>1. /\ TypeOK /\ SubscribersFit
      /\ nifs \in [Nifs -> NifRecords] /\ modem \in [Handles -> Phases]
      /\ adapterQ \in Seq(Messages)
  BY DEF Inv, TypeOK, NifRecords
<1>2. adapterQ # <<>> /\ m \in Messages /\ Tail(adapterQ) \in Seq(Messages)
  BY <1>1, NextMessage DEF Adapter, HandleInit, HandleRequest, HandleRelease, HandleOpened,
                          HandleGranted, HandleFailed, HandleClosed, NextIs
<1>3. /\ m \in RequestsOf(h) <=> m.type = "request" /\ m.handle = h
      /\ m \in ReleasesOf(h) <=> m.type = "release" /\ m.handle = h
  BY <1>2, HandleMessages
<1>4. ASSUME adapterQ' = Tail(adapterQ) PROVE Leaves(Tail(adapterQ), h)
  BY <1>4, HandleQueues DEF Leaves
<1>5. ASSUME NEW nif \in Nifs, NEW r \in Reactions, Perform(nif, r, Tail(adapterQ))
      PROVE  /\ Leaves(Tail(adapterQ), h) /\ nifs' = [nifs EXCEPT ![nif] = r.nif]
             /\ Tell(r.to, r.what)
  BY <1>1, <1>2, <1>5, PerformLeaves, PerformQueues DEF Perform
<1>6. ASSUME Leaves(Tail(adapterQ), h), m \notin RequestsOf(h), m \notin ReleasesOf(h)
      PROVE  SameQueue(h)
  BY <1>1, <1>2, <1>6, TakenOffFor DEF SameQueue
<1>7. ASSUME NEW nif \in Nifs, NEW r \in Reactions, Perform(nif, r, Tail(adapterQ)),
             m \notin RequestsOf(h), m \notin ReleasesOf(h), Spares(nifs[nif], r, h)
      PROVE  HandleFits(h)' /\ OneMachine(h)'
  BY <1>1, <1>5, <1>6, <1>7, SpareKeepsHandle
<1>8. CASE HandleInit \/ (HandleOpened /\ wds)
  <2>1. adapterQ' = Tail(adapterQ) /\ UNCHANGED <<nifs, modem>>
    BY <1>8 DEF HandleInit, HandleOpened
  <2>2. m \notin RequestsOf(h) /\ m \notin ReleasesOf(h)
    BY <1>3, <1>8 DEF HandleInit, HandleOpened, NextIs
  <2> QED BY <1>4, <1>6, <2>1, <2>2, QuietKeepsHandle
<1>9. CASE (HandleOpened /\ ~wds) \/ HandleGranted \/ HandleFailed \/ HandleClosed
  <2>1. m.nif \in Nifs /\ m \notin RequestsOf(h) /\ m \notin ReleasesOf(h)
    BY <1>2, <1>3, <1>9, MessageFields
    DEF HandleOpened, HandleGranted, HandleFailed, HandleClosed, NextIs
  <2> DEFINE n == nifs[m.nif]
  <2>2. n \in NifRecords /\ Fits(n)
    BY <1>1, <2>1 DEF SubscribersFit
  <2>3. \A r \in {Granted(n), Released(n), Denied(n)} : r \in Reactions /\ Spares(n, r, h)
    BY <2>2, AnswersKeep, EventsSpare
  <2>4. \E r \in {Granted(n), Released(n), Denied(n)} : Perform(m.nif, r, Tail(adapterQ))
    BY <1>9 DEF HandleOpened, HandleGranted, HandleFailed, HandleClosed
  <2> QED BY <1>7, <2>1, <2>3, <2>4
<1>10. CASE HandleRequest /\ m.handle # h
  <2>1. m.nif \in Nifs /\ m.handle \in Handles /\ m \notin RequestsOf(h) /\ m \notin ReleasesOf(h)
    BY <1>2, <1>3, <1>10, MessageFields DEF HandleRequest, NextIs
  <2> DEFINE n == nifs[m.nif]
             r == Subscribe(n, m.handle)
  <2>2. CASE m.nif \in created
    <3>1. n \in NifRecords /\ Fits(n)
      BY <1>1, <2>1 DEF SubscribersFit
    <3>2. r \in Reactions /\ Spares(n, r, h)
      BY <1>10, <2>1, <3>1, SubscribeKeeps, EventsSpare
    <3>3. Perform(m.nif, r, Tail(adapterQ))
      BY <1>10, <2>2 DEF HandleRequest
    <3> HIDE DEF r
    <3> QED BY <1>7, <2>1, <3>2, <3>3
  <2>3. CASE m.nif \notin created
    <3>1. adapterQ' = Tail(adapterQ) /\ UNCHANGED nifs /\ modem'[h] = modem[h]
      BY <1>10, <2>3 DEF HandleRequest, Tell
    <3> QED BY <1>4, <1>6, <2>1, <3>1, QuietKeepsHandle
  <2> QED BY <2>2, <2>3
<1>11. CASE HandleRequest /\ m.handle = h
  <2>1. /\ m.nif \in Nifs /\ m \in RequestsOf(h) /\ m \notin ReleasesOf(h)
    BY <1>2, <1>3, <1>11, MessageFields DEF HandleRequest, NextIs
  <2>2. Leaves(Tail(adapterQ), h) =>
            /\ Asks(h) /\ ~Known(h) /\ ~Asks(h)' /\ AsksOnce(h)'
            /\ GivesBackLast(h) <=> GivesBack(h)'
    BY <1>1, <1>2, <2>1, TakenOffFor DEF HandleFits
  <2>3. Asks(h) => modem[h] \in {"opening", "closing"}
    BY <1>1 DEF HandleFits, Phases
  <2> DEFINE n == nifs[m.nif]
             r == Subscribe(n, h)
  <2>4. CASE m.nif \in created
    <3>1. n \in NifRecords /\ Fits(n)
      BY <1>1, <2>1 DEF SubscribersFit
    <3>2. r \in Reactions
      BY <3>1, SubscribeKeeps
    <3>3. Perform(m.nif, r, Tail(adapterQ))
      BY <1>11, <2>4 DEF HandleRequest
    <3>4. /\ Leaves(Tail(adapterQ), h) /\ nifs' = [nifs EXCEPT ![m.nif] = r.nif]
          /\ Tell(r.to, r.what)
      BY <1>5, <2>1, <3>2, <3>3
    <3>5. h \notin Members(n)
      BY <2>1, <2>2, <3>4 DEF Known
    <3>6. /\ h \in r.nif.active /\ r.what = "opened"
          /\ r.nif.state = "acquired" <=> n.state = "acquired"
          /\ r.to = IF n.state = "acquired" THEN {h} ELSE {}
      BY <3>1, <3>5, OwnEvents
    <3>7. modem'[h] = IF n.state = "acquired" /\ modem[h] = "opening" THEN "open" ELSE modem[h]
      BY <3>4, <3>6 DEF Tell, Hears
    <3>8. r.nif \in NifRecords
      BY <3>2 DEF Reactions
    <3> HIDE DEF r
    <3>9. nifs'[m.nif] = r.nif /\ \A other \in Nifs \ {m.nif} : nifs'[other] = nifs[other]
      BY <1>1, <2>1, <3>4
    <3>10. OneMachine(h)'
      BY <2>2, <3>4, <3>9 DEF OneMachine, Known
    <3>11. IF n.state = "acquired" THEN ActiveHolding(h)' ELSE ActiveWaiting(h)'
      BY <2>1, <3>6, <3>9 DEF ActiveHolding, ActiveWaiting
    <3> QED BY <2>2, <2>3, <3>4, <3>7, <3>10, <3>11 DEF HandleFits
  <2>5. CASE m.nif \notin created
    <3>1. adapterQ' = Tail(adapterQ) /\ UNCHANGED nifs /\ modem'[h] = "idle"
      BY <1>11, <2>5 DEF HandleRequest, Tell, Hears
    <3>2. OneMachine(h)' /\ (Known(h)' <=> Known(h))
      BY <3>1 DEF OneMachine, Known
    <3> QED BY <1>4, <2>2, <3>1, <3>2 DEF HandleFits
  <2> QED BY <2>4, <2>5
<1>12. CASE HandleRelease /\ m.handle # h
  <2> DEFINE g == m.handle
             n == nifs[Holder(g)]
             r == Unsubscribe(n, g)
  <2>1. g \in Handles /\ Holder(g) \in Nifs /\ m \notin RequestsOf(h) /\ m \notin ReleasesOf(h)
    BY <1>2, <1>3, <1>12, MessageFields, HolderIsNif DEF HandleRelease, NextIs
  <2>2. CASE g \in Members(n)
    <3>1. n \in NifRecords /\ Fits(n)
      BY <1>1, <2>1 DEF SubscribersFit
    <3>2. r \in Reactions /\ Spares(n, r, h)
      BY <1>12, <2>1, <2>2, <3>1, UnsubscribeKeeps, EventsSpare
    <3>3. Perform(Holder(g), r, Tail(adapterQ))
      BY <1>12, <2>2 DEF HandleRelease
    <3> HIDE DEF r
    <3> QED BY <1>7, <2>1, <3>2, <3>3
  <2>3. CASE g \notin Members(n)
    <3>1. adapterQ' = Tail(adapterQ) /\ UNCHANGED <<nifs, modem>>
      BY <1>12, <2>3 DEF HandleRelease
    <3> QED BY <1>4, <1>6, <2>1, <3>1, QuietKeepsHandle
  <2> QED BY <2>2, <2>3
<1>13. CASE HandleRelease /\ m.handle = h
  <2> DEFINE n == nifs[Holder(h)]
             r == Unsubscribe(n, h)
  <2>1. Holder(h) \in Nifs /\ m \in ReleasesOf(h) /\ m \notin RequestsOf(h)
    BY <1>3, <1>13, HolderIsNif DEF HandleRelease, NextIs
  <2>2. Leaves(Tail(adapterQ), h) =>
            /\ GivesBack(h) /\ (Asks(h)' <=> Asks(h)) /\ AsksOnce(h)'
            /\ GivesBackLast(h)' <=> GivesBackLast(h)
    BY <1>1, <1>2, <2>1, TakenOffFor DEF HandleFits
  <2>3. CASE h \in Members(n)
    <3>1. n \in NifRecords /\ Fits(n)
      BY <1>1, <2>1 DEF SubscribersFit
    <3>2. r \in Reactions
      BY <2>3, <3>1, UnsubscribeKeeps
    <3>3. Perform(Holder(h), r, Tail(adapterQ))
      BY <1>13, <2>3 DEF HandleRelease
    <3>4. /\ Leaves(Tail(adapterQ), h) /\ nifs' = [nifs EXCEPT ![Holder(h)] = r.nif]
          /\ Tell(r.to, r.what)
      BY <1>5, <2>1, <3>2, <3>3
    <3>5. h \in r.nif.inactive /\ r.to = {}
      BY <2>3, <3>1, OwnEvents
    <3>6. modem'[h] = modem[h]
      BY <3>4, <3>5 DEF Tell
    <3>7. r.nif \in NifRecords
      BY <3>2 DEF Reactions
    <3> HIDE DEF r
    <3>8. OneMachine(h)' /\ InactiveIn(h)'
      BY <1>1, <2>1, <2>3, <3>4, <3>5, <3>7, MembersAfter
    <3>9. Known(h) /\ ~Asks(h)
      BY <1>1, <2>1, <2>3, MemberOf DEF HandleFits
    <3>10. modem[h] = "closing"
      BY <1>1, <2>2, <3>4, <3>9 DEF HandleFits, Phases
    <3> QED BY <2>2, <3>4, <3>6, <3>8, <3>9, <3>10 DEF HandleFits
  <2>4. CASE h \notin Members(n)
    <3>1. adapterQ' = Tail(adapterQ) /\ UNCHANGED <<nifs, modem>>
      BY <1>13, <2>4 DEF HandleRelease
    <3>2. ~Known(h)
      BY <2>4 DEF Holder, Known, Nifs
    <3>3. ~ActiveHolding(h) /\ ~ActiveWaiting(h) /\ ~InactiveIn(h)
      BY <3>2 DEF Known, ActiveHolding, ActiveWaiting, InactiveIn, Members
    <3>4. modem[h] \in {"opening", "closing"} => Asks(h)
      BY <3>3 DEF HandleFits
    <3>5. modem[h] # "open"
      BY <3>3 DEF HandleFits
    <3>6. OneMachine(h)' /\ ~Known(h)'
      BY <3>1, <3>2 DEF OneMachine, Known
    <3> QED BY <1>4, <2>2, <3>1, <3>4, <3>5, <3>6 DEF HandleFits
  <2> QED BY <2>3, <2>4
<1> QED BY <1>8, <1>9, <1>10, <1>11, <1>12, <1>13 DEF Adapter

LEMMA ModemKeepsHandle ==
    ASSUME Inv, NEW h \in Handles, HandleFits(h), OneMachine(h),
           \/ \E g \in Handles, nif \in Nifs : RequestATL(g, nif)
           \/ \E g \in Handles : ReleaseATL(g)
    PROVE  HandleFits(h)' /\ OneMachine(h)'
<1>1. adapterQ \in Seq(Messages) /\ modem \in [Handles -> Phases]
  BY DEF Inv, TypeOK
<1>2. /\ UNCHANGED nifs /\ OneMachine(h)'
      /\ Known(h)' <=> Known(h)
      /\ ActiveHolding(h)' <=> ActiveHolding(h)
      /\ ActiveWaiting(h)' <=> ActiveWaiting(h)
      /\ InactiveIn(h)' <=> InactiveIn(h)
  BY DEF RequestATL, ReleaseATL, OneMachine, Known, ActiveHolding, ActiveWaiting, InactiveIn
<1>3. ASSUME NEW m \in Messages, Post(m), m.handle # h, modem'[h] = modem[h],
             m.type \in {"request", "release"}
      PROVE  HandleFits(h)'
  <2>1. m \notin RequestsOf(h) /\ m \notin ReleasesOf(h)
    BY <1>3, HandleMessages
  <2>2. SameQueue(h)
    BY <1>1, <1>3, <2>1, PostedFor DEF Post, SameQueue
  <2> QED BY <1>2, <1>3, <2>2, QuietKeepsHandle
<1>4. ASSUME NEW g \in Handles, NEW nif \in Nifs, RequestATL(g, nif) PROVE HandleFits(h)'
  <2> DEFINE m == [type |-> "request", nif |-> nif, handle |-> g]
  <2>1. m \in Messages /\ m.handle = g /\ m.type = "request" /\ Post(m)
    BY <1>4 DEF Messages, RequestATL
  <2>2. /\ modem[g] = "idle" /\ modem' = [modem EXCEPT ![g] = "opening"]
    BY <1>4 DEF RequestATL
  <2> HIDE DEF m
  <2>3. CASE g = h
    <3>1. m \in RequestsOf(h) /\ m \notin ReleasesOf(h)
      BY <2>1, <2>3, HandleMessages
    <3>2. ~Asks(h) /\ ~Known(h) /\ modem'[h] = "opening"
      BY <1>1, <2>2, <2>3 DEF HandleFits
    <3>3. Asks(h)' /\ AsksOnce(h)' /\ (GivesBackLast(h)' <=> GivesBackLast(h))
      BY <1>1, <2>1, <3>1, <3>2, PostedFor DEF Post, HandleFits
    <3>4. ~GivesBackLast(h)
      BY <3>2 DEF GivesBackLast, Follows, Asks, Some
    <3> QED BY <1>2, <3>2, <3>3, <3>4 DEF HandleFits
  <2>4. CASE g # h
    BY <1>1, <1>3, <2>1, <2>2, <2>4
  <2> QED BY <2>3, <2>4
<1>5. ASSUME NEW g \in Handles, ReleaseATL(g) PROVE HandleFits(h)'
  <2> DEFINE m == [type |-> "release", handle |-> g]
  <2>1. m \in Messages /\ m.handle = g /\ m.type = "release" /\ Post(m)
    BY <1>5 DEF Messages, ReleaseATL
  <2>2. /\ modem[g] \in {"opening", "open"} /\ modem' = [modem EXCEPT ![g] = "closing"]
    BY <1>5 DEF ReleaseATL
  <2> HIDE DEF m
  <2>3. CASE g = h
    <3>1. m \notin RequestsOf(h) /\ m \in ReleasesOf(h)
      BY <2>1, <2>3, HandleMessages
    <3>2. modem'[h] = "closing" /\ (Asks(h) \/ ActiveHolding(h) \/ ActiveWaiting(h))
      BY <1>1, <2>2, <2>3 DEF HandleFits
    <3>3. /\ Asks(h)' <=> Asks(h)
          /\ AsksOnce(h)' /\ GivesBack(h)' /\ (Asks(h) => GivesBackLast(h)')
      BY <1>1, <2>1, <3>1, PostedFor DEF Post, HandleFits
    <3> QED BY <1>2, <3>2, <3>3 DEF HandleFits
  <2>4. CASE g # h
    BY <1>1, <1>3, <2>1, <2>2, <2>4
  <2> QED BY <2>3, <2>4
<1> QED BY <1>2, <1>4, <1>5

LEMMA OthersKeepHandle ==
    ASSUME Inv, NEW h \in Handles, HandleFits(h), OneMachine(h),
           \/ \E nif \in Nifs : WdsAnswers(nif)
           \/ Register \/ Framework \/ ConnectionLost \/ NetworkInfo \/ UNCHANGED vars
    PROVE  HandleFits(h)' /\ OneMachine(h)'
<1>1. TypeOK /\ SubscribersFit /\ adapterQ \in Seq(Messages)
  BY DEF Inv, TypeOK
<1>2. CASE ConnectionUpBadApn
  <2> DEFINE r == Released(nifs["agnss"])
  <2>1. "agnss" \in Nifs /\ nifs["agnss"] \in NifRecords /\ Fits(nifs["agnss"])
    BY <1>1 DEF TypeOK, NifRecords, SubscribersFit, Nifs
  <2>2. r \in Reactions /\ Spares(nifs["agnss"], r, h)
    BY <2>1, AnswersKeep, EventsSpare
  <2>3. Perform("agnss", r, adapterQ)
    BY <1>2 DEF ConnectionUpBadApn
  <2> HIDE DEF r
  <2>4. Leaves(adapterQ, h) /\ nifs' = [nifs EXCEPT !["agnss"] = r.nif] /\ Tell(r.to, r.what)
    BY <1>1, <2>1, <2>2, <2>3, PerformLeaves DEF Perform
  <2>5. SameQueue(h)
    BY <2>4 DEF Leaves, SameQueue, Asks, AsksOnce, GivesBack, GivesBackLast
  <2> QED BY <1>1, <2>1, <2>2, <2>4, <2>5, SpareKeepsHandle
<1>3. CASE ~ConnectionUpBadApn
  <2>1. UNCHANGED <<nifs, modem>>
    BY <1>3 DEF WdsAnswers, Register, Framework, TakeRequest, TakeRelease, ConnectionUp,
                ConnectionFails, ConnectionLost, NetworkInfo, vars
  <2>2. \/ UNCHANGED adapterQ
        \/ \E type \in {"init", "opened", "granted", "failed", "closed"}, nif \in Nifs :
               Post([type |-> type, nif |-> nif])
    BY <1>3 DEF WdsAnswers, Register, Framework, TakeRequest, TakeRelease, ConnectionUp,
                ConnectionFails, ConnectionLost, NetworkInfo, vars, Nifs
  <2>3. SameQueue(h)
    <3>1. CASE UNCHANGED adapterQ
      BY <3>1, HandleQueues DEF SameQueue, Asks, AsksOnce, GivesBack, GivesBackLast
    <3>2. ASSUME NEW type \in {"init", "opened", "granted", "failed", "closed"}, NEW nif \in Nifs,
                 Post([type |-> type, nif |-> nif])
          PROVE  SameQueue(h)
      <4> DEFINE m == [type |-> type, nif |-> nif]
      <4>1. m \in Messages /\ m \notin RequestsOf(h) /\ m \notin ReleasesOf(h)
        BY DEF Messages, RequestsOf, ReleasesOf
      <4>2. adapterQ' = Append(adapterQ, m)
        BY <3>2 DEF Post
      <4> HIDE DEF m
      <4> QED BY <1>1, <4>1, <4>2, PostedFor DEF SameQueue
    <3> QED BY <2>2, <3>1, <3>2
  <2> QED BY <2>1, <2>3, QuietKeepsHandle
<1> QED BY <1>2, <1>3

LEMMA InitHandles == Init => HandlesFit
<1> SUFFICES ASSUME Init, NEW h \in Handles PROVE HandleFits(h) /\ OneMachine(h)
  BY DEF HandlesFit
<1>1. \A nif \in Nifs : Members(nifs[nif]) = {}
  BY DEF Init, Fresh, Members
<1>2. modem[h] = "idle" /\ ~Known(h) /\ OneMachine(h)
  BY <1>1 DEF Init, Known, OneMachine
<1>3. \A i \in DOMAIN adapterQ : adapterQ[i].type = "init"
  BY DEF Init
<1>4. \A m \in RequestsOf(h) : m.type = "request"
  BY DEF RequestsOf
<1>5. ~Asks(h) /\ AsksOnce(h)
  BY <1>3, <1>4 DEF Asks, AsksOnce, Some, One
<1> QED BY <1>2, <1>5 DEF HandleFits

LEMMA StepHandles == Inv /\ HandlesFit /\ [Next]_vars => HandlesFit'
<1> SUFFICES ASSUME Inv, HandlesFit, [Next]_vars, upsets'.crash = 0, NEW h \in Handles
             PROVE  HandleFits(h)' /\ OneMachine(h)'
  BY DEF HandlesFit
<1>1. upsets \in [loss : Nat, apn : Nat, crash : Nat]
  BY DEF Inv, TypeOK
<1>2. ASSUME NEW what \in {"loss", "apn", "crash"}, Upset(what)
      PROVE  upsets.crash = 0 /\ what # "crash"
  BY <1>1, <1>2 DEF Upset
<1>3. ~ModemCrash
  BY <1>2 DEF ModemCrash
<1>4. upsets.crash = 0
  <2>1. UNCHANGED upsets \/ Upset("loss") \/ Upset("apn") \/ Upset("crash")
    BY DEF Next, vars, RequestATL, ReleaseATL, ModemCrash, Adapter, HandleInit, HandleRequest,
           HandleRelease, HandleOpened, HandleGranted, HandleFailed, HandleClosed, WdsAnswers,
           Register, Framework, TakeRequest, TakeRelease, ConnectionUp, ConnectionUpBadApn,
           ConnectionFails, ConnectionLost, NetworkInfo, used
  <2> QED BY <1>2, <2>1
<1>5. HandleFits(h) /\ OneMachine(h)
  BY <1>4 DEF HandlesFit
<1> QED BY <1>3, <1>5, AdapterKeepsHandle, ModemKeepsHandle, OthersKeepHandle DEF Next

-----------------------------------------------------------------------------
(* Answers.  While no APN is refused and no grant comes by way of WDS, a    *)
(* machine that waits for an answer has one coming: in its queue or, on the *)
(* AGNSS interface, from the framework.  There "opened" is handled before   *)
(* the report that ends the session, so a machine that waits never sees an  *)
(* answer it ignores.                                                       *)

Answers(types, nif) == [type : types, nif : {nif}]
Opened == Answers({"opened"}, "agnss")
Failed == Answers({"failed"}, "agnss")
Closed == Answers({"closed"}, "agnss")

OpenedComes == Some(adapterQ, Opened)
OpenedOnce == One(adapterQ, Opened)
OpenedLate == Follows(adapterQ, Reports, Opened)
OpenedFirst == Follows(adapterQ, Opened, Closed)
FailedComes == Some(adapterQ, Failed)
ClosedComes == Some(adapterQ, Closed)

AgnssProgresses ==
    /\ OpenedOnce /\ ~OpenedLate
    /\ OpenedComes => Agnss \in {"pending", "releasing"} /\ conn # "opening" /\ ~Requested
    /\ FailedComes => Agnss # "acquired" /\ ~OpenedComes
    /\ conn = "opening" \/ Requested => Agnss # "acquired"
    /\ Agnss = "pending" /\ ClosedComes => OpenedFirst
    /\ Agnss = "pending" /\ conn = "open" => OpenedComes
    /\ Agnss # "released" => FailedComes \/ ClosedComes \/ Requested \/ conn # "closed"

Internet == nifs["internet"].state
GrantOrFailure == Answers({"opened", "failed"}, "internet")
CloseOrFailure == Answers({"closed", "failed"}, "internet")

InternetProgresses ==
    /\ mobile # "bad_apn"
    /\ Internet = "pending" => Some(adapterQ, GrantOrFailure)
    /\ Internet = "releasing" => Some(adapterQ, CloseOrFailure)

Grants == [type : {"granted"}, nif : Nifs]
NoLateGrants == ~Some(adapterQ, Grants) /\ \A nif \in Nifs : lookups[nif] = 0

Progress ==
    upsets.apn = 0 /\ ~wds => AgnssProgresses /\ InternetProgresses /\ NoLateGrants

LEMMA AnswersInNextState ==
    /\ OpenedComes' <=> Some(adapterQ', Opened)
    /\ OpenedOnce' <=> One(adapterQ', Opened)
    /\ OpenedLate' <=> Follows(adapterQ', Reports, Opened)
    /\ OpenedFirst' <=> Follows(adapterQ', Opened, Closed)
    /\ FailedComes' <=> Some(adapterQ', Failed)
    /\ ClosedComes' <=> Some(adapterQ', Closed)
    /\ Some(adapterQ, GrantOrFailure)' <=> Some(adapterQ', GrantOrFailure)
    /\ Some(adapterQ, CloseOrFailure)' <=> Some(adapterQ', CloseOrFailure)
    /\ Some(adapterQ, Grants)' <=> Some(adapterQ', Grants)
BY DEF OpenedComes, OpenedOnce, OpenedLate, OpenedFirst, FailedComes, ClosedComes, Some, One,
       Follows, Reports, Opened, Closed, Failed, Answers, GrantOrFailure, CloseOrFailure, Grants

LEMMA ReportsAreTwoKinds == Some(adapterQ, Reports) <=> FailedComes \/ ClosedComes
BY DEF Some, Reports, FailedComes, ClosedComes, Failed, Closed, Answers

LEMMA AnswerTypes ==
    ASSUME NEW m \in Messages
    PROVE  /\ m \in Opened <=> m.type = "opened" /\ m.nif = "agnss"
           /\ m \in Failed <=> m.type = "failed" /\ m.nif = "agnss"
           /\ m \in Closed <=> m.type = "closed" /\ m.nif = "agnss"
           /\ m \in Reports <=> m \in Failed \/ m \in Closed
           /\ m \in Grants <=> m.type = "granted"
           /\ m \in GrantOrFailure <=> m.type \in {"opened", "failed"} /\ m.nif = "internet"
           /\ m \in CloseOrFailure <=> m.type \in {"closed", "failed"} /\ m.nif = "internet"
BY DEF Messages, Nifs, Opened, Failed, Closed, Reports, Grants, Answers, GrantOrFailure, CloseOrFailure

(* The queue a reaction leaves has of other messages what rest has *)
LEMMA PerformAnswers ==
    ASSUME TypeOK, NEW nif \in Nifs, NEW r \in Reactions, NEW rest \in Seq(Messages),
           Perform(nif, r, rest), NEW E, NEW F,
           \A type \in {"opened", "failed", "closed"} :
               nif = "internet" => [type |-> type, nif |-> "internet"] \notin E \cup F
    PROVE  /\ Some(adapterQ', E) <=> Some(rest, E)
           /\ One(rest, E) => One(adapterQ', E)
           /\ Follows(adapterQ', E, F) <=> Follows(rest, E, F)
<1>1. CASE adapterQ' = rest
  BY <1>1
<1>2. ASSUME NEW type \in {"opened", "failed", "closed"}, nif = "internet",
             adapterQ' = Append(rest, [type |-> type, nif |-> "internet"])
      PROVE  /\ Some(adapterQ', E) <=> Some(rest, E)
             /\ One(rest, E) => One(adapterQ', E)
             /\ Follows(adapterQ', E, F) <=> Follows(rest, E, F)
  <2> DEFINE m == [type |-> type, nif |-> "internet"]
  <2>1. m \in Messages /\ m \notin E /\ m \notin F
    BY <1>2 DEF Messages, Nifs
  <2> HIDE DEF m
  <2>2. adapterQ' = Append(rest, m)
    BY <1>2 DEF m
  <2>3. /\ Some(Append(rest, m), E) <=> Some(rest, E) \/ m \in E
        /\ One(rest, E) /\ (m \in E => ~Some(rest, E)) => One(Append(rest, m), E)
    BY <2>1, SomeAppended
  <2>4. Follows(Append(rest, m), E, F) <=> Follows(rest, E, F) \/ (m \in F /\ Some(rest, E))
    BY <2>1, FollowsAppended
  <2> QED BY <2>1, <2>2, <2>3, <2>4
<1> QED BY <1>1, <1>2, PerformQueues

(* The AGNSS machine's answers, with a message posted and one taken off     *)
LEMMA AnswerPosted ==
    ASSUME adapterQ \in Seq(Messages), NEW m \in Messages, adapterQ' = Append(adapterQ, m)
    PROVE  /\ OpenedComes' <=> OpenedComes \/ m \in Opened
           /\ OpenedOnce /\ (m \in Opened => ~OpenedComes) => OpenedOnce'
           /\ OpenedLate' <=> OpenedLate \/ (m \in Opened /\ (FailedComes \/ ClosedComes))
           /\ OpenedFirst' <=> OpenedFirst \/ (m \in Closed /\ OpenedComes)
           /\ FailedComes' <=> FailedComes \/ m \in Failed
           /\ ClosedComes' <=> ClosedComes \/ m \in Closed
<1>1. \A E : /\ Some(Append(adapterQ, m), E) <=> Some(adapterQ, E) \/ m \in E
             /\ One(adapterQ, E) /\ (m \in E => ~Some(adapterQ, E)) => One(Append(adapterQ, m), E)
  BY SomeAppended
<1>2. \A E, F : Follows(Append(adapterQ, m), E, F) <=>
                    Follows(adapterQ, E, F) \/ (m \in F /\ Some(adapterQ, E))
  BY FollowsAppended
<1> QED BY <1>1, <1>2, AnswersInNextState, ReportsAreTwoKinds
        DEF OpenedComes, OpenedOnce, OpenedLate, OpenedFirst, FailedComes, ClosedComes

LeavesAnswers(rest) ==
    /\ OpenedComes' <=> Some(rest, Opened)
    /\ One(rest, Opened) => OpenedOnce'
    /\ OpenedLate' <=> Follows(rest, Reports, Opened)
    /\ OpenedFirst' <=> Follows(rest, Opened, Closed)
    /\ FailedComes' <=> Some(rest, Failed)
    /\ ClosedComes' <=> Some(rest, Closed)

LEMMA AnswerTakenOff ==
    ASSUME adapterQ \in Seq(Messages), adapterQ # <<>>, LeavesAnswers(Tail(adapterQ))
    PROVE  /\ OpenedComes <=> OpenedComes' \/ Head(adapterQ) \in Opened
           /\ OpenedOnce => OpenedOnce' /\ (Head(adapterQ) \in Opened => ~OpenedComes')
           /\ OpenedLate <=> OpenedLate' \/ (Head(adapterQ) \in Reports /\ OpenedComes')
           /\ OpenedFirst <=> OpenedFirst' \/ (Head(adapterQ) \in Opened /\ ClosedComes')
           /\ OpenedFirst' => OpenedComes' /\ ClosedComes'
           /\ FailedComes <=> FailedComes' \/ Head(adapterQ) \in Failed
           /\ ClosedComes <=> ClosedComes' \/ Head(adapterQ) \in Closed
<1>1. \A E : /\ Some(adapterQ, E) <=> Some(Tail(adapterQ), E) \/ Head(adapterQ) \in E
             /\ One(adapterQ, E) => /\ One(Tail(adapterQ), E)
                                    /\ Head(adapterQ) \in E => ~Some(Tail(adapterQ), E)
  BY SomeTakenOff
<1>2. \A E, F : Follows(adapterQ, E, F) <=>
          \/ Follows(Tail(adapterQ), E, F)
          \/ Head(adapterQ) \in E /\ Some(Tail(adapterQ), F)
  BY FollowsTakenOff
<1>3. \A q, E, F : Follows(q, E, F) => Some(q, E) /\ Some(q, F)
  BY DEF Follows, Some
<1> QED BY <1>1, <1>2, <1>3
        DEF LeavesAnswers, OpenedComes, OpenedOnce, OpenedLate, OpenedFirst, FailedComes, ClosedComes

LEMMA PerformLeavesAnswers ==
    ASSUME TypeOK, NEW nif \in Nifs, NEW r \in Reactions, NEW rest \in Seq(Messages),
           Perform(nif, r, rest)
    PROVE  LeavesAnswers(rest)
<1>1. \A type \in {"opened", "failed", "closed"}, E \in {Opened, Failed, Closed, Reports} :
          [type |-> type, nif |-> "internet"] \notin E
  BY DEF Opened, Failed, Closed, Reports, Answers
<1>2. ASSUME NEW E \in {Opened, Failed, Closed, Reports}, NEW F \in {Opened, Failed, Closed, Reports}
      PROVE  /\ Some(adapterQ', E) <=> Some(rest, E)
             /\ One(rest, E) => One(adapterQ', E)
             /\ Follows(adapterQ', E, F) <=> Follows(rest, E, F)
  <2>1. \A type \in {"opened", "failed", "closed"} :
            nif = "internet" => [type |-> type, nif |-> "internet"] \notin E \cup F
    BY <1>1
  <2> QED BY <2>1, PerformAnswers
<1> QED BY <1>2, AnswersInNextState DEF LeavesAnswers

LEMMA RequestedAfter ==
    ASSUME frameworkQ \in Seq({"request", "release"}),
           NEW asks \in {<<>>, <<"request">>, <<"release">>}, frameworkQ' = frameworkQ \o asks
    PROVE  Requested' <=> Requested \/ asks = <<"request">>
<1>1. CASE asks = <<>>
  <2>1. frameworkQ' = frameworkQ /\ asks # <<"request">>
    BY <1>1
  <2> QED BY <2>1, InNextState DEF Requested
<1>2. CASE asks = <<"request">>
  <2>1. frameworkQ' = Append(frameworkQ, "request")
    BY <1>2
  <2>2. Some(Append(frameworkQ, "request"), {"request"})
    BY RequestsAppended
  <2> QED BY <1>2, <2>1, <2>2, InNextState DEF Requested
<1>3. CASE asks = <<"release">>
  <2>1. frameworkQ' = Append(frameworkQ, "release") /\ asks # <<"request">>
    BY <1>3
  <2>2. Some(Append(frameworkQ, "release"), {"request"}) <=> Some(frameworkQ, {"request"})
    BY RequestsAppended
  <2> QED BY <2>1, <2>2, InNextState DEF Requested
<1> QED BY <1>1, <1>2, <1>3

(* What the AGNSS machine makes of a message, case by case *)
AgnssHandles(n, r) ==
    \/ /\ Head(adapterQ) \notin Opened \cup Reports
       /\ \/ r.nif.state = n.state /\ r.asks = <<>>
          \/ n.state = "released" /\ r.nif.state = "pending" /\ r.asks = <<"request">>
          \/ n.state \in {"pending", "acquired"} /\ r.nif.state = "releasing" /\ r.asks = <<"release">>
    \/ Head(adapterQ) \in Opened /\ r = Granted(n)
    \/ Head(adapterQ) \in Failed /\ r = Denied(n)
    \/ Head(adapterQ) \in Closed /\ r = Released(n)

LEMMA AgnssReactionProgresses ==
    ASSUME TypeOK, OneSession, AgnssProgresses, adapterQ # <<>>, UNCHANGED conn,
           NEW r \in Reactions, Perform("agnss", r, Tail(adapterQ)),
           AgnssHandles(nifs["agnss"], r)
    PROVE  AgnssProgresses'
<1> DEFINE n == nifs["agnss"]
           m == Head(adapterQ)
<1>1. /\ adapterQ \in Seq(Messages) /\ Tail(adapterQ) \in Seq(Messages) /\ m \in Messages
      /\ frameworkQ \in Seq({"request", "release"}) /\ "agnss" \in Nifs
      /\ nifs \in [Nifs -> NifRecords] /\ n \in NifRecords
  BY TakenOff DEF TypeOK, NifRecords, Nifs
<1>2. LeavesAnswers(Tail(adapterQ)) /\ frameworkQ' = frameworkQ \o r.asks
      /\ nifs' = [nifs EXCEPT !["agnss"] = r.nif]
  BY <1>1, PerformLeavesAnswers, PerformQueues
<1>3. Agnss = n.state /\ Agnss' = r.nif.state /\ Agnss \in States
  BY <1>1, <1>2 DEF Agnss, NifRecords
<1>4. r.asks \in {<<>>, <<"request">>, <<"release">>} =>
          (Requested' <=> Requested \/ r.asks = <<"request">>)
  BY <1>1, <1>2, RequestedAfter
<1>5. /\ OpenedComes <=> OpenedComes' \/ m \in Opened
      /\ OpenedOnce' /\ (m \in Opened => ~OpenedComes')
      /\ ~OpenedLate' /\ ~(m \in Reports /\ OpenedComes')
      /\ OpenedFirst <=> OpenedFirst' \/ (m \in Opened /\ ClosedComes')
      /\ OpenedFirst' => ClosedComes'
      /\ FailedComes <=> FailedComes' \/ m \in Failed
      /\ ClosedComes <=> ClosedComes' \/ m \in Closed
  BY <1>1, <1>2, AnswerTakenOff DEF AgnssProgresses
<1>6. m \in Reports <=> m \in Failed \/ m \in Closed
  BY <1>1, AnswerTypes
<1>7. /\ FailedComes \/ ClosedComes => Agnss # "released" /\ conn = "closed" /\ ~Requested
      /\ m \in Reports => ~FailedComes' /\ ~ClosedComes'
  <2>1. m \in Reports => ~Some(Tail(adapterQ), Reports)
    BY <1>1, SomeTakenOff DEF OneSession
  <2>2. Some(Tail(adapterQ), Failed) \/ Some(Tail(adapterQ), Closed) => Some(Tail(adapterQ), Reports)
    BY DEF Some, Failed, Closed, Reports, Answers
  <2> QED BY <1>2, <2>1, <2>2, ReportsAreTwoKinds DEF OneSession, LeavesAnswers
<1>8. CASE /\ m \notin Opened \cup Reports
           /\ \/ r.nif.state = n.state /\ r.asks = <<>>
              \/ n.state = "released" /\ r.nif.state = "pending" /\ r.asks = <<"request">>
              \/ n.state \in {"pending", "acquired"} /\ r.nif.state = "releasing" /\ r.asks = <<"release">>
  <2>1. CASE r.nif.state = n.state /\ r.asks = <<>>
    <3>1. (Requested' <=> Requested) /\ Agnss' = Agnss
      BY <1>3, <1>4, <2>1
    <3> QED BY <1>5, <1>6, <1>8, <3>1 DEF AgnssProgresses
  <2>2. CASE n.state = "released" /\ r.nif.state = "pending" /\ r.asks = <<"request">>
    <3>1. Requested' /\ Agnss = "released" /\ Agnss' = "pending"
      BY <1>3, <1>4, <2>2
    <3>2. ~OpenedComes /\ ~FailedComes /\ ~ClosedComes /\ conn = "closed"
      BY <1>7, <3>1 DEF AgnssProgresses, OneSession
    <3>3. ~OpenedComes' /\ ~FailedComes' /\ ~ClosedComes' /\ conn' = "closed"
      BY <1>5, <3>2
    <3> QED BY <1>5, <3>1, <3>3 DEF AgnssProgresses
  <2>3. CASE /\ n.state \in {"pending", "acquired"} /\ r.nif.state = "releasing"
             /\ r.asks = <<"release">>
    <3>1. (Requested' <=> Requested) /\ Agnss \in {"pending", "acquired"} /\ Agnss' = "releasing"
      BY <1>3, <1>4, <2>3
    <3> QED BY <1>5, <1>6, <1>8, <3>1 DEF AgnssProgresses
  <2> QED BY <1>8, <2>1, <2>2, <2>3
<1>9. CASE m \in Opened /\ r = Granted(n)
  <2>1. r.nif.state = (IF n.state = "pending" THEN "acquired" ELSE n.state) /\ r.asks = <<>>
    BY <1>1, <1>9 DEF Granted, React, Ignore, NifRecords
  <2>2. (Requested' <=> Requested) /\ Agnss' = (IF Agnss = "pending" THEN "acquired" ELSE Agnss)
    BY <1>3, <1>4, <2>1
  <2>3. /\ Agnss \in {"pending", "releasing"} /\ conn # "opening" /\ ~Requested /\ ~FailedComes
        /\ ~OpenedComes' /\ m \notin Closed
    BY <1>1, <1>5, <1>9, AnswerTypes DEF AgnssProgresses
  <2> QED BY <1>5, <1>6, <2>2, <2>3 DEF AgnssProgresses
<1>10. CASE m \in Reports /\ r \in {Denied(n), Released(n)}
  <2>1. ~FailedComes' /\ ~ClosedComes' /\ conn = "closed" /\ ~Requested /\ Agnss # "released"
    BY <1>5, <1>6, <1>7, <1>10
  <2>2. ~OpenedComes'
    BY <1>5, <1>10
  <2>3. m \in Closed => Agnss # "pending"
    BY <1>5, <2>1, <2>2, <1>6, <1>7, <1>10, AnswerTypes, <1>1 DEF AgnssProgresses
  <2>4. m \in Failed => Agnss # "acquired"
    BY <1>5 DEF AgnssProgresses
  <2>5. \/ r.nif.state = "released" /\ r.asks = <<>>
        \/ r.nif.state = "pending" /\ r.asks = <<"request">>
    <3>1. \/ Closing(n).nif.state = "released" /\ Closing(n).asks = <<>>
          \/ Closing(n).nif.state = "pending" /\ Closing(n).asks = <<"request">>
      BY <1>1 DEF Closing, React, NifRecords, Fresh
    <3>2. \/ m \in Closed /\ r = Released(n) /\ n.state \in {"acquired", "releasing"}
          \/ m \in Failed /\ r = Denied(n) /\ n.state \in {"pending", "releasing"}
      <4>1. \/ m \in Closed /\ m \notin Failed /\ r = Released(n)
            \/ m \in Failed /\ m \notin Closed /\ r = Denied(n)
        <5>1. m \notin Opened /\ ~(m \in Failed /\ m \in Closed)
          BY <1>1, <1>6, <1>10, AnswerTypes
        <5> QED BY <1>6, <1>10, <5>1 DEF AgnssHandles
      <4> QED BY <1>3, <2>1, <2>3, <2>4, <4>1 DEF States
    <3> QED BY <3>1, <3>2 DEF Released, Denied, React, Fresh
  <2>6. Agnss' \in {"released", "pending"} /\ (Agnss' = "pending" => Requested')
    BY <1>3, <1>4, <2>5
  <2> QED BY <1>5, <2>1, <2>2, <2>6 DEF AgnssProgresses
<1> QED BY <1>6, <1>8, <1>9, <1>10 DEF AgnssHandles

LEMMA QuietKeepsAgnss ==
    ASSUME AgnssProgresses, UNCHANGED <<conn, frameworkQ>>, Agnss' = Agnss,
           adapterQ \in Seq(Messages),
           \/ UNCHANGED adapterQ
           \/ \E m \in Messages : m \notin Opened \cup Reports /\ adapterQ' = Append(adapterQ, m)
           \/ /\ adapterQ # <<>> /\ LeavesAnswers(Tail(adapterQ))
              /\ Head(adapterQ) \notin Opened \cup Reports
    PROVE  AgnssProgresses'
<1>1. Requested' <=> Requested
  BY InNextState DEF Requested
<1>2. CASE UNCHANGED adapterQ
  BY <1>1, <1>2, AnswersInNextState
  DEF AgnssProgresses, OpenedComes, OpenedOnce, OpenedLate, OpenedFirst, FailedComes, ClosedComes
<1>3. ASSUME NEW m \in Messages, m \notin Opened \cup Reports, adapterQ' = Append(adapterQ, m)
      PROVE  AgnssProgresses'
  <2>1. m \notin Opened /\ m \notin Failed /\ m \notin Closed
    BY <1>3, AnswerTypes
  <2> QED BY <1>1, <1>3, <2>1, AnswerPosted DEF AgnssProgresses
<1>4. CASE /\ adapterQ # <<>> /\ LeavesAnswers(Tail(adapterQ))
           /\ Head(adapterQ) \notin Opened \cup Reports
  <2>1. /\ Head(adapterQ) \notin Opened /\ Head(adapterQ) \notin Failed
        /\ Head(adapterQ) \notin Closed /\ Head(adapterQ) \notin Reports
    BY <1>4, TakenOff, AnswerTypes
  <2> QED BY <1>1, <1>4, <2>1, AnswerTakenOff DEF AgnssProgresses
<1> QED BY <1>2, <1>3, <1>4

LEMMA FrameworkKeepsAgnss ==
    ASSUME TypeOK, OneSession, LastWordFits, AgnssProgresses,
           TakeRequest \/ TakeRelease \/ ConnectionUp \/ ConnectionFails \/ ConnectionLost
    PROVE  AgnssProgresses'
<1>1. adapterQ \in Seq(Messages) /\ frameworkQ \in Seq({"request", "release"}) /\ Agnss \in States
      /\ conn \in {"closed", "opening", "open"}
  BY DEF TypeOK, Agnss, Nifs
<1>2. Agnss' = Agnss
  BY DEF TakeRequest, TakeRelease, ConnectionUp, ConnectionFails, ConnectionLost, Agnss
<1>3. FailedComes \/ ClosedComes => Agnss # "released" /\ conn = "closed" /\ ~Requested
  BY ReportsAreTwoKinds DEF OneSession
<1>4. ASSUME NEW type \in {"opened", "failed", "closed"}, Post([type |-> type, nif |-> "agnss"])
      PROVE  /\ OpenedComes' <=> OpenedComes \/ type = "opened"
             /\ OpenedOnce /\ (type = "opened" => ~OpenedComes) => OpenedOnce'
             /\ OpenedLate' <=> OpenedLate \/ (type = "opened" /\ (FailedComes \/ ClosedComes))
             /\ OpenedFirst' <=> OpenedFirst \/ (type = "closed" /\ OpenedComes)
             /\ FailedComes' <=> FailedComes \/ type = "failed"
             /\ ClosedComes' <=> ClosedComes \/ type = "closed"
  <2> DEFINE m == [type |-> type, nif |-> "agnss"]
  <2>1. m \in Messages
    BY DEF Messages, Nifs
  <2>2. /\ m \in Opened <=> type = "opened"
        /\ m \in Failed <=> type = "failed"
        /\ m \in Closed <=> type = "closed"
    BY DEF Opened, Failed, Closed, Answers
  <2>3. adapterQ' = Append(adapterQ, m)
    BY <1>4 DEF Post
  <2> HIDE DEF m
  <2> QED BY <1>1, <2>1, <2>2, <2>3, AnswerPosted
<1>5. ASSUME UNCHANGED adapterQ
      PROVE  /\ OpenedComes' <=> OpenedComes
             /\ OpenedOnce' <=> OpenedOnce
             /\ OpenedLate' <=> OpenedLate
             /\ OpenedFirst' <=> OpenedFirst
             /\ FailedComes' <=> FailedComes
             /\ ClosedComes' <=> ClosedComes
  BY <1>5, AnswersInNextState
  DEF OpenedComes, OpenedOnce, OpenedLate, OpenedFirst, FailedComes, ClosedComes
<1>6. ASSUME frameworkQ # <<>>, frameworkQ' = Tail(frameworkQ)
      PROVE  Requested <=> Requested' \/ Head(frameworkQ) = "request"
  <2>1. Head(frameworkQ) \in {"request"} <=> Head(frameworkQ) = "request"
    OBVIOUS
  <2>2. Some(frameworkQ, {"request"}) <=>
            Some(Tail(frameworkQ), {"request"}) \/ Head(frameworkQ) \in {"request"}
    BY <1>1, <1>6, SomeTakenOff
  <2> QED BY <1>6, <2>1, <2>2, InNextState DEF Requested
<1>7. UNCHANGED frameworkQ => (Requested' <=> Requested)
  BY InNextState DEF Requested
<1>8. CASE TakeRequest
  <2>1. /\ Requested /\ conn' = "opening" /\ UNCHANGED adapterQ
        /\ Requested' => Requested
    BY <1>6, <1>8 DEF TakeRequest
  <2>2. conn = "closed" /\ ~OpenedComes /\ Agnss # "acquired"
    BY <2>1 DEF OneSession, AgnssProgresses
  <2> QED BY <1>2, <1>3, <1>5, <2>1, <2>2 DEF AgnssProgresses
<1>9. CASE TakeRelease
  <2>1. /\ frameworkQ # <<>> /\ (Requested' <=> Requested) /\ conn' = "closed"
    BY <1>6, <1>9 DEF TakeRelease
  <2>2. CASE conn = "closed"
    <3>1. UNCHANGED adapterQ
      BY <1>9, <2>2 DEF TakeRelease
    <3> QED BY <1>2, <1>5, <2>1, <2>2, <3>1 DEF AgnssProgresses
  <2>3. CASE conn # "closed"
    <3>1. Post([type |-> "closed", nif |-> "agnss"])
      BY <1>9, <2>3 DEF TakeRelease
    <3>2. Agnss = "releasing" /\ ~Requested
      BY <1>1, <2>1, <2>3 DEF LastWordFits, OneSession, States
    <3>3. /\ OpenedComes' <=> OpenedComes
          /\ OpenedOnce' /\ ~OpenedLate' /\ ClosedComes'
          /\ FailedComes' <=> FailedComes
      BY <1>4, <3>1 DEF AgnssProgresses
    <3> QED BY <1>2, <2>1, <3>2, <3>3 DEF AgnssProgresses
  <2> QED BY <2>2, <2>3
<1>10. CASE ConnectionUp
  <2>1. /\ conn = "opening" /\ conn' = "open" /\ UNCHANGED frameworkQ
        /\ Post([type |-> "opened", nif |-> "agnss"])
    BY <1>10 DEF ConnectionUp
  <2>2. /\ ~OpenedComes /\ ~FailedComes /\ ~ClosedComes /\ ~Requested
        /\ Agnss # "acquired" /\ Agnss # "released"
    BY <1>3, <2>1 DEF AgnssProgresses, OneSession
  <2>3. /\ OpenedComes' /\ OpenedOnce' /\ ~OpenedLate' /\ ~FailedComes' /\ ~ClosedComes'
    BY <1>4, <2>1, <2>2 DEF AgnssProgresses
  <2>4. Agnss \in {"pending", "releasing"}
    BY <1>1, <2>2 DEF States
  <2> QED BY <1>2, <1>7, <2>1, <2>2, <2>3, <2>4 DEF AgnssProgresses
<1>11. CASE ConnectionFails
  <2>1. /\ conn = "opening" /\ conn' = "closed" /\ UNCHANGED frameworkQ
        /\ Post([type |-> "failed", nif |-> "agnss"])
    BY <1>11 DEF ConnectionFails
  <2>2. /\ ~OpenedComes /\ ~FailedComes /\ ~ClosedComes /\ ~Requested
        /\ Agnss # "acquired" /\ Agnss # "released"
    BY <1>3, <2>1 DEF AgnssProgresses, OneSession
  <2>3. /\ ~OpenedComes' /\ OpenedOnce' /\ ~OpenedLate' /\ FailedComes' /\ ~ClosedComes'
    BY <1>4, <2>1, <2>2 DEF AgnssProgresses
  <2> QED BY <1>2, <1>7, <2>1, <2>2, <2>3 DEF AgnssProgresses
<1>12. CASE ConnectionLost
  <2>1. /\ conn = "open" /\ conn' = "closed" /\ UNCHANGED frameworkQ
        /\ Post([type |-> "closed", nif |-> "agnss"])
    BY <1>12 DEF ConnectionLost
  <2>2. ~FailedComes /\ ~ClosedComes /\ ~Requested
    BY <1>3, <2>1 DEF OneSession
  <2>3. /\ OpenedComes' <=> OpenedComes
        /\ OpenedOnce' /\ ~OpenedLate' /\ ~FailedComes' /\ ClosedComes'
        /\ OpenedComes => OpenedFirst'
    BY <1>4, <2>1, <2>2 DEF AgnssProgresses
  <2> QED BY <1>2, <1>7, <2>1, <2>2, <2>3 DEF AgnssProgresses
<1> QED BY <1>8, <1>9, <1>10, <1>11, <1>12

(* NativeAgpsHandler answers every request and every release on the spot    *)
LEMMA NativeAnswersAll ==
    ASSUME mobile \in {"none", "connected"}, NEW rest \in Seq(Messages), NEW asks
    PROVE  /\ asks = <<"request">> => Some(rest \o NativeAnswers(asks), GrantOrFailure)
           /\ asks = <<"release">> => Some(rest \o NativeAnswers(asks), CloseOrFailure)
           /\ \A E : Some(rest, E) => Some(rest \o NativeAnswers(asks), E)
<1> DEFINE Msg(type) == [type |-> type, nif |-> "internet"]
<1>1. \A type \in {"opened", "failed", "closed"} : Msg(type) \in Messages
  BY DEF Messages, Nifs
<1>2. /\ Msg("opened") \in GrantOrFailure /\ Msg("failed") \in GrantOrFailure
      /\ Msg("closed") \in CloseOrFailure
  BY DEF GrantOrFailure, CloseOrFailure, Answers
<1>3. \A type : rest \o <<Msg(type)>> = Append(rest, Msg(type))
  OBVIOUS
<1>4. rest \o <<>> = rest
  OBVIOUS
<1>5. \/ NativeAnswers(asks) = <<>> /\ asks # <<"request">> /\ asks # <<"release">>
      \/ \E type \in {"opened", "failed", "closed"} :
             /\ NativeAnswers(asks) = <<Msg(type)>>
             /\ asks = <<"request">> => type \in {"opened", "failed"}
             /\ asks = <<"release">> => type = "closed"
  <2>1. <<"request">> # <<"release">>
    <3>1. <<"request">>[1] # <<"release">>[1]
      OBVIOUS
    <3> QED BY <3>1
  <2> QED BY <2>1 DEF NativeAnswers
<1>6. CASE NativeAnswers(asks) = <<>> /\ asks # <<"request">> /\ asks # <<"release">>
  BY <1>4, <1>6
<1>7. ASSUME NEW type \in {"opened", "failed", "closed"}, NativeAnswers(asks) = <<Msg(type)>>,
             asks = <<"request">> => type \in {"opened", "failed"},
             asks = <<"release">> => type = "closed"
      PROVE  /\ asks = <<"request">> => Some(rest \o NativeAnswers(asks), GrantOrFailure)
             /\ asks = <<"release">> => Some(rest \o NativeAnswers(asks), CloseOrFailure)
             /\ \A E : Some(rest, E) => Some(rest \o NativeAnswers(asks), E)
  <2> DEFINE m == Msg(type)
  <2>1. /\ m \in Messages
        /\ asks = <<"request">> => m \in GrantOrFailure
        /\ asks = <<"release">> => m \in CloseOrFailure
    BY <1>1, <1>2, <1>7
  <2>2. rest \o NativeAnswers(asks) = Append(rest, m)
    BY <1>3, <1>7
  <2> HIDE DEF m, Msg
  <2>3. \A E : Some(Append(rest, m), E) <=> Some(rest, E) \/ m \in E
    BY <2>1, SomeAppended
  <2> QED BY <2>1, <2>2, <2>3
<1> HIDE DEF Msg
<1> QED BY <1>5, <1>6, <1>7

(* What the machine of the internet makes of a message *)
InternetHandles(n, r) ==
    \/ /\ r.nif.state = n.state
       /\ n.state = "pending" => Head(adapterQ) \notin GrantOrFailure
       /\ n.state = "releasing" => Head(adapterQ) \notin CloseOrFailure
    \/ r.nif.state \in {"released", "acquired"}
    \/ r.nif.state = "pending" /\ r.asks = <<"request">>
    \/ r.nif.state = "releasing" /\ r.asks = <<"release">>

LEMMA InternetReactionProgresses ==
    ASSUME TypeOK, InternetProgresses, adapterQ # <<>>, UNCHANGED mobile,
           NEW r \in Reactions, Perform("internet", r, Tail(adapterQ)),
           InternetHandles(nifs["internet"], r)
    PROVE  InternetProgresses'
<1>1. /\ adapterQ \in Seq(Messages) /\ Tail(adapterQ) \in Seq(Messages)
      /\ nifs \in [Nifs -> NifRecords] /\ "internet" \in Nifs /\ "agnss" # "internet"
      /\ mobile \in {"none", "connected"}
  BY TakenOff DEF TypeOK, NifRecords, Nifs, InternetProgresses
<1>2. adapterQ' = Tail(adapterQ) \o NativeAnswers(r.asks) /\ nifs' = [nifs EXCEPT !["internet"] = r.nif]
  BY <1>1 DEF Perform
<1>3. Internet' = r.nif.state /\ Internet = nifs["internet"].state
  BY <1>1, <1>2 DEF Internet
<1>4. /\ r.asks = <<"request">> => Some(adapterQ', GrantOrFailure)
      /\ r.asks = <<"release">> => Some(adapterQ', CloseOrFailure)
      /\ \A E : Some(Tail(adapterQ), E) => Some(adapterQ', E)
  BY <1>1, <1>2, NativeAnswersAll
<1>5. \A E : Some(adapterQ, E) /\ Head(adapterQ) \notin E => Some(Tail(adapterQ), E)
  BY <1>1, SomeTakenOff
<1> QED BY <1>1, <1>3, <1>4, <1>5, AnswersInNextState DEF InternetProgresses, InternetHandles

LEMMA QuietKeepsInternet ==
    ASSUME InternetProgresses, Internet' = Internet, mobile' # "bad_apn",
           adapterQ \in Seq(Messages),
           \/ UNCHANGED adapterQ
           \/ \E m \in Messages : adapterQ' = Append(adapterQ, m)
           \/ /\ adapterQ # <<>> /\ adapterQ' = Tail(adapterQ)
              /\ Head(adapterQ) \notin GrantOrFailure \cup CloseOrFailure
    PROVE  InternetProgresses'
<1>1. \A E \in {GrantOrFailure, CloseOrFailure} : Some(adapterQ, E) => Some(adapterQ', E)
  <2>1. CASE UNCHANGED adapterQ
    BY <2>1
  <2>2. CASE \E m \in Messages : adapterQ' = Append(adapterQ, m)
    BY <2>2, SomeAppended
  <2>3. CASE /\ adapterQ # <<>> /\ adapterQ' = Tail(adapterQ)
             /\ Head(adapterQ) \notin GrantOrFailure \cup CloseOrFailure
    BY <2>3, SomeTakenOff
  <2> QED BY <2>1, <2>2, <2>3
<1> QED BY <1>1, AnswersInNextState DEF InternetProgresses

(* The adapter thread keeps the answers coming *)
LEMMA AdapterProgresses ==
    ASSUME Inv, OneSession, LastWordFits, ~wds,
           AgnssProgresses, InternetProgresses, NoLateGrants, Adapter
    PROVE  AgnssProgresses' /\ InternetProgresses' /\ NoLateGrants'
<1> DEFINE m == Head(adapterQ)
<1>1. /\ TypeOK /\ SubscribersFit /\ adapterQ \in Seq(Messages)
      /\ nifs \in [Nifs -> NifRecords] /\ mobile # "bad_apn"
  BY DEF Inv, TypeOK, NifRecords, InternetProgresses
<1>2. adapterQ # <<>> /\ m \in Messages /\ Tail(adapterQ) \in Seq(Messages)
  BY <1>1, NextMessage DEF Adapter, HandleInit, HandleRequest, HandleRelease, HandleOpened,
                          HandleGranted, HandleFailed, HandleClosed, NextIs
<1>3. UNCHANGED <<conn, mobile, lookups>> /\ ~HandleGranted
  <2>1. m \notin Grants
    BY <1>1, <1>2, SomeTakenOff DEF NoLateGrants
  <2>2. ~HandleGranted
    BY <1>2, <2>1, AnswerTypes DEF HandleGranted, NextIs
  <2> QED BY <2>2 DEF Adapter, HandleInit, HandleRequest, HandleRelease, HandleOpened,
                      HandleFailed, HandleClosed
<1>4. ASSUME NEW nif \in Nifs, NEW r \in Reactions, Perform(nif, r, Tail(adapterQ)),
             nif = "agnss" => AgnssHandles(nifs["agnss"], r),
             nif = "internet" => InternetHandles(nifs["internet"], r)
                                 /\ m \notin Opened \cup Reports,
             nif = "agnss" => m \notin GrantOrFailure \cup CloseOrFailure
      PROVE  AgnssProgresses' /\ InternetProgresses' /\ NoLateGrants'
  <2>1. NoLateGrants'
    <3>1. \A type \in {"opened", "failed", "closed"} :
              nif = "internet" => [type |-> type, nif |-> "internet"] \notin Grants \cup Grants
      BY DEF Grants
    <3>2. Some(adapterQ', Grants) <=> Some(Tail(adapterQ), Grants)
      BY <1>1, <1>2, <1>4, <3>1, PerformAnswers
    <3>3. ~Some(Tail(adapterQ), Grants)
      BY <1>1, <1>2, SomeTakenOff DEF NoLateGrants
    <3> QED BY <1>3, <3>2, <3>3, AnswersInNextState DEF NoLateGrants
  <2>2. nifs' = [nifs EXCEPT ![nif] = r.nif] /\ LeavesAnswers(Tail(adapterQ))
        /\ frameworkQ' = IF nif = "agnss" THEN frameworkQ \o r.asks ELSE frameworkQ
    BY <1>1, <1>2, <1>4, PerformQueues, PerformLeavesAnswers
  <2>3. CASE nif = "agnss"
    <3>1. AgnssProgresses'
      BY <1>1, <1>2, <1>3, <1>4, <2>3, AgnssReactionProgresses
    <3>2. Internet' = Internet /\ adapterQ' = Tail(adapterQ)
      BY <1>1, <1>4, <2>2, <2>3 DEF Internet, Nifs, Perform
    <3> QED BY <1>1, <1>2, <1>3, <1>4, <2>1, <2>3, <3>1, <3>2, QuietKeepsInternet
  <2>4. CASE nif = "internet"
    <3>1. InternetProgresses'
      BY <1>1, <1>2, <1>3, <1>4, <2>4, InternetReactionProgresses
    <3>2. Agnss' = Agnss /\ UNCHANGED frameworkQ
      BY <1>1, <2>2, <2>4 DEF Agnss, Nifs
    <3> QED BY <1>1, <1>2, <1>3, <1>4, <2>1, <2>2, <2>4, <3>1, <3>2, QuietKeepsAgnss
  <2> QED BY <2>3, <2>4 DEF Nifs
<1>5. /\ m \in Opened <=> m.type = "opened" /\ m.nif = "agnss"
      /\ m \in Failed <=> m.type = "failed" /\ m.nif = "agnss"
      /\ m \in Closed <=> m.type = "closed" /\ m.nif = "agnss"
      /\ m \in Reports <=> m \in Failed \/ m \in Closed
      /\ m \in GrantOrFailure <=> m.type \in {"opened", "failed"} /\ m.nif = "internet"
      /\ m \in CloseOrFailure <=> m.type \in {"closed", "failed"} /\ m.nif = "internet"
  BY <1>2, AnswerTypes
<1>6. ASSUME adapterQ' = Tail(adapterQ), UNCHANGED <<nifs, frameworkQ>>,
             m.type \in {"init", "request", "release"}
      PROVE  AgnssProgresses' /\ InternetProgresses' /\ NoLateGrants'
  <2>1. LeavesAnswers(Tail(adapterQ)) /\ Agnss' = Agnss /\ Internet' = Internet
    BY <1>6, AnswersInNextState DEF LeavesAnswers, Agnss, Internet
  <2>2. NoLateGrants'
    <3>1. ~Some(Tail(adapterQ), Grants)
      BY <1>1, <1>2, SomeTakenOff DEF NoLateGrants
    <3> QED BY <1>3, <1>6, <3>1, AnswersInNextState DEF NoLateGrants
  <2>3. AgnssProgresses'
    BY <1>1, <1>2, <1>3, <1>5, <1>6, <2>1, QuietKeepsAgnss
  <2>4. InternetProgresses'
    BY <1>1, <1>2, <1>3, <1>5, <1>6, <2>1, QuietKeepsInternet
  <2> QED BY <2>2, <2>3, <2>4
<1>7. CASE HandleInit
  BY <1>6, <1>7 DEF HandleInit, NextIs
<1>8. CASE HandleRequest
  <2>1. m.nif \in Nifs /\ m.handle \in Handles /\ m.type = "request"
    BY <1>2, <1>8, MessageFields DEF HandleRequest, NextIs
  <2>2. CASE m.nif \in created
    <3> DEFINE n == nifs[m.nif]
               r == Subscribe(n, m.handle)
    <3>1. n \in NifRecords /\ r \in Reactions /\ Moves(n, r)
      BY <1>1, <2>1, SubscribeKeeps, EventsMove
    <3>2. Perform(m.nif, r, Tail(adapterQ))
      BY <1>8, <2>2 DEF HandleRequest
    <3>3. \/ r.nif.state = n.state /\ r.asks = <<>>
          \/ n.state = "released" /\ r.nif.state = "pending" /\ r.asks = <<"request">>
      <4>1. AddSubscriber(n, m.handle) \in NifRecords /\ AddSubscriber(n, m.handle).state = n.state
        BY <2>1, <3>1 DEF AddSubscriber, NifRecords, Members
      <4> QED BY <4>1 DEF Subscribe, React, Ignore, NifRecords
    <3> HIDE DEF r
    <3>4. AgnssHandles(n, r) /\ InternetHandles(n, r)
      BY <1>5, <2>1, <3>3 DEF AgnssHandles, InternetHandles
    <3> QED BY <1>4, <1>5, <2>1, <3>1, <3>2, <3>4
  <2>3. CASE m.nif \notin created
    BY <1>6, <1>8, <2>1, <2>3 DEF HandleRequest
  <2> QED BY <2>2, <2>3
<1>9. CASE HandleRelease
  <2> DEFINE h == m.handle
             n == nifs[Holder(h)]
             r == Unsubscribe(n, h)
  <2>1. Holder(h) \in Nifs /\ h \in Handles /\ m.type = "release"
    BY <1>2, <1>9, MessageFields, HolderIsNif DEF HandleRelease, NextIs
  <2>2. CASE h \in Members(n)
    <3>1. n \in NifRecords /\ r \in Reactions
      BY <1>1, <2>1, <2>2, UnsubscribeKeeps
    <3>2. Perform(Holder(h), r, Tail(adapterQ))
      BY <1>9, <2>2 DEF HandleRelease
    <3>3. \/ r.nif.state = n.state /\ r.asks = <<>>
          \/ /\ n.state \in {"pending", "acquired"} /\ r.nif.state = "releasing"
             /\ r.asks = <<"release">>
      <4>1. Deactivate(n, h) \in NifRecords /\ Deactivate(n, h).state = n.state
        BY <2>1, <3>1 DEF Deactivate, NifRecords
      <4> QED BY <4>1, <3>1 DEF Unsubscribe, React, Ignore, NifRecords
    <3> HIDE DEF r
    <3>4. AgnssHandles(n, r) /\ InternetHandles(n, r)
      BY <1>5, <2>1, <3>3 DEF AgnssHandles, InternetHandles
    <3> QED BY <1>4, <1>5, <2>1, <3>1, <3>2, <3>4
  <2>3. CASE h \notin Members(n)
    BY <1>6, <1>9, <2>1, <2>3 DEF HandleRelease
  <2> QED BY <2>2, <2>3
<1>10. CASE HandleOpened \/ HandleFailed \/ HandleClosed
  <2> DEFINE n == nifs[m.nif]
  <2>1. m.nif \in Nifs /\ n \in NifRecords
    BY <1>1, <1>2, <1>10, MessageFields DEF HandleOpened, HandleFailed, HandleClosed, NextIs
  <2>2. \/ m.type = "opened" /\ Perform(m.nif, Granted(n), Tail(adapterQ))
        \/ m.type = "failed" /\ Perform(m.nif, Denied(n), Tail(adapterQ))
        \/ m.type = "closed" /\ Perform(m.nif, Released(n), Tail(adapterQ))
    BY <1>10 DEF HandleOpened, HandleFailed, HandleClosed, NextIs
  <2>3. Granted(n) \in Reactions /\ Denied(n) \in Reactions /\ Released(n) \in Reactions
    BY <2>1, AnswersKeep
  <2>4. CASE m.type = "opened" /\ Perform(m.nif, Granted(n), Tail(adapterQ))
    <3>1. Granted(n).nif.state = IF n.state = "pending" THEN "acquired" ELSE n.state
      BY <2>1 DEF Granted, React, Ignore, NifRecords
    <3>2. m.nif = "agnss" => AgnssHandles(n, Granted(n))
      BY <1>5, <2>4 DEF AgnssHandles
    <3>3. InternetHandles(n, Granted(n))
      BY <1>5, <2>4, <3>1 DEF InternetHandles
    <3> QED BY <1>4, <1>5, <2>1, <2>3, <2>4, <3>2, <3>3 DEF Nifs
  <2>5. \/ Closing(n).nif.state = "released"
        \/ Closing(n).nif.state = "pending" /\ Closing(n).asks = <<"request">>
    BY <2>1 DEF Closing, React, NifRecords, Fresh
  <2>6. CASE m.type = "failed" /\ Perform(m.nif, Denied(n), Tail(adapterQ))
    <3>1. \/ n.state \notin {"pending", "releasing"} /\ Denied(n).nif = n
          \/ Denied(n).nif.state = "released"
          \/ Denied(n).nif.state = "pending" /\ Denied(n).asks = <<"request">>
      BY <2>5 DEF Denied, React, Ignore, Fresh
    <3>2. m.nif = "agnss" => AgnssHandles(n, Denied(n))
      BY <1>5, <2>6 DEF AgnssHandles
    <3>3. InternetHandles(n, Denied(n))
      BY <3>1 DEF InternetHandles
    <3> QED BY <1>4, <1>5, <2>1, <2>3, <2>6, <3>2, <3>3 DEF Nifs
  <2>7. CASE m.type = "closed" /\ Perform(m.nif, Released(n), Tail(adapterQ))
    <3>1. \/ n.state \notin {"acquired", "releasing"} /\ Released(n).nif = n
          \/ Released(n).nif.state = "released"
          \/ Released(n).nif.state = "pending" /\ Released(n).asks = <<"request">>
      BY <2>5 DEF Released, React, Ignore, Fresh
    <3>2. m.nif = "agnss" => AgnssHandles(n, Released(n))
      BY <1>5, <2>7 DEF AgnssHandles
    <3>3. InternetHandles(n, Released(n))
      BY <1>5, <2>7, <3>1 DEF InternetHandles
    <3> QED BY <1>4, <1>5, <2>1, <2>3, <2>7, <3>2, <3>3 DEF Nifs
  <2> QED BY <2>2, <2>4, <2>6, <2>7
<1> QED BY <1>3, <1>7, <1>8, <1>9, <1>10 DEF Adapter

LEMMA OthersProgress ==
    ASSUME Inv, OneSession, LastWordFits, ~wds,
           AgnssProgresses, InternetProgresses, NoLateGrants, mobile' # "bad_apn",
           ~ConnectionUpBadApn,
           \/ \E h \in Handles, nif \in Nifs : RequestATL(h, nif)
           \/ \E h \in Handles : ReleaseATL(h)
           \/ \E nif \in Nifs : WdsAnswers(nif)
           \/ ModemCrash \/ Register \/ Framework \/ ConnectionLost \/ NetworkInfo \/ UNCHANGED vars
    PROVE  AgnssProgresses' /\ InternetProgresses' /\ NoLateGrants'
<1>1. /\ TypeOK /\ adapterQ \in Seq(Messages) /\ \A nif \in Nifs : lookups[nif] = 0
  BY DEF Inv, TypeOK, NoLateGrants
<1>2. ASSUME NEW nif \in Nifs
      PROVE  ~WdsAnswers(nif)
  <2>1. lookups[nif] = 0
    BY <1>1
  <2>2. ~(lookups[nif] > 0)
    BY <2>1
  <2> QED BY <2>2 DEF WdsAnswers
<1>3. UNCHANGED <<nifs, lookups>>
  BY <1>2 DEF RequestATL, ReleaseATL, ModemCrash, Register, Framework, TakeRequest, TakeRelease,
              ConnectionUp, ConnectionFails, ConnectionLost, NetworkInfo, vars
<1>4. Agnss' = Agnss /\ Internet' = Internet
  BY <1>3 DEF Agnss, Internet
<1>5. /\ \A nif \in Nifs, h \in Handles :
             [type |-> "request", nif |-> nif, handle |-> h] \in Messages \ Grants
      /\ \A h \in Handles : [type |-> "release", handle |-> h] \in Messages \ Grants
      /\ \A type \in {"init", "opened", "failed", "closed"} :
             [type |-> type, nif |-> "agnss"] \in Messages \ Grants
  BY DEF Messages, Grants, Nifs
<1>6. UNCHANGED adapterQ \/ \E m \in Messages \ Grants : adapterQ' = Append(adapterQ, m)
  BY <1>2, <1>5 DEF RequestATL, ReleaseATL, ModemCrash, Register, Framework, TakeRequest,
         TakeRelease, ConnectionUp, ConnectionFails, ConnectionLost, NetworkInfo, vars, Post
<1>7. InternetProgresses'
  BY <1>1, <1>4, <1>6, QuietKeepsInternet
<1>8. NoLateGrants'
  <2>1. Some(adapterQ', Grants) => Some(adapterQ, Grants)
    BY <1>1, <1>6, SomeAppended
  <2> QED BY <1>3, <2>1, AnswersInNextState DEF NoLateGrants
<1>9. AgnssProgresses'
  <2>1. CASE TakeRequest \/ TakeRelease \/ ConnectionUp \/ ConnectionFails \/ ConnectionLost
    BY <1>1, <2>1, FrameworkKeepsAgnss
  <2>2. CASE \/ \E h \in Handles, nif \in Nifs : RequestATL(h, nif)
             \/ \E h \in Handles : ReleaseATL(h)
             \/ ModemCrash \/ Register \/ NetworkInfo \/ UNCHANGED vars
    <3>1. UNCHANGED <<conn, frameworkQ>>
      BY <2>2 DEF RequestATL, ReleaseATL, ModemCrash, Register, NetworkInfo, vars
    <3>2. /\ \A nif \in Nifs, h \in Handles :
                 [type |-> "request", nif |-> nif, handle |-> h] \in Messages \ (Opened \cup Reports)
          /\ \A h \in Handles : [type |-> "release", handle |-> h] \in Messages \ (Opened \cup Reports)
          /\ [type |-> "init", nif |-> "agnss"] \in Messages \ (Opened \cup Reports)
      BY DEF Messages, Opened, Reports, Answers, Nifs
    <3>3. \/ UNCHANGED adapterQ
          \/ \E m \in Messages : m \notin Opened \cup Reports /\ adapterQ' = Append(adapterQ, m)
      BY <2>2, <3>2 DEF RequestATL, ReleaseATL, ModemCrash, Register, NetworkInfo, vars, Post
    <3> QED BY <1>1, <1>4, <3>1, <3>3, QuietKeepsAgnss
  <2> QED BY <1>2, <2>1, <2>2 DEF Framework
<1> QED BY <1>7, <1>8, <1>9

LEMMA InitProgress == Init => Progress
<1> SUFFICES ASSUME Init PROVE AgnssProgresses /\ InternetProgresses /\ NoLateGrants
  BY DEF Progress
<1>1. \A nif \in Nifs : nifs[nif].state = "released"
  BY DEF Init, Fresh
<1>2. Agnss = "released" /\ Internet = "released" /\ conn = "closed" /\ mobile = "none"
  BY <1>1 DEF Init, Agnss, Internet, Nifs
<1>3. \A i \in DOMAIN adapterQ : adapterQ[i].type = "init"
  BY DEF Init
<1>4. \A m \in Opened \cup Failed \cup Closed \cup Reports \cup Grants : m.type # "init"
  BY DEF Opened, Failed, Closed, Reports, Grants, Answers
<1>5. \A E \in {Opened, Failed, Closed, Grants} : ~Some(adapterQ, E)
  BY <1>3, <1>4 DEF Some
<1>6. One(adapterQ, Opened) /\ ~Follows(adapterQ, Reports, Opened)
  BY <1>3, <1>4 DEF One, Follows
<1>7. ~Requested
  BY DEF Init, Requested, Some
<1>8. \A nif \in Nifs : lookups[nif] = 0
  BY DEF Init
<1> QED BY <1>2, <1>5, <1>6, <1>7, <1>8
        DEF AgnssProgresses, InternetProgresses, NoLateGrants, OpenedComes, OpenedOnce, OpenedLate,
            FailedComes, ClosedComes

LEMMA StepProgress == Inv /\ Sessions /\ Progress /\ [Next]_vars => Progress'
<1> SUFFICES ASSUME Inv, Sessions, Progress, [Next]_vars, upsets'.apn = 0, ~wds'
             PROVE  AgnssProgresses' /\ InternetProgresses' /\ NoLateGrants'
  BY DEF Progress
<1>1. upsets \in [loss : Nat, apn : Nat, crash : Nat]
  BY DEF Inv, TypeOK
<1>2. ASSUME NEW what \in {"loss", "apn", "crash"}, Upset(what)
      PROVE  upsets.apn = 0 /\ what # "apn"
  BY <1>1, <1>2 DEF Upset
<1>3. ~ConnectionUpBadApn
  BY <1>2 DEF ConnectionUpBadApn
<1>4. upsets.apn = 0 /\ wds' = wds
  <2>1. UNCHANGED upsets \/ Upset("loss") \/ Upset("apn") \/ Upset("crash")
    BY DEF Next, vars, RequestATL, ReleaseATL, ModemCrash, Adapter, HandleInit, HandleRequest,
           HandleRelease, HandleOpened, HandleGranted, HandleFailed, HandleClosed, WdsAnswers,
           Register, Framework, TakeRequest, TakeRelease, ConnectionUp, ConnectionUpBadApn,
           ConnectionFails, ConnectionLost, NetworkInfo, used
  <2>2. wds' = wds
    BY DEF Next, vars, RequestATL, ReleaseATL, ModemCrash, Adapter, HandleInit, HandleRequest,
           HandleRelease, HandleOpened, HandleGranted, HandleFailed, HandleClosed, WdsAnswers,
           Register, Framework, TakeRequest, TakeRelease, ConnectionUp, ConnectionUpBadApn,
           ConnectionFails, ConnectionLost, NetworkInfo
  <2> QED BY <1>2, <2>1, <2>2
<1>5. /\ OneSession /\ LastWordFits /\ ~wds
      /\ AgnssProgresses /\ InternetProgresses /\ NoLateGrants
  BY <1>4 DEF Sessions, Progress
<1>6. mobile' # "bad_apn"
  <2>1. mobile # "bad_apn"
    BY <1>5 DEF InternetProgresses
  <2>2. CASE NetworkInfo
    BY <1>2, <2>2 DEF NetworkInfo
  <2>3. CASE ~NetworkInfo
    BY <2>1, <2>3 DEF Next, vars, RequestATL, ReleaseATL, ModemCrash, Adapter, HandleInit,
           HandleRequest, HandleRelease, HandleOpened, HandleGranted, HandleFailed, HandleClosed,
           WdsAnswers, Register, Framework, TakeRequest, TakeRelease, ConnectionUp,
           ConnectionUpBadApn, ConnectionFails, ConnectionLost
  <2> QED BY <2>2, <2>3
<1> QED BY <1>3, <1>5, <1>6, AdapterProgresses, OthersProgress DEF Next

(* When everything is handled, no machine still waits *)
LEMMA NobodyWaitsAtRest ==
    ASSUME Inv, OneSession, LastWordFits, AgnssProgresses, InternetProgresses, AtRest,
           NEW nif \in Nifs
    PROVE  nifs[nif].state \in {"released", "acquired"}
<1>1. \A E, F : ~Some(adapterQ, E) /\ ~Follows(adapterQ, E, F)
  BY DEF AtRest, Some, Follows
<1>2. ~Requested /\ frameworkQ = <<>> /\ conn # "opening"
  BY DEF AtRest, Requested, Some
<1>3. Agnss \in States /\ Internet \in States /\ conn \in {"closed", "opening", "open"}
  BY DEF Inv, TypeOK, Agnss, Internet, Nifs
<1>4. Internet \in {"released", "acquired"}
  BY <1>1, <1>3 DEF InternetProgresses, States
<1>5. Agnss # "pending"
  BY <1>1, <1>2, <1>3 DEF AgnssProgresses, OpenedComes, FailedComes, ClosedComes
<1>6. Agnss # "releasing"
  BY <1>1, <1>2 DEF AgnssProgresses, LastWordFits, FailedComes, ClosedComes
<1> QED BY <1>3, <1>4, <1>5, <1>6 DEF Agnss, Internet, Nifs, States

(* In every execution, for any number of handles: a handle is never in the  *)
(* subscriber lists of both machines while the modem does not crash; and    *)
(* when everything is handled, undisturbed by what Agps.cpp does not cope   *)
(* with, AgpsManager and the modem agree on every handle - one that has a   *)
(* connection is active in a machine that holds one, and no request or      *)
(* release of a handle is left without an answer.                           *)
THEOREM AgpsModemAgrees == Spec => []ModemAgrees
<1>1. Inv /\ Sessions /\ HandlesFit /\ Progress => ModemAgrees
  <2> SUFFICES ASSUME Inv, Sessions, HandlesFit, Progress, upsets.crash = 0
               PROVE  ModemAgrees
    BY DEF ModemAgrees, Undisturbed
  <2>1. \A h \in Handles : HandleFits(h) /\ OneMachine(h)
    BY DEF HandlesFit
  <2>2. Members(nifs["agnss"]) \cap Members(nifs["internet"]) = {}
    <3>1. \A nif \in Nifs : Members(nifs[nif]) \subseteq Handles
      BY DEF Inv, TypeOK, Members
    <3> QED BY <2>1, <3>1 DEF OneMachine, Nifs
  <2>3. ASSUME AtRest, Undisturbed, NEW h \in Handles
        PROVE  IF modem[h] = "idle" THEN \A nif \in Nifs : h \notin Members(nifs[nif])
                                    ELSE \E nif \in Nifs : Knows(nifs[nif], h)
    <3>1. OneSession /\ LastWordFits /\ AgnssProgresses /\ InternetProgresses
      BY <2>3 DEF Undisturbed, Sessions, Progress
    <3>2. \A nif \in Nifs : nifs[nif].state \in {"released", "acquired"}
      BY <2>3, <3>1, NobodyWaitsAtRest
    <3>3. \A nif \in Nifs : nifs[nif].active # {} => nifs[nif].state = "acquired"
      BY <3>2 DEF Inv, SubscribersFit, Fits, Members
    <3>4. ~Asks(h) /\ ~GivesBack(h) /\ ~GivesBackLast(h)
      BY <2>3 DEF AtRest, Asks, GivesBack, GivesBackLast, Some, Follows
    <3>5. modem[h] \in Phases
      BY DEF Inv, TypeOK
    <3>6. ~ActiveWaiting(h)
      BY <3>3 DEF ActiveWaiting
    <3>7. CASE modem[h] = "idle"
      BY <2>1, <3>7 DEF HandleFits, Known
    <3>8. CASE modem[h] = "opening"
      BY <2>1, <3>4, <3>6, <3>8 DEF HandleFits
    <3>9. CASE modem[h] = "open"
      BY <2>1, <3>9 DEF HandleFits, ActiveHolding, Knows
    <3>10. CASE modem[h] = "closing"
      BY <2>1, <3>4, <3>10 DEF HandleFits, InactiveIn, Knows
    <3> QED BY <3>5, <3>7, <3>8, <3>9, <3>10 DEF Phases
  <2> QED BY <2>2, <2>3 DEF ModemAgrees
<1> QED BY <1>1, InitInv, StepInv, InitSessions, StepSessions, InitHandles, StepHandles,
           InitProgress, StepProgress, PTL DEF Spec
=============================================================================
