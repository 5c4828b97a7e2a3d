----------------------------- MODULE GnssConfig -----------------------------
(***************************************************************************)
(* The configuration of the GNSS engine (GnssAdapter): the location lock,  *)
(* the SUPL version and server, the satellites that must not be used.      *)
(*                                                                         *)
(* The HAL keeps what the framework asks before its API client exists.     *)
(* Its calls become messages to the adapter thread, which keeps the        *)
(* configuration and passes it on in messages to the LocApi thread, and    *)
(* that calls the engine.  A message for an engine that was never up waits *)
(* in mPendingMsgs.  When the engine comes (back) up it knows nothing, and *)
(* gets everything from what the adapter keeps.                            *)
(*                                                                         *)
(* AGPS_CONFIG_INJECT is 1, servers are SUPL servers, the engine supports  *)
(* constellation enablement, and it is not locked against use itself.      *)
(***************************************************************************)
EXTENDS SvMasks, FiniteSets, SequencesExt

CONSTANTS
    Configs,        \* what the framework may configure: functions from items
    SvConfigs,      \* masks and disabled constellations a client may set at once
    SvTypes,        \* sets of constellations a client may disable
    MaxCalls,       \* bounds the calls of the framework and of clients
    MaxCrashes,     \* bounds how often the engine restarts
    MaxRefusals     \* bounds how often the engine refuses an item

\* The items of a configuration with the order of their flags, which is the order of the
\* ids an update answers with, and the order they are sent to the engine in.  Mutant: the
\* lock is sent last.
IdOrder == [lock |-> 1, version |-> 2, server |-> 3, blacklist |-> 4, extension |-> 5]
EngineOrderLockLast == [server |-> 1, version |-> 2, blacklist |-> 3, extension |-> 4, lock |-> 5]
EngineOrder == [lock |-> 1, server |-> 2, version |-> 3, blacklist |-> 4, extension |-> 5]
Items == {"lock", "version", "server", "blacklist", "extension"}

\* The place of an item among others.
PlaceOf(i, items, order) == Cardinality({j \in items : order[j] <= order[i]})

\* Disabled constellations that were never set.
Unset == {"unset"}

ASSUME GnssConfigAssumption ==
    /\ \A c \in Configs :
        /\ DOMAIN c \subseteq Items /\ DOMAIN c # {}
        /\ "lock" \in DOMAIN c => c["lock"] \subseteq {"MO", "NI"}
        /\ "blacklist" \in DOMAIN c => c["blacklist"] \subseteq Satellites
    /\ \A c \in SvConfigs : c.masks \in [Constellations -> SUBSET Bits]
    /\ \A types \in SvTypes : types \subseteq Constellations
    /\ MaxCalls \in Nat /\ MaxCrashes \in Nat /\ MaxRefusals \in Nat

VARIABLES
    hal,        \* Gnss and its control client: api, enabled, pending, last
    adapter,    \* GnssAdapter: control, nfw, conf, list, masks, svType, known, deferred
    adapterQ,   \* messages to the adapter thread
    apiQ,       \* messages to the LocApi thread
    engine,     \* what the engine was given
    asked,      \* the masks somebody asked for last
    updates,    \* the updates of the control client: items, refused, and the answers
    flags,      \* what happened that the code does not cope with
    counts      \* calls, crashes and refusals so far

vars == <<hal, adapter, adapterQ, apiQ, engine, asked, updates, flags, counts>>

-----------------------------------------------------------------------------

NoConfig == [i \in {} |-> {}]
NoServer == "none"
\* What the engine has when it starts.
FreshEngine == [lock |-> {}, version |-> 0, server |-> NoServer,
                blacklist |-> NoMasks, extension |-> 0]

Init ==
    /\ hal = [api |-> FALSE, enabled |-> FALSE, pending |-> NoConfig, last |-> NoConfig]
    /\ adapter = [control |-> FALSE, nfw |-> TRUE,
                  conf |-> [lock |-> {"MO", "NI"}, version |-> 1, server |-> NoServer],
                  list |-> {}, masks |-> NoMasks, svType |-> Unset,
                  known |-> FALSE, deferred |-> <<>>]
    /\ adapterQ = <<>>
    /\ apiQ = <<>>
    /\ engine = FreshEngine
    /\ asked = NoMasks
    /\ updates = <<>>
    /\ flags = {}
    /\ counts = [calls |-> 0, crashes |-> 0, refusals |-> 0]

Call ==
    /\ counts.calls < MaxCalls
    /\ counts' = [counts EXCEPT !.calls = @ + 1]

-----------------------------------------------------------------------------
(* The HAL and other clients.                                              *)

\* GnssConfiguration: the framework's numbers of satellites become the engine's.
Translated(config) ==
    [i \in DOMAIN config |->
        IF i = "blacklist" THEN {FromFramework(s) : s \in config[i]} ELSE config[i]]

\* gnssUpdateConfigCommand, with the number of the update.
ConfigMessage(config, n) == [kind |-> "config", config |-> config, update |-> n]

NewUpdate(config) ==
    [items |-> DOMAIN config, refused |-> {}, errors |-> <<>>, answers |-> 0]

\* locAPIGnssUpdateConfig: what equals the last configuration is not sent again.
Sent(config) == IF config = hal.last THEN <<>> ELSE <<ConfigMessage(config, Len(updates) + 1)>>
Recorded(config) ==
    updates' = IF config = hal.last THEN updates ELSE Append(updates, NewUpdate(config))

\* setCallback: the first one makes the API client, which sends what is pending (a pending
\* server has lost its name), and each enables it.
Enable(control) == [kind |-> "enable", control |-> control]

SetCallback ==
    LET config == [i \in DOMAIN hal.pending |->
                      IF i = "server" THEN NoServer ELSE hal.pending[i]]
        pends == ~hal.api /\ config # NoConfig
    IN  /\ ~hal.enabled
        /\ Call
        /\ hal' = [hal EXCEPT !.api = TRUE, !.enabled = TRUE, !.pending = NoConfig,
                              !.last = IF pends THEN config ELSE @]
        /\ adapterQ' = adapterQ \o (IF pends THEN Sent(config) ELSE <<>>) \o <<Enable(TRUE)>>
        /\ IF pends THEN Recorded(config) ELSE UNCHANGED updates
        /\ UNCHANGED <<adapter, apiQ, engine, asked, flags>>

\* cleanup
Cleanup ==
    /\ hal.enabled
    /\ Call
    /\ hal' = [hal EXCEPT !.enabled = FALSE]
    /\ adapterQ' = Append(adapterQ, Enable(FALSE))
    /\ UNCHANGED <<adapter, apiQ, engine, asked, updates, flags>>

\* updateConfiguration, once there is an API client and before.
UpdateConfiguration(config) ==
    /\ hal.api
    /\ Call
    /\ hal' = [hal EXCEPT !.last = Translated(config)]
    /\ adapterQ' = adapterQ \o Sent(Translated(config))
    /\ Recorded(Translated(config))
    /\ UNCHANGED <<adapter, apiQ, engine, asked, flags>>

Merged(new, old) ==
    [i \in DOMAIN new \cup DOMAIN old |-> IF i \in DOMAIN new THEN new[i] ELSE old[i]]

KeepPending(config) ==
    /\ ~hal.api
    /\ Call
    /\ hal' = [hal EXCEPT !.pending = Merged(Translated(config), hal.pending)]
    /\ UNCHANGED <<adapter, adapterQ, apiQ, engine, asked, updates, flags>>

\* nfwControlCommand, gnssUpdateSvTypeConfigCommand, gnssResetSvTypeConfigCommand and
\* gnssUpdateSvConfigCommand.
NfwControl(enable) ==
    /\ adapter.nfw
    /\ Call
    /\ adapterQ' = Append(adapterQ, [kind |-> "nfw", enable |-> enable])
    /\ UNCHANGED <<hal, adapter, apiQ, engine, asked, updates, flags>>

UpdateSvTypes(types) ==
    /\ Call
    /\ adapterQ' = Append(adapterQ, [kind |-> "svTypes", types |-> types])
    /\ UNCHANGED <<hal, adapter, apiQ, engine, asked, updates, flags>>

ResetSvTypes ==
    /\ Call
    /\ adapterQ' = Append(adapterQ, [kind |-> "reset"])
    /\ UNCHANGED <<hal, adapter, apiQ, engine, asked, updates, flags>>

UpdateSvConfig(config) ==
    /\ Call
    /\ adapterQ' = Append(adapterQ, [kind |-> "svConfig", masks |-> config.masks,
                                     types |-> config.types])
    /\ UNCHANGED <<hal, adapter, apiQ, engine, asked, updates, flags>>

\* The engine comes up for the first time, or again: what it had is gone.  The messages in
\* mPendingMsgs are sent again each time although the first time deletes them, so that the
\* engine restarts only where there were none.
EngineUp ==
    /\ \/ /\ ~adapter.known
          /\ [kind |-> "engineUp"] \notin ToSet(adapterQ)
          /\ UNCHANGED counts
       \/ /\ adapter.known /\ adapter.deferred = <<>>
          /\ counts.crashes < MaxCrashes
          /\ counts' = [counts EXCEPT !.crashes = @ + 1]
    /\ engine' = FreshEngine
    /\ adapterQ' = Append(adapterQ, [kind |-> "engineUp"])
    /\ UNCHANGED <<hal, adapter, apiQ, asked, updates, flags>>

-----------------------------------------------------------------------------
(* The adapter thread.                                                     *)

SetLock(lock) == [kind |-> "setLock", lock |-> lock]
SetItems(config, needed, n) ==
    [kind |-> "setItems", config |-> config, needed |-> needed, update |-> n]
SetBlacklist(masks) == [kind |-> "setBlacklist", masks |-> masks]

\* A list of satellites is on its way to the LocApi thread, which will keep it for the
\* adapter: what the adapter keeps of satellites until then is old.
ListOnItsWay ==
    \E i \in DOMAIN apiQ : apiQ[i].kind = "setItems" /\ "blacklist" \in DOMAIN apiQ[i].config

\* While the LocApi thread writes the masks, they may be read when they were just cleared.
Read(torn) == IF torn THEN NoMasks ELSE adapter.masks

Handles(kind) == adapterQ # <<>> /\ Head(adapterQ).kind = kind

\* Requests that need an engine that was up are put aside.
NeedsEngine == {"config", "svTypes", "reset"}

Defer ==
    /\ adapterQ # <<>> /\ Head(adapterQ).kind \in NeedsEngine
    /\ ~adapter.known
    /\ adapter' = [adapter EXCEPT !.deferred = Append(@, Head(adapterQ))]
    /\ adapterQ' = Tail(adapterQ)
    /\ UNCHANGED <<hal, apiQ, engine, asked, updates, flags, counts>>

\* MsgEnableGnss: without a mask for network initiated requests, the lock is a state.
HandleEnable ==
    LET lock == IF adapter.nfw THEN adapter.conf.lock \cap {"NI"} ELSE {}
    IN  /\ Handles("enable") /\ Head(adapterQ).control
        /\ IF adapter.control
           THEN UNCHANGED <<adapter, apiQ>>
           ELSE /\ adapter' = [adapter EXCEPT !.control = TRUE,
                                              !.conf.lock = IF adapter.nfw THEN lock ELSE @]
                /\ apiQ' = Append(apiQ, SetLock(lock))
        /\ adapterQ' = Tail(adapterQ)
        /\ UNCHANGED <<hal, engine, asked, updates, flags, counts>>

\* MsgDisableGnss
HandleDisable ==
    LET lock == adapter.conf.lock \cup (IF adapter.nfw THEN {"MO"} ELSE {})
    IN  /\ Handles("enable") /\ ~Head(adapterQ).control
        /\ adapter.control
        /\ adapter' = [adapter EXCEPT !.control = FALSE, !.conf.lock = lock]
        /\ apiQ' = Append(apiQ, SetLock(lock))
        /\ adapterQ' = Tail(adapterQ)
        /\ UNCHANGED <<hal, engine, asked, updates, flags, counts>>

\* MsgControlNfwLocationAccess does not look again whether the lock is still a state.
HandleNfw ==
    LET lock == IF Head(adapterQ).enable THEN adapter.conf.lock \ {"NI"}
                ELSE adapter.conf.lock \cup {"NI"}
    IN  /\ Handles("nfw")
        /\ adapter' = [adapter EXCEPT !.conf.lock = lock]
        /\ apiQ' = Append(apiQ, SetLock(lock))
        /\ flags' = flags \cup (IF adapter.nfw THEN {} ELSE {"late nfw"})
        /\ adapterQ' = Tail(adapterQ)
        /\ UNCHANGED <<hal, engine, asked, updates, counts>>

\* MsgGnssUpdateConfig: the lock becomes a mask for network initiated requests, and is not
\* sent while location is on, except the first time, which opens it for them.
LockOf(config) ==
    IF ~adapter.control THEN config["lock"] \cup {"MO"}
    ELSE IF adapter.nfw THEN {} ELSE config["lock"] \cup {"MO"}
NotNeeded(config) == IF "lock" \in DOMAIN config /\ adapter.control /\ ~adapter.nfw THEN {"lock"} ELSE {}

Requested(config) ==
    [i \in DOMAIN config |-> IF i = "lock" THEN LockOf(config) ELSE config[i]]

Kept(config) ==
    [i \in DOMAIN adapter.conf |->
        IF i \notin DOMAIN config THEN adapter.conf[i]
        ELSE IF i = "lock" THEN config[i] \cup {"MO"} ELSE config[i]]

HandleConfig ==
    LET msg == Head(adapterQ)
        config == msg.config
    IN  /\ Handles("config") /\ adapter.known
        /\ adapter' = [adapter EXCEPT !.conf = Kept(config),
                                      !.nfw = @ /\ "lock" \notin DOMAIN config]
        /\ apiQ' = Append(apiQ, SetItems(Requested(config), DOMAIN config \ NotNeeded(config),
                                         msg.update))
        /\ IF "blacklist" \in DOMAIN config
           THEN /\ asked' = ToMasks(config["blacklist"])
                /\ flags' = flags \ {"overtaken"}
           ELSE UNCHANGED <<asked, flags>>
        /\ adapterQ' = Tail(adapterQ)
        /\ UNCHANGED <<hal, engine, updates, counts>>

Overtakes == flags' = flags \cup (IF ListOnItsWay THEN {"overtaken"} ELSE {})

\* gnssSvTypeConfigUpdate
TypedBlacklist(masks, types) ==
    IF types = Unset THEN <<>> ELSE <<SetBlacklist(WithAllOf(masks, types))>>

HandleSvTypes ==
    LET types == Head(adapterQ).types
    IN  /\ Handles("svTypes") /\ adapter.known
        /\ adapter' = [adapter EXCEPT !.svType = types]
        /\ apiQ' = apiQ \o TypedBlacklist(adapter.masks, types)
        /\ Overtakes
        /\ adapterQ' = Tail(adapterQ)
        /\ UNCHANGED <<hal, engine, asked, updates, counts>>

\* MsgGnssResetSvTypeConfig
HandleReset ==
    /\ Handles("reset") /\ adapter.known
    /\ adapter' = [adapter EXCEPT !.svType = {}]
    /\ apiQ' = Append(apiQ, SetBlacklist(adapter.masks))
    /\ Overtakes
    /\ adapterQ' = Tail(adapterQ)
    /\ UNCHANGED <<hal, engine, asked, updates, counts>>

\* gnssUpdateSvConfig keeps the masks as a list too, for a restart of the engine.
KeptSvList(masks) == ToList(masks)

HandleSvConfig ==
    LET msg == Head(adapterQ)
    IN  /\ Handles("svConfig")
        /\ adapter' = [adapter EXCEPT !.svType = msg.types, !.masks = msg.masks,
                                      !.list = KeptSvList(msg.masks)]
        /\ apiQ' = Append(apiQ, SetBlacklist(msg.masks))
        /\ asked' = msg.masks
        /\ flags' = (flags \ {"overtaken"}) \cup (IF ListOnItsWay THEN {"overtaken"} ELSE {})
        /\ adapterQ' = Tail(adapterQ)
        /\ UNCHANGED <<hal, engine, updates, counts>>

\* Mutant: the lock is always a state.
RestoredLockState == adapter.conf.lock
\* setConfig: with a lock that is a mask, it counts only while location is off.
RestoredLock == IF adapter.nfw \/ ~adapter.control THEN adapter.conf.lock ELSE {}

Restored == [i \in DOMAIN adapter.conf \cup {"blacklist"} |->
                IF i = "lock" THEN RestoredLock
                ELSE IF i = "blacklist" THEN adapter.list ELSE adapter.conf[i]]

\* MsgHandleEngineUpEvent: the configuration, the masks, what the constellations make of
\* them, then the messages that waited.  The LocApi thread may clear the masks to write
\* them at the moment they are read.
HandleEngineUp(torn) ==
    /\ Handles("engineUp")
    /\ adapter' = [adapter EXCEPT !.known = TRUE]
    /\ apiQ' = apiQ \o <<SetItems(Restored, DOMAIN Restored, 0), SetBlacklist(Read(torn))>>
                    \o TypedBlacklist(Read(torn), adapter.svType)
    /\ flags' = flags \cup (IF ListOnItsWay \/ torn THEN {"overtaken"} ELSE {})
    /\ adapterQ' = Tail(adapterQ) \o adapter.deferred
    /\ UNCHANGED <<hal, engine, asked, updates, counts>>

\* reportResponse: the errors of the items, each with the id of its place.
Answered(update, errors) ==
    [items |-> update.items, refused |-> update.refused,
     errors |-> errors, answers |-> update.answers + 1]

HandleAnswer ==
    LET msg == Head(adapterQ)
    IN  /\ Handles("answer")
        /\ updates' = [updates EXCEPT ![msg.update] = Answered(@, msg.errors)]
        /\ adapterQ' = Tail(adapterQ)
        /\ UNCHANGED <<hal, adapter, apiQ, engine, asked, flags, counts>>

-----------------------------------------------------------------------------
(* The LocApi thread.                                                      *)

\* The engine may refuse an item; what was refused stays so until it is taken.
Refuses(items, refused) ==
    /\ counts.refusals + Cardinality(refused) <= MaxRefusals
    /\ counts' = [counts EXCEPT !.refusals = @ + Cardinality(refused)]
    /\ flags' = (flags \ items) \cup refused

\* setGpsLockSync and setBlacklistSv on their own; nobody hears of a refusal.
SetOne(item, kind, val) ==
    \E refused \in SUBSET {item} :
        /\ apiQ # <<>> /\ Head(apiQ).kind = kind
        /\ Refuses({item}, refused)
        /\ engine' = IF refused = {} THEN [engine EXCEPT ![item] = val] ELSE engine
        /\ apiQ' = Tail(apiQ)
        /\ UNCHANGED <<hal, adapter, adapterQ, asked, updates>>

ApplyLock == SetOne("lock", "setLock", Head(apiQ).lock)
ApplyBlacklist == SetOne("blacklist", "setBlacklist", Head(apiQ).masks)

\* gnssUpdateConfig: errsList has an entry for each requested item, in the order of the calls
\* of the engine.
ErrorsOf(config, refused) ==
    [k \in 1..Cardinality(DOMAIN config) |->
        \E i \in refused : PlaceOf(i, DOMAIN config, EngineOrder) = k]

\* The calls of the engine for the items that need them; a list of satellites is kept as
\* masks, and also when the engine refuses it.
ApplyItems ==
    LET msg == Head(apiQ)
        config == msg.config
        masks == ToMasks(config["blacklist"])
    IN  /\ apiQ # <<>> /\ msg.kind = "setItems"
        /\ \E refused \in SUBSET msg.needed :
            /\ Refuses(msg.needed, refused)
            /\ engine' = [i \in Items |->
                             IF i \notin msg.needed \ refused THEN engine[i]
                             ELSE IF i = "blacklist" THEN masks ELSE config[i]]
            /\ adapter' = IF "blacklist" \in DOMAIN config
                          THEN [adapter EXCEPT !.list = config["blacklist"], !.masks = masks]
                          ELSE adapter
            /\ IF msg.update = 0
               THEN UNCHANGED <<adapterQ, updates>>
               ELSE /\ adapterQ' = Append(adapterQ, [kind |-> "answer", update |-> msg.update,
                                                     errors |-> ErrorsOf(config, refused)])
                    /\ updates' = [updates EXCEPT ![msg.update].refused = refused]
        /\ apiQ' = Tail(apiQ)
        /\ UNCHANGED <<hal, asked>>

-----------------------------------------------------------------------------

Callers ==
    \/ SetCallback
    \/ Cleanup
    \/ \E config \in Configs : UpdateConfiguration(config) \/ KeepPending(config)
    \/ \E enable \in BOOLEAN : NfwControl(enable)
    \/ \E types \in SvTypes : UpdateSvTypes(types)
    \/ ResetSvTypes
    \/ \E config \in SvConfigs : UpdateSvConfig(config)

AdapterThread ==
    \/ Defer
    \/ HandleEnable
    \/ HandleDisable
    \/ HandleNfw
    \/ HandleConfig
    \/ HandleSvTypes
    \/ HandleReset
    \/ HandleSvConfig
    \/ \E torn \in BOOLEAN : HandleEngineUp(torn)
    \/ HandleAnswer

LocApiThread == ApplyLock \/ ApplyBlacklist \/ ApplyItems

\* Every call was made and handled.
Done ==
    /\ adapterQ = <<>> /\ apiQ = <<>>
    /\ counts.calls = MaxCalls
    /\ UNCHANGED vars

Next == Callers \/ EngineUp \/ AdapterThread \/ LocApiThread \/ Done

Spec == Init /\ [][Next]_vars

-----------------------------------------------------------------------------
(* Properties.                                                             *)

\* Nothing is on its way.
Rest == adapterQ = <<>> /\ apiQ = <<>> /\ adapter.known

\* What the HAL and the adapter keep can be what they hold.
TypeOK ==
    /\ hal.enabled => hal.api
    /\ DOMAIN hal.pending \subseteq Items /\ DOMAIN hal.last \subseteq Items
    /\ adapter.conf["lock"] \subseteq {"MO", "NI"}
    /\ \A c \in Constellations : adapter.masks[c] \subseteq Bits /\ engine.blacklist[c] \subseteq Bits
    /\ flags \subseteq Items \cup {"late nfw", "overtaken"}
    /\ \A n \in DOMAIN updates : updates[n].answers \in {0, 1}

\* The engine ends up with the lock that the adapter keeps: as it is while it is a state,
\* and only while location is off once it is a mask for network initiated requests.  The
\* framework's callbacks, its locks, a restart of the engine and the first lock, which
\* turns the one into the other, come in any order (GnssAdapter.cpp:903-921, 1314-1345).
LockIsKept ==
    engine.lock = IF adapter.nfw \/ ~adapter.control THEN adapter.conf.lock ELSE {}

\* The engine locates for the phone exactly while the framework has location on.
LocationOffIsLocked == "MO" \in engine.lock <=> ~hal.enabled

\* At rest the engine is locked as the framework and its callbacks want it (the lock's
\* whole way, from GnssVisibilityControl to LocApiBase::setGpsLock).
LockServed ==
    Rest /\ flags \cap {"lock", "late nfw"} = {} => LockIsKept /\ LocationOffIsLocked

\* The engine ends up with the last SUPL version and server, also when it restarted before
\* or while they were set.
AgpsServed ==
    Rest => \A i \in {"version", "server"} \ flags : engine[i] = adapter.conf[i]

\* The engine ends up without the satellites that were asked for last, in whichever of the
\* two ways, and with all others but those of a disabled constellation, also after a
\* restart, for which the adapter keeps a list instead of masks.  Not so where what it kept
\* was read while a list was on its way to the LocApi thread.
BlacklistServed ==
    Rest /\ flags \cap {"blacklist", "overtaken"} = {} =>
        /\ IsWithin(asked, engine.blacklist)
        /\ IsWithin(engine.blacklist,
                    WithAllOf(asked, IF adapter.svType = Unset THEN {} ELSE adapter.svType))

\* A setting outlives the restarts of the engine.
SettingsServed == AgpsServed /\ BlacklistServed

\* Every update is answered, and each of its ids tells the fate of its own item.  Not so
\* where version and server are set together: the engine is called for them in another
\* order (LocationAPI.h:244-246).
AnswersFit ==
    \A n \in DOMAIN updates :
        LET items == updates[n].items
        IN  /\ Rest => updates[n].answers = 1
            /\ updates[n].answers = 1 /\ ~({"version", "server"} \subseteq items) =>
                   updates[n].errors = [k \in 1..Cardinality(items) |->
                       \E i \in updates[n].refused : PlaceOf(i, items, IdOrder) = k]

=============================================================================
