-------------------------------- MODULE Nmea --------------------------------
(***************************************************************************)
(* The GnssAdapter as the source of NMEA (NMEA_PROVIDER is the AP): which  *)
(* reports of the engine become sentences, and how the satellites of a     *)
(* report are spread over the GSV sentences, one after the other.          *)
(*                                                                         *)
(* All of it runs on the thread of the adapter.  The steps of a report of  *)
(* satellites are those of loc_nmea_generate_GSV's loop.                   *)
(***************************************************************************)
EXTENDS NmeaSentences

CONSTANTS
    FixReports,     \* the fixes that are reported
    SvReports,      \* the reports of satellites: sequences
    LeapReports,    \* what the engine reports of leap seconds
    AtEveryFix,     \* sNmeaReportRate is NHZ, or fixes come no faster than once a second
    CustomQuality,  \* CUSTOM_NMEA_GGA_FIX_QUALITY_ENABLED
    TagBlocks,      \* NMEA_TAG_BLOCK_GROUPING_ENABLED
    NearSecond,     \* NMEA_MIN_THRESHOLD_MSEC
    FullSecond      \* NMEA_MAX_THRESHOLD_MSEC

VARIABLES
    tracking,       \* is there a time-based session
    leap,           \* mLocSystemInfo.leapSecondSysInfo
    lastTime,       \* mPrevNmeaRptTimeNsec, in milliseconds
    marks,          \* mGnssSvIdUsedInPosition and mGnssMbSvIdUsedInPosition
    position,       \* the sentences of the fix reported last, if there were any
    report,         \* the satellites of the report under way
    group,          \* the group of sentences under way, 0 if there is none
    number,         \* sentenceNumber
    next,           \* svNumber
    offset,         \* svIdOffset
    line,           \* the satellites of the sentence under way, by their places in the report
    sentences,      \* the sentences of the report so far
    names           \* the numbers its satellites were given in them

positionVars == <<tracking, leap, lastTime, marks, position>>
svVars == <<report, group, number, next, offset, line, sentences, names>>
nmeaVars == <<tracking, leap, lastTime, marks, position, report, group, number, next, offset, line,
          sentences, names>>

NoMask == [c \in Masked |-> {}]
NoBands == [s \in Signals |-> {}]
NoMarks == [available |-> FALSE, multiband |-> FALSE, used |-> NoMask, bands |-> NoBands]
NoPosition == [gsa |-> {}, others |-> <<>>]

NmeaInit ==
    /\ tracking = FALSE
    /\ leap = [known |-> FALSE, change |-> 0, before |-> 0, after |-> 0]
    /\ lastTime = 0
    /\ marks = NoMarks
    /\ position = NoPosition
    /\ report = <<>> /\ sentences = {} /\ names = {}
    /\ group = 0 /\ number = 1 /\ next = 1 /\ offset = 0 /\ line = {}

Idle == group = 0

\* The first time-based session starts: its first fix is shown (startTimeBasedTrackingMultiplex).
StartSession ==
    /\ Idle /\ ~tracking
    /\ tracking' = TRUE
    /\ lastTime' = 0
    /\ UNCHANGED <<leap, marks, position, svVars>>

\* The last one stops (eraseTrackingSession).
StopSession ==
    /\ Idle /\ tracking
    /\ tracking' = FALSE
    /\ UNCHANGED <<leap, lastTime, marks, position, svVars>>

\* reportLocationSystemInfo: what is known of a change of the leap seconds stays when the engine
\* no longer reports it.
ReportLeapSecond ==
    /\ Idle
    /\ \E info \in LeapReports : leap' = IF info.known THEN info ELSE leap
    /\ UNCHANGED <<tracking, lastTime, marks, position, svVars>>

-----------------------------------------------------------------------------
(* Positions.                                                              *)

\* needToGenerateNmeaReport: the first fix, those near a second of GPS time, and those that
\* come about a second after the last.  A clock that went back counts as that.
NeedsNmea(fix) ==
    /\ tracking
    /\ \/ AtEveryFix
       \/ lastTime = 0
       \/ fix.time.gps % Week # 0 /\ fix.time.gps % Second <= NearSecond
       \/ fix.time.ap < lastTime \/ fix.time.ap - lastTime >= FullSecond

\* loc_nmea_generate_pos: blank sentences stand for a fix that failed, has no position or is
\* not for clients of the GNSS API.
BlankPosition ==
    [gsa |-> {NoGsa},
     others |-> [i \in DOMAIN BlankKinds |-> [kind |-> BlankKinds[i], talker |-> "gps"]]]

Sentences(fix) ==
    IF fix.good /\ fix.clients = "gnss"
    THEN [gsa |-> GsaOf(fix.used, TagBlocks),
          others |-> PositionSentences(fix, leap, CustomQuality)]
    ELSE BlankPosition

\* The satellites of a fix for which there is a client are kept for the report of satellites
\* that follows.
MarksOf(fix) ==
    IF fix.clients = "none" THEN marks
    ELSE [available |-> fix.clients = "gnss" /\ fix.hasUsed,
          multiband |-> fix.clients = "gnss" /\ fix.hasUsed /\ fix.hasBands,
          used |-> IF fix.clients = "gnss" /\ fix.hasUsed THEN fix.used ELSE marks.used,
          bands |-> IF fix.clients = "gnss" /\ fix.hasUsed /\ fix.hasBands THEN fix.bands
                    ELSE marks.bands]

\* reportPosition, of a fix for clients of the GNSS API, of others only, or of none.
ReportPosition ==
    /\ Idle
    /\ \E fix \in FixReports :
          /\ marks' = MarksOf(fix)
          /\ position' = IF NeedsNmea(fix) THEN Sentences(fix) ELSE NoPosition
          /\ lastTime' = IF NeedsNmea(fix) THEN fix.time.ap ELSE lastTime
    /\ UNCHANGED <<tracking, leap, svVars>>

-----------------------------------------------------------------------------
(* Satellites.                                                             *)

\* The mask a satellite is looked up in, and its bit.
MaskFor(sv) ==
    IF ~marks.available \/ sv.type = "sbas" THEN {}
    ELSE IF marks.multiband /\ sv.type # "navic"
    THEN IF sv.signal = "none" THEN {} ELSE marks.bands[sv.signal]
    ELSE marks.used[sv.type]

Bit(sv) == sv.svId - PrnMin[sv.type] + 1

\* reportSv: the satellites of the fix before are marked; marks of the engine stay.
IsMarked(sv) == sv.used \/ (MaskFor(sv) # {} /\ Bit(sv) \in MaskFor(sv))

Marked(svs) == [i \in DOMAIN svs |-> [svs[i] EXCEPT !.used = IsMarked(svs[i])]]

Unmarked == [marks EXCEPT !.available = FALSE, !.multiband = FALSE]

\* The satellites are given to the clients and, in a session, become sentences.
ReportSv ==
    /\ Idle
    /\ \E svs \in SvReports : report' = Marked(svs)
    /\ IF tracking THEN group' = 1 /\ UNCHANGED marks ELSE marks' = Unmarked /\ UNCHANGED group
    /\ number' = 1 /\ next' = 1 /\ offset' = OffsetOf(1)
    /\ line' = {} /\ sentences' = {} /\ names' = {}
    /\ UNCHANGED <<tracking, leap, lastTime, position>>

Making == group \in DOMAIN Groups

\* The count in the sentences of a group, and how many sentences it makes.
Counted(g) == Cardinality({i \in DOMAIN report : IsCounted(report[i], g)})
SvsPerSentence == 4
Total(g) == (Counted(g) + SvsPerSentence - 1) \div SvsPerSentence

NextGroup ==
    /\ group' = group + 1
    /\ number' = 1 /\ next' = 1
    /\ offset' = IF group < Len(Groups) THEN OffsetOf(group + 1) ELSE 0

\* A group without satellites has no sentences.
SkipGroup ==
    /\ Making /\ Counted(group) = 0
    /\ NextGroup
    /\ UNCHANGED <<positionVars, report, line, sentences, names>>

IsFull == next > Len(report) \/ Cardinality(line) = SvsPerSentence

\* The next satellite of the report goes into the sentence, or does not belong into it.  From
\* one of SBAS on the numbers have the offset of SBAS.
LookAtSv ==
    /\ Making /\ Counted(group) # 0 /\ ~IsFull
    /\ LET sv == report[next]
       IN  IF IsShown(sv, group)
           THEN /\ offset' = IF sv.type = "sbas" THEN OwnOffset["sbas"] ELSE offset
                /\ line' = line \cup {next}
                /\ names' = names \cup
                      {[group |-> group, at |-> next,
                        number |-> IF sv.type = "glo" /\ sv.svId = UnknownSlot THEN 0
                                   ELSE sv.svId - offset']}
           ELSE UNCHANGED <<offset, line, names>>
    /\ next' = next + 1
    /\ UNCHANGED <<positionVars, report, group, number, sentences>>

\* The sentence is ready.
EndSentence ==
    /\ Making /\ Counted(group) # 0 /\ IsFull
    /\ sentences' = sentences \cup
          {[group |-> group, number |-> number, total |-> Total(group),
            count |-> Counted(group), svs |-> line]}
    /\ line' = {}
    /\ IF number = Total(group) THEN NextGroup
       ELSE number' = number + 1 /\ UNCHANGED <<group, next, offset>>
    /\ UNCHANGED <<positionVars, report, names>>

\* All groups are through; the marks have been used.
EndReport ==
    /\ group = Len(Groups) + 1
    /\ group' = 0
    /\ marks' = Unmarked
    /\ UNCHANGED <<tracking, leap, lastTime, position, report, number, next, offset, line,
                   sentences, names>>

NmeaNext ==
    \/ StartSession \/ StopSession \/ ReportLeapSecond \/ ReportPosition
    \/ ReportSv \/ SkipGroup \/ LookAtSv \/ EndSentence \/ EndReport

NmeaSpec == NmeaInit /\ [][NmeaNext]_nmeaVars

-----------------------------------------------------------------------------
(* Properties.                                                             *)

Masks == SUBSET (1..64)

\* Fixes, with the masks of the satellites that are used empty where they are not known.
FixKind ==
    [clients : {"gnss", "others", "none"}, good : BOOLEAN, hasUsed : BOOLEAN, hasBands : BOOLEAN,
     used : [Masked -> Masks], bands : [Signals -> Masks], hasPosition : BOOLEAN,
     nav : SUBSET CorrectionSet, tech : SUBSET {"satellite", "sensors"},
     time : [hasGps : BOOLEAN, gps : Nat, stamp : Nat, ap : Nat]]

\* Every variable has its type.
NmeaTypeOK ==
    /\ tracking \in BOOLEAN
    /\ leap \in LeapSeconds
    /\ lastTime \in Nat
    /\ marks \in [available : BOOLEAN, multiband : BOOLEAN, used : [Masked -> Masks],
                  bands : [Signals -> Masks]]
    /\ report \in Seq(Satellites)
    /\ group \in 0..(Len(Groups) + 1)
    /\ number \in Nat \ {0} /\ next \in Nat \ {0} /\ offset \in Nat
    /\ line \subseteq DOMAIN report
    /\ sentences \subseteq [group : DOMAIN Groups, number : Nat \ {0}, total : Nat, count : Nat,
                            svs : SUBSET DOMAIN report]
    /\ names \subseteq [group : DOMAIN Groups, at : DOMAIN report, number : Int]

Shown(g) == {i \in DOMAIN report : IsShown(report[i], g)}
Of(g) == {s \in sentences : s.group = g}

\* The groups that the report under way is through with.
Ended == {g \in DOMAIN Groups : g < group}

\* Whatever order satellites are reported in, and although the sentences of a group are
\* counted before it is known which satellites go into them, by another test: each satellite
\* of a group is in exactly one of its sentences, and none has more than four.
SvsShownOnce ==
    /\ \A g \in Ended : Shown(g) = UNION {s.svs : s \in Of(g)}
    /\ \A s, t \in sentences : s.group = t.group /\ s # t => s.svs \cap t.svs = {}
    /\ \A s \in sentences : Cardinality(s.svs) <= SvsPerSentence

\* A receiver of the sentences can tell when it has all of a group: they are numbered from 1
\* to the total that each of them states, and none is missing or comes twice.
NumberedThrough ==
    /\ \A g \in Ended : {s.number : s \in Of(g)} = 1..Total(g)
    /\ \A s \in sentences : s.total = Total(s.group) /\ s.count = Counted(s.group)
    /\ \A s, t \in sentences : s.group = t.group /\ s.number = t.number => s = t

\* The groups do not overlap: a satellite is shown once in a report.
InOneGroup ==
    \A s, t \in sentences : s.svs \cap t.svs # {} => s = t

\* A satellite is shown by the number that NMEA knows it by, unless it is one of GPS that
\* comes after one of SBAS.
NamedByNumber ==
    \A n \in names :
        LET sv == report[n.at]
        IN  \/ n.number = sv.svId - OwnOffset[sv.type]
            \/ sv.type = "glo" /\ sv.svId = UnknownSlot /\ n.number = 0
            \/ /\ sv.type = "gps"
               /\ \E i \in Shown(n.group) : i < n.at /\ report[i].type = "sbas"

\* What a GSA calls the satellites that are used is what the GSVs after it call them.
MarkedByName ==
    \A n \in names :
        LET sv == report[n.at]
        IN  /\ Making /\ marks.available /\ ~marks.multiband /\ sv.type \in Listed
            /\ Bit(sv) \in marks.used[sv.type] 
            => \/ n.number = GsaNumber(sv.type, Bit(sv))
               \/ /\ sv.type = "gps"
                  /\ \E i \in Shown(n.group) : i < n.at /\ report[i].type = "sbas"
=============================================================================
