--------------------------- MODULE NmeaSentences ---------------------------
(***************************************************************************)
(* The NMEA sentences that are made on the application processor           *)
(* (loc_nmea.cpp): which satellites, fields and indicators are in them.    *)
(* A mask is the set of the numbers, from 1, of the bits that are set; a   *)
(* sentence is a record of what its fields depend on.  Pure operators.     *)
(***************************************************************************)
EXTENDS Integers, Sequences, FiniteSets

CONSTANT UtcGpsOffset   \* UTC_GPS_OFFSET_MSECS

Second == 1000
Day == 86400 * Second
Week == 7 * Day

-----------------------------------------------------------------------------
(* Satellites.                                                             *)

\* Constellations with a mask of the satellites that are used in a fix.
Masked == {"gps", "glo", "gal", "bds", "qzss", "navic"}
Types == Masked \cup {"sbas"}

SignalsOf ==
    [gps |-> {"GPS_L1CA", "GPS_L1C", "GPS_L2", "GPS_L5"},
     glo |-> {"GLO_G1", "GLO_G2"},
     gal |-> {"GAL_E1", "GAL_E5A", "GAL_E5B"},
     bds |-> {"BDS_B1I", "BDS_B1C", "BDS_B2I", "BDS_B2AI", "BDS_B2AQ"},
     qzss |-> {"QZSS_L1CA", "QZSS_L1S", "QZSS_L2", "QZSS_L5"},
     navic |-> {"NAVIC_L5"},
     sbas |-> {"SBAS_L1"}]

Signals == UNION {SignalsOf[t] : t \in Types}

\* A satellite of a report: it may come without a signal.
Satellites ==
    {sv \in [type : Types, signal : {"none"} \cup Signals,
             svId : Nat, used : BOOLEAN] :
        sv.signal \in {"none"} \cup SignalsOf[sv.type]}

DefaultSignal ==
    [gps |-> "GPS_L1CA", glo |-> "GLO_G1", gal |-> "GAL_E1", bds |-> "BDS_B1I",
     qzss |-> "QZSS_L1CA", navic |-> "NAVIC_L5", sbas |-> "SBAS_L1"]

\* convert_signalType_to_signalId: 0 for signals that NMEA has no id for here.
SignalId(signal) ==
    CASE signal \in {"GPS_L1CA", "SBAS_L1", "GLO_G1", "GAL_E5A", "QZSS_L1CA", "BDS_B1I",
                     "NAVIC_L5"} -> 1
      [] signal = "GAL_E5B" -> 2
      [] signal \in {"GLO_G2", "BDS_B1C"} -> 3
      [] signal \in {"BDS_B2AI", "BDS_B2AQ"} -> 5
      [] signal \in {"GPS_L2", "QZSS_L2"} -> 6
      [] signal = "GAL_E1" -> 7
      [] signal \in {"GPS_L5", "QZSS_L5"} -> 8
      [] signal = "BDS_B2I" -> 11
      [] OTHER -> 0

\* The groups of GSV sentences in their order: whose satellites, of which signal, and the
\* signals that loc_nmea_generate_sv counts for them.
Groups ==
    <<[types |-> {"gps", "sbas"}, signal |-> "GPS_L1CA", counts |-> {"none", "GPS_L1CA", "GPS_L1C", "SBAS_L1"}],
      [types |-> {"gps", "sbas"}, signal |-> "GPS_L5", counts |-> {"GPS_L5"}],
      [types |-> {"gps", "sbas"}, signal |-> "GPS_L2", counts |-> {"GPS_L2"}],
      [types |-> {"glo"}, signal |-> "GLO_G1", counts |-> {"none", "GLO_G1"}],
      [types |-> {"glo"}, signal |-> "GLO_G2", counts |-> {"GLO_G2"}],
      [types |-> {"gal"}, signal |-> "GAL_E1", counts |-> {"none", "GAL_E1"}],
      [types |-> {"gal"}, signal |-> "GAL_E5A", counts |-> {"GAL_E5A"}],
      [types |-> {"gal"}, signal |-> "GAL_E5B", counts |-> {"GAL_E5B"}],
      [types |-> {"qzss"}, signal |-> "QZSS_L1CA", counts |-> {"none", "QZSS_L1CA", "QZSS_L1S"}],
      [types |-> {"qzss"}, signal |-> "QZSS_L5", counts |-> {"QZSS_L5"}],
      [types |-> {"qzss"}, signal |-> "QZSS_L2", counts |-> {"QZSS_L2"}],
      [types |-> {"bds"}, signal |-> "BDS_B1I", counts |-> {"none", "BDS_B1I", "BDS_B2I"}],
      [types |-> {"bds"}, signal |-> "BDS_B1C", counts |-> {"BDS_B1C"}],
      [types |-> {"bds"}, signal |-> "BDS_B2AI", counts |-> {"BDS_B2AI", "BDS_B2AQ"}],
      [types |-> {"navic"}, signal |-> "NAVIC_L5", counts |-> {"none", "NAVIC_L5"}]>>

IsCounted(sv, g) == sv.type \in Groups[g].types /\ sv.signal \in Groups[g].counts

\* loc_nmea_generate_GSV's test whether a satellite belongs into the sentences of a group.
IsShown(sv, g) ==
    /\ sv.type \in Groups[g].types
    /\ SignalId(IF sv.signal = "none" THEN DefaultSignal[sv.type] ELSE sv.signal)
           = SignalId(Groups[g].signal)

\* What is subtracted from an id to have the number that NMEA knows a satellite by; nothing
\* is from those of GLONASS, whose ids are these numbers.
OwnOffset == [gps |-> 0, glo |-> 0, gal |-> 300, bds |-> 200, qzss |-> 192, navic |-> 400, sbas |-> 87]

\* svIdOffset at the beginning of a group.
OffsetOf(g) ==
    OwnOffset[CHOOSE t \in Types \ {"sbas"} : t \in Groups[g].types]

\* ..._SV_PRN_MIN: the id that is bit 1 of a mask.
PrnMin == [gps |-> 1, glo |-> 65, gal |-> 301, bds |-> 201, qzss |-> 193, navic |-> 401]
PrnMax == [gps |-> 32, glo |-> 96, gal |-> 336, bds |-> 263, qzss |-> 197, navic |-> 414]
UnknownSlot == 255

-----------------------------------------------------------------------------
(* Satellites in use: GSA.                                                 *)

PageSize == 12

\* The constellations that have GSA sentences, in their order.
GsaOrder == <<"gps", "glo", "gal", "bds", "qzss">>
Listed == {"gps", "glo", "gal", "bds", "qzss"}

\* How many constellations are used: more than one talk as GN.
Talker(used, c) ==
    IF Cardinality({d \in Masked : used[d] # {}}) > 1 THEN "combined" ELSE c

\* The number a bit of a mask is listed as.
GsaNumber(c, bit) == IF c = "glo" THEN bit + 64 ELSE bit

\* The place of a bit among those that are set, and the sentence it is in.
Rank(mask, bit) == Cardinality({b \in mask : b <= bit})
Page(mask, k) == {bit \in mask : PageSize * (k - 1) < Rank(mask, bit) /\ Rank(mask, bit) <= PageSize * k}
PagesOf(mask) == (Cardinality(mask) + PageSize - 1) \div PageSize

\* totalSvUsedCount: bits beyond the ids of a constellation do not count.
FixDimension(used) ==
    LET total == Cardinality({sv \in Masked \X (1..64) :
                    sv[2] \in used[sv[1]] /\ sv[2] <= PrnMax[sv[1]] - PrnMin[sv[1]] + 1})
    IN  IF total = 0 THEN 1 ELSE IF total <= 3 THEN 2 ELSE 3

\* loc_nmea_generate_GSA: one sentence for every 12 satellites, but only the first where tag
\* blocks do not hold them together.
GsaSentences(used, c, grouping) ==
    {[kind |-> "GSA", talker |-> Talker(used, c), fixType |-> FixDimension(used), page |-> k,
      numbers |-> {GsaNumber(c, bit) : bit \in Page(used[c], k)}, system |-> c] :
        k \in {k \in 1..PagesOf(used[c]) : k = 1 \/ grouping}}

NoGsa == [kind |-> "GSA", talker |-> "gps", fixType |-> 1, page |-> 1, numbers |-> {}, system |-> "gps"]

\* All of them, and how many satellites they stand for; one that lists none if there are none.
Used(used) == {sv \in Listed \X (1..64) : sv[2] \in used[sv[1]]}
GsaOf(used, grouping) ==
    IF Used(used) = {} THEN {NoGsa}
    ELSE UNION {GsaSentences(used, c, grouping) : c \in Listed}

\* Who talks in the sentences that follow: the last constellation that had a GSA.
PositionTalker(used) ==
    IF Used(used) = {} THEN "gps"
    ELSE LET last == CHOOSE i \in 1..5 :
                         /\ used[GsaOrder[i]] # {}
                         /\ \A j \in 1..5 : i < j => used[GsaOrder[j]] = {}
         IN  Talker(used, GsaOrder[last])

-----------------------------------------------------------------------------
(* The kind of a fix: GGA, RMC, VTG and GNS say it in their own ways.       *)

\* What a correction is called in each.
Corrections == <<"ppp", "rtkFixed", "rtk", "dgnss", "sbasIono">>
CorrectionSet == {Corrections[i] : i \in DOMAIN Corrections}
GgaOf == [ppp |-> <<2>>, rtkFixed |-> <<4>>, rtk |-> <<5>>, dgnss |-> <<2>>, sbasIono |-> <<2>>]
RmcOf == [ppp |-> "P", rtkFixed |-> "R", rtk |-> "F", dgnss |-> "D", sbasIono |-> "D"]
VtgOf == [ppp |-> "P", rtkFixed |-> "D", rtk |-> "D", dgnss |-> "D", sbasIono |-> "D"]

\* The modes of the constellations that are used; "E" is for all.
GnsModes(fix, mode) == [c \in Masked |-> IF mode = "E" \/ fix.used[c] # {} THEN mode ELSE "N"]

Indicators(fix, gga, rmc, vtg) ==
    [gga |-> gga, rmc |-> rmc, vtg |-> vtg, gns |-> GnsModes(fix, rmc)]

\* loc_nmea_get_fix_quality without customization: the first correction counts.
FixQuality(fix) ==
    IF ~fix.hasPosition THEN Indicators(fix, <<0>>, "N", "N")
    ELSE IF fix.nav # {}
    THEN LET i == CHOOSE i \in 1..5 :
                      /\ Corrections[i] \in fix.nav
                      /\ \A j \in 1..5 : j < i => Corrections[j] \notin fix.nav
             correction == Corrections[i]
         IN  Indicators(fix, GgaOf[correction], RmcOf[correction], VtgOf[correction])
    ELSE IF "satellite" \in fix.tech THEN Indicators(fix, <<1>>, "A", "A")
    ELSE IF "sensors" \in fix.tech THEN Indicators(fix, <<6>>, "E", "E")
    ELSE Indicators(fix, <<0>>, "N", "N")

\* With customization the quality in the GGA says whether sensors took part.
CustomGga(fix) ==
    LET gga == FixQuality(fix).gga
        sensors == "sensors" \in fix.tech
    IN  IF "ppp" \in fix.nav THEN IF sensors THEN <<6, 9>> ELSE <<5, 9>>
        ELSE IF ~sensors THEN gga
        ELSE IF fix.nav # {} \/ "satellite" \in fix.tech THEN <<6>> \o gga
        ELSE <<6>>

-----------------------------------------------------------------------------
(* The time of a fix.                                                      *)

\* What is known of a change of the leap seconds (LeapSecondChangeInfo).
LeapSeconds == [known : BOOLEAN, change : Nat, before : Nat, after : Nat]

\* The GPS time of a fix falls into the second that a change adds.
InTransition(time, leap) ==
    /\ leap.known /\ leap.after > leap.before
    /\ time.hasGps /\ time.gps >= leap.change /\ time.gps < leap.change + Second

\* get_utctime_with_leapsecond_transition, and the time shown: during the transition it is
\* 23:59:60 of the day that ends, at other times that of the time stamp.
ShownTime(time, leap) ==
    IF InTransition(time, leap)
    THEN LET utc == leap.change + UtcGpsOffset - leap.before * Second - Second
         IN  [day |-> utc \div Day, msec |-> Day + (time.gps % Second)]
    ELSE [day |-> time.stamp \div Day, msec |-> time.stamp % Day]

-----------------------------------------------------------------------------
(* The sentences of a position.                                            *)

\* What the time, the mode and the count of satellites of a sentence depend on.
VtgSentence(fix, talker) == [kind |-> "VTG", talker |-> talker, mode |-> FixQuality(fix).vtg]

RmcSentence(fix, leap, talker) ==
    [kind |-> "RMC", talker |-> talker, time |-> ShownTime(fix.time, leap),
     valid |-> \E c \in Listed : fix.used[c] # {}, mode |-> FixQuality(fix).rmc]

GnsSentence(fix, leap, talker) ==
    [kind |-> "GNS", talker |-> talker, time |-> ShownTime(fix.time, leap),
     modes |-> FixQuality(fix).gns, satellites |-> Cardinality(Used(fix.used))]

AtMost(n, bound) == IF n > bound THEN bound ELSE n

GgaSentence(fix, leap, talker, custom) ==
    [kind |-> "GGA", talker |-> talker, time |-> ShownTime(fix.time, leap),
     quality |-> IF custom THEN CustomGga(fix) ELSE FixQuality(fix).gga,
     satellites |-> AtMost(Cardinality(Used(fix.used)), PageSize)]

\* The order they are sent in, after the GSA.  DTM, which names the datum, is left out.
PositionSentences(fix, leap, custom) ==
    LET talker == PositionTalker(fix.used)
    IN  <<VtgSentence(fix, talker), RmcSentence(fix, leap, talker),
          GnsSentence(fix, leap, talker), GgaSentence(fix, leap, talker, custom)>>

\* The sentences that stand for a fix that is not shown, after the GSA.
BlankKinds == <<"VTG", "RMC", "GNS", "GGA">>
=============================================================================
