---------------------------- MODULE NetworkInfo ----------------------------
(***************************************************************************)
(* The network information SystemStatus keeps: which networks are up, and  *)
(* of which types, collected from events that speak of one network each    *)
(* (SystemStatusNetworkInfo::collate).  Pure operators.                    *)
(***************************************************************************)
EXTENDS Naturals, Sequences, SequencesExt

CONSTANTS
    Networks,      \* network handles of the framework
    TypeOf,        \* the type of each network (TYPE_WIFI, TYPE_MOBILE, ...)
    MaxNetworks,   \* MAX_NETWORK_HANDLES, the size of the table
    MaxItem        \* how many different reports are remembered

Mobile == "mobile"
Wifi == "wifi"

ASSUME NetworkAssumption ==
    /\ TypeOf \in [Networks -> {Mobile, Wifi}]
    /\ MaxNetworks \in Nat \ {0}
    /\ MaxItem \in Nat \ {0}

\* An event and a report have the same shape: whether and which network was
\* connected, the mask of the connected types, and the table of handles, of
\* which the unknown ones at its end are left out.
Reports == [connected : BOOLEAN, network : Networks,
            mask : SUBSET {Mobile, Wifi}, table : Seq(Networks)]

Event(n, isUp) ==
    [connected |-> isUp, network |-> n, mask |-> {TypeOf[n]}, table |-> <<n>>]

Members(table) == {table[k] : k \in 1..Len(table)}

\* A table names each network once.
IsTable(table) == Len(table) <= MaxNetworks /\ IsInjective(table)

\* The networks of n's type, other than n, in the table.
Others(table, n) == {m \in Members(table) \ {n} : TypeOf[m] = TypeOf[n]}

IsFull(table, n) == n \notin Members(table) /\ Len(table) >= MaxNetworks

Added(table, n) ==
    IF n \in Members(table) \/ IsFull(table, n) THEN table ELSE Append(table, n)

\* The deleted entry is overwritten with the last one.
Deleted(table, n) ==
    IF n \notin Members(table) THEN table
    ELSE LET last == table[Len(table)]
         IN  [k \in 1..(Len(table) - 1) |-> IF table[k] = n THEN last ELSE table[k]]

\* Mutant: the bit of a type is never cleared.
CollateKeepingTypes(event, latest) ==
    LET n == event.network
    IN  [event EXCEPT !.mask = @ \cup latest.mask,
                      !.table = IF event.connected THEN Added(latest.table, n)
                                ELSE Deleted(latest.table, n)]

\* An event that speaks of one network completed by the latest report.  While
\* other networks of the type stay, the mask remains the event's own.
Collate(event, latest) ==
    LET n == event.network
    IN  IF event.connected
        THEN [event EXCEPT !.mask = @ \cup latest.mask,
                           !.table = Added(latest.table, n)]
        ELSE [event EXCEPT !.mask = IF Others(latest.table, n) = {}
                                    THEN latest.mask \ @ ELSE @,
                           !.table = Deleted(latest.table, n)]

\* What SystemStatus makes of an event: the report to pass on.
Collated(reports, event) ==
    IF reports = <<>> THEN event ELSE Collate(event, Last(reports))

Same(r1, r2) == r1.connected = r2.connected /\ r1.table = r2.table

\* setIteminReport: is it news, and the reports remembered.
IsNews(reports, report) ==
    IF reports = <<>> THEN TRUE ELSE ~Same(Last(reports), report)

Remember(reports, report) ==
    IF ~IsNews(reports, report) THEN reports
    ELSE IF Len(reports) < MaxItem THEN Append(reports, report)
    ELSE Append(Tail(reports), report)
=============================================================================
