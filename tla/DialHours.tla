------------------------------ MODULE DialHours ------------------------------
(* internal/dialer/hours: when a respondent's region may be dialled.        *)
(*                                                                         *)
(* Time is counted in slots, DayLen of them to a day (a slot stands for    *)
(* the minute of the code; Russia has no daylight saving, so a zone is a   *)
(* fixed offset).  Day 0 is a Monday.  A tenant's override is the JSON of  *)
(* tenant_settings.working_hours: a field that is missing is the empty     *)
(* set, a time outside 0..DayLen is one time.Parse refuses, and DayLen     *)
(* itself is the "24:00" the parser lets through.                          *)
EXTENDS Integers, Sequences, FiniteSets, FiniteSetsExt

CONSTANTS DayLen,         \* slots in a day
          RegionZones,    \* region code -> offset of its zone, in slots
          AskedRegions,   \* the region codes callers ask about
          Holidays,       \* federal holidays, as day numbers
          PlatformPolicy, \* defaultWeekday and defaultWeekend
          RawPolicies,    \* the overrides tenants save
          Horizon,        \* nextAllowedHorizon
          LastSlot        \* bound on the clock

VARIABLES override,  \* the tenant's saved working_hours, a set of at most one
          clock      \* the current instant, in slots of UTC

hoursVars == <<override, clock>>

NoWindow == [start |-> 0, end |-> 0]

localDay(t, zone) == (t + zone) \div DayLen

(* The instant of time-of-day w on the local date of t.                    *)
combineDate(t, zone, w) == localDay(t, zone) * DayLen + w - zone

contains(w, t, zone) ==
    /\ t >= combineDate(t, zone, w.start)
    /\ t < combineDate(t, zone, w.end)

kindFor(day) == IF day % 7 \in {5, 6} THEN "weekend" ELSE "weekday"

IsHoliday(t, zone) == localDay(t, zone) \in Holidays

(***************************************************************************)
(* Reading the override.  A parser returns the set of its result, empty    *)
(* when the input is refused.                                              *)
(***************************************************************************)
parseTimeOfDay(s) == s \cap (0..DayLen)

parseJSONWindow(jw) ==
    {[start |-> s, end |-> e] : s \in parseTimeOfDay(jw.start),
                                e \in parseTimeOfDay(jw.end)}

(* An exception with neither bound set keeps the zero window; one with a   *)
(* single bound is refused.                                                *)
parseJSONException(je) ==
    {[date |-> d, open |-> (je.open # {FALSE}), start |-> w.start, end |-> w.end] :
        d \in je.date,
        w \in IF je.start \cup je.end = {} THEN {NoWindow} ELSE parseJSONWindow(je)}

(* A window that is absent stays zero, so that the default fills it.       *)
parseOptional(jw) ==
    IF jw = {} THEN {NoWindow} ELSE UNION {parseJSONWindow(w) : w \in jw}

parsePolicy(raw) ==
    IF \E i \in DOMAIN raw.exceptions : parseJSONException(raw.exceptions[i]) = {}
    THEN {}
    ELSE {[weekday |-> wd, weekend |-> we,
           exceptions |-> [i \in DOMAIN raw.exceptions |->
                              CHOOSE e \in parseJSONException(raw.exceptions[i]) : TRUE]] :
             wd \in parseOptional(raw.weekday), we \in parseOptional(raw.weekend)}

mergeWithDefault(p) ==
    [p EXCEPT !.weekday = IF @ = NoWindow THEN PlatformPolicy.weekday ELSE @,
              !.weekend = IF @ = NoWindow THEN PlatformPolicy.weekend ELSE @]

policyFor ==
    IF override = {}
    THEN {[weekday |-> PlatformPolicy.weekday, weekend |-> PlatformPolicy.weekend,
           exceptions |-> <<>>]}
    ELSE {mergeWithDefault(p) : p \in UNION {parsePolicy(raw) : raw \in override}}

(* The first exception of the list for the local date wins.                *)
findException(p, t, zone) ==
    LET matching == {i \in DOMAIN p.exceptions :
                        p.exceptions[i].date = localDay(t, zone)}
    IN  IF matching = {} THEN {} ELSE {p.exceptions[Min(matching)]}

TimezoneForRegion(region) ==
    IF region \in DOMAIN RegionZones THEN {RegionZones[region]} ELSE {}

(***************************************************************************)
(* The two questions.  An answer is a set of at most one value: empty is   *)
(* an error (unknown region, unreadable settings, horizon exhausted).      *)
(***************************************************************************)
FaultClosedAtEnd(p, t, zone) ==
    t >= combineDate(t, zone, p[kindFor(localDay(t, zone))].start)
    /\ t <= combineDate(t, zone, p[kindFor(localDay(t, zone))].end)

insideDayWindow(p, t, zone) == contains(p[kindFor(localDay(t, zone))], t, zone)

(* IsAllowed has its own chain: holiday, exception, then the day's kind.    *)
permitted(p, t, zone) ==
    LET ex == findException(p, t, zone)
    IN  /\ \A e \in ex : e.open
        /\ IF \E e \in ex : [start |-> e.start, end |-> e.end] # NoWindow
           THEN \E e \in ex : contains([start |-> e.start, end |-> e.end], t, zone)
           ELSE insideDayWindow(p, t, zone)

IsAllowed(region, t) ==
    {~IsHoliday(t, zone) /\ permitted(CHOOSE p \in policyFor : TRUE, t, zone) :
        zone \in {z \in TimezoneForRegion(region) : IsHoliday(t, z) \/ policyFor # {}}}

FaultForgetsHolidays(p, t, zone) ==
    LET ex == findException(p, t, zone)
    IN  IF \E e \in ex : ~e.open
        THEN {}
        ELSE {p[kindFor(localDay(t, zone))]}

(* The window of t's local date, absent on a holiday or a closed date.     *)
activeWindow(p, t, zone) ==
    LET ex == findException(p, t, zone)
    IN  IF IsHoliday(t, zone) \/ \E e \in ex : ~e.open
        THEN {}
        ELSE IF \E e \in ex : [start |-> e.start, end |-> e.end] # NoWindow
             THEN {[start |-> e.start, end |-> e.end] : e \in ex}
             ELSE {p[kindFor(localDay(t, zone))]}

(* What one day of the scan offers to a cursor standing in it.             *)
offered(p, cursor, zone) ==
    {IF cursor < combineDate(cursor, zone, w.start)
     THEN combineDate(cursor, zone, w.start) ELSE cursor :
        w \in {v \in activeWindow(p, cursor, zone) :
                  \/ cursor < combineDate(cursor, zone, v.start)
                  \/ cursor < combineDate(cursor, zone, v.end)}}

(* The cursor is at on day 0 and the local midnight of each day after it;  *)
(* the first day that offers an instant ends the scan.                     *)
cursorOf(at, zone, day) ==
    IF day = 0 THEN at ELSE (localDay(at, zone) + day) * DayLen - zone

NextAllowed(region, at) ==
    UNION {LET days == {d \in 0..Horizon : offered(p, cursorOf(at, zone, d), zone) # {}}
           IN  IF days = {} THEN {} ELSE offered(p, cursorOf(at, zone, Min(days)), zone) :
             p \in policyFor, zone \in TimezoneForRegion(region)}

(***************************************************************************)
(* The tenant edits the setting while time passes.                         *)
(***************************************************************************)
HoursInit == override = {} /\ clock = 0

(* The settings service stores what the tenant sends; nothing here parses  *)
(* it before the next question.                                            *)
SaveOverride ==
    /\ \E raw \in RawPolicies : override' = {raw}
    /\ UNCHANGED clock

PassSlot ==
    /\ clock < LastSlot
    /\ clock' = clock + 1
    /\ UNCHANGED override

HoursNext == SaveOverride \/ PassSlot

HoursTypeOK ==
    /\ override \subseteq RawPolicies /\ Cardinality(override) <= 1
    /\ clock \in 0..LastSlot

(* A window whose end is not after its start is open at no instant.        *)
inOrder(p) ==
    /\ p.weekday.start < p.weekday.end /\ p.weekend.start < p.weekend.end
    /\ \A i \in DOMAIN p.exceptions :
          LET e == p.exceptions[i] IN e.start < e.end \/ (e.start = 0 /\ e.end = 0)

(* The instants the scan ranges over: the rest of today and Horizon whole  *)
(* local days.                                                             *)
scanned(at, zone) == at..((localDay(at, zone) + Horizon + 1) * DayLen - zone - 1)

(* checker.go 243 and 304: NextAllowed answers the first instant, no        *)
(* earlier than the one asked about, at which IsAllowed says yes, whatever *)
(* zone, holiday, exception and day kind meet there; and it reports an     *)
(* error exactly when IsAllowed refuses every instant of the horizon.      *)
(* (For windows whose end follows their start: parseJSONWindow does not    *)
(* demand it.)                                                             *)
NextAllowedIsNext ==
    \A region \in AskedRegions :
        (\A p \in policyFor : inOrder(p)) =>
            NextAllowed(region, clock) =
                UNION {LET open == {t \in scanned(clock, zone) : IsAllowed(region, t) = {TRUE}}
                       IN  IF open = {} THEN {} ELSE {Min(open)} :
                         zone \in TimezoneForRegion(region)}
=============================================================================
