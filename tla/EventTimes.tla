------------------------------ MODULE EventTimes ------------------------------
(***************************************************************************)
(* The hour of an event.  An administrator enters the hour on the school's  *)
(* clock; the browser turns it into an instant with the time zone it was    *)
(* given for the school, the API keeps the instant, and every reader is     *)
(* shown the instant on the clock of the school again.  An event that is    *)
(* edited is filled in from what is kept, and saved the same way.  Hours    *)
(* are counted from a day on; a zone's clock is put forward an hour at      *)
(* `from` and back at `to`.                                                 *)
(***************************************************************************)
EXTENDS Integers

CONSTANTS
    Zones,          \* schools.timezone: records of std, from and to
    Hours,          \* the instants of the days that are looked at
    MaxSaves,
    NoZone          \* schoolTimezone is null: UTC; also the absence of an hour

ASSUME EventTimesAssumption ==
    /\ \A z \in Zones : z.std \in Int /\ z.from \in Int /\ z.to \in Int /\ z.from < z.to
    /\ Hours \subseteq Int /\ MaxSaves \in Nat /\ NoZone \notin Zones \cup Int

VARIABLES
    hoursPage,      \* the page that edits events is open
    eventZone,      \* the zone of the school that is selected
    schoolTimezone, \* what the page has been told of it, or of another school
    zoneAsked,      \* the school has been asked for
    formHour,       \* the hour in the form; NoZone: no form
    instant,        \* what the API keeps of the event; NoZone: none yet
    meant,          \* history: the hour in the form when it was saved last
    usedZone,       \* history: the zone it was turned into an instant with
    saves           \* history: how often it was saved

hoursVars == <<hoursPage, eventZone, schoolTimezone, zoneAsked, formHour, instant, meant,
               usedZone, saves>>

Offset(zone, t) ==
    IF zone = NoZone THEN 0
    ELSE IF zone.from <= t /\ t < zone.to THEN zone.std + 1 ELSE zone.std

(* utcToZonedWallTime, formatEventDateTime: what a clock shows. *)
Wall(zone, t) == t + Offset(zone, t)

(* Mutant: shifted the wrong way. *)
WrongWay(zone, hour) == LET guess == hour IN guess - (guess - Wall(zone, guess))

(* zonedWallTimeToUtcISOString: the hour is taken for an instant, and       *)
(* shifted once by what the clock is off at that instant.                   *)
ToInstant(zone, hour) == LET guess == hour IN guess + (guess - Wall(zone, guess))

(* The hours there are on the school's clock. *)
ClockHours == {Wall(eventZone, t) : t \in Hours}

EventTimesTypeOK ==
    /\ hoursPage \in BOOLEAN
    /\ eventZone \in Zones \cup {NoZone} /\ schoolTimezone \in Zones \cup {NoZone}
    /\ usedZone \in Zones \cup {NoZone}
    /\ zoneAsked \in BOOLEAN
    /\ {formHour, instant, meant} \subseteq Int \cup {NoZone}
    /\ saves \in 0..MaxSaves

(* Another school's zone may still be there when a school is selected.      *)
EventTimesInit ==
    /\ hoursPage \in BOOLEAN
    /\ IF hoursPage THEN eventZone \in Zones /\ schoolTimezone \in Zones \cup {NoZone}
                    ELSE eventZone = NoZone /\ schoolTimezone = NoZone
    /\ zoneAsked = hoursPage
    /\ formHour = NoZone /\ instant = NoZone /\ meant = NoZone
    /\ usedZone = NoZone /\ saves = 0

(* The school comes, or it does not and its zone is null. *)
ZoneComes(zone) ==
    /\ zoneAsked /\ zone \in {eventZone, NoZone}
    /\ schoolTimezone' = zone /\ zoneAsked' = FALSE
    /\ UNCHANGED <<hoursPage, eventZone, formHour, instant, meant, usedZone, saves>>

FormOnly(hour) ==
    /\ formHour' = hour
    /\ UNCHANGED <<hoursPage, eventZone, schoolTimezone, zoneAsked, instant, meant, usedZone,
                   saves>>

EnterHour(hour) == hoursPage /\ FormOnly(hour)

(* handleEdit: filled in with the zone that comes with the event. *)
EditEvent == instant # NoZone /\ FormOnly(Wall(eventZone, instant))

(* handleSubmit: turned into an instant with the zone the page knows. *)
SaveEvent ==
    /\ formHour # NoZone
    /\ saves < MaxSaves
    /\ instant' = ToInstant(schoolTimezone, formHour)
    /\ meant' = formHour /\ usedZone' = schoolTimezone
    /\ formHour' = NoZone
    /\ saves' = saves + 1
    /\ UNCHANGED <<hoursPage, eventZone, schoolTimezone, zoneAsked>>

EventTimesStep ==
    \/ \E zone \in Zones \cup {NoZone} : ZoneComes(zone)
    \/ \E hour \in ClockHours : EnterHour(hour)
    \/ EditEvent \/ SaveEvent

-----------------------------------------------------------------------------
Distance(a, b) == IF a < b THEN b - a ELSE a - b

(* The clock is put forward or back within as many hours of the one entered *)
(* as the zone is away from UTC.                                            *)
NearChange(zone, hour) ==
    \E c \in {zone.from, zone.to} : Distance(hour, c) <= Distance(zone.std, 0) + 1

(* An event saved when the page knew the school's zone is shown at the hour *)
(* that was entered, unless the clock changes nearby, however often it is   *)
(* edited; and then it is an hour off at most.                              *)
HoursAreKept ==
    instant # NoZone /\ usedZone = eventZone =>
        /\ Distance(Wall(eventZone, instant), meant) <= 1
        /\ NearChange(eventZone, meant) \/ Wall(eventZone, instant) = meant

(* The shift converges "on the correct instant" (eventTime.ts:21), and what *)
(* fills in the form is "the inverse" (eventTime.ts:44): an event is shown  *)
(* at the hour that was entered.                                            *)
HoursAreShown ==
    instant # NoZone /\ usedZone = eventZone => Wall(eventZone, instant) = meant
===============================================================================
