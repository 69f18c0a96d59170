------------------------------ MODULE Timetable ------------------------------
(* What the scheduler of the http frontend decides for a minute of the day  *)
(* (scheduler.rs): the entry of a time-span schedule, the period of the     *)
(* grey line, the satellite whose pass comes first. Pure functions.         *)
(*                                                                          *)
(* Minutes are whole; a half width of the grey line is compared doubled.    *)
(* The position of the sun is data: sunrise and sunset are given, or None   *)
(* where the sun does not cross the horizon.                                *)
EXTENDS Integers, Sequences, FiniteSets, FiniteSetsExt, Functions

CONSTANTS Day,    \* minutes of a day (1440 in the code)
          None

ASSUME TimetableAssumption == Day \in Nat \ {0}

-----------------------------------------------------------------------------
(* Time-span entries.                                                       *)

\* entry_is_active: equal ends mean the whole day, a window may span midnight.
EntryIsActive(e, now) ==
    \/ e.start = e.end
    \/ e.start < e.end /\ now >= e.start /\ now < e.end
    \/ e.start > e.end /\ (now >= e.start \/ now < e.end)

\* entry_current_window_start: the start of the window that is open.
WindowStart(e, now) ==
    IF e.start = e.end THEN 0
    ELSE IF e.start > e.end /\ now < e.start THEN e.start - Day
    ELSE e.start

\* timespan_active_entries: their places in the schedule, in its order.
ActiveEntries(entries, now) == {k \in DOMAIN entries : EntryIsActive(entries[k], now)}

\* timespan_cycle_slot: entries that overlap take turns of their own length,
\* counted from the minute at which the last of them began.
Turn(e, default) == IF e.gap # None THEN e.gap ELSE IF default # None THEN default ELSE 0
Turns(entries, active, default) == [k \in active |-> Turn(entries[k], default)]
OverlapStart(entries, active, now) == Max({WindowStart(entries[k], now) : k \in active})

CycleSlot(entries, active, now, default) ==
    LET turns == Turns(entries, active, default)
        cycle == SumFunction(turns)
        elapsed == (now - OverlapStart(entries, active, now)) % cycle
        ends(k) == SumFunctionOnSet(turns, {j \in active : j <= k})
        open == {k \in active : elapsed < ends(k)}
    IN  IF Cardinality(active) <= 1 \/ cycle = 0 THEN None
        ELSE IF open # {} THEN Min(open) ELSE Max(active)

\* timespan_active_entry: the first exclusive entry, the one whose turn it is,
\* or the first one.
ActiveEntry(entries, now, default) ==
    LET active == ActiveEntries(entries, now)
        exclusive == {k \in active : entries[k].exclusive}
        slot == CycleSlot(entries, active, now, default)
    IN  IF active = {} THEN None
        ELSE IF exclusive # {} THEN entries[Min(exclusive)]
        ELSE IF slot # None THEN entries[slot]
        ELSE entries[Min(active)]

-----------------------------------------------------------------------------
(* The grey line.                                                           *)

Abs(x) == IF x < 0 THEN -x ELSE x

\* current_grayline_period. The window is the width of the transition; near
\* the poles the hemisphere decides.
GraylinePeriod(gl, now) ==
    LET near(x) == 2 * Abs(now - x) <= gl.window IN
    IF gl.sun = None THEN IF gl.north THEN "day" ELSE "night"
    ELSE IF near(gl.sun.rise) THEN "dawn"
    ELSE IF near(gl.sun.set) THEN "dusk"
    ELSE IF /\ 2 * now > 2 * gl.sun.rise + gl.window
            /\ 2 * now < 2 * gl.sun.set - gl.window THEN "day"
    ELSE "night"

\* grayline_bookmark_id: the bookmark of the period, which may be missing.
GraylineBookmark(gl, now) == gl.bm[GraylinePeriod(gl, now)]

-----------------------------------------------------------------------------
(* Satellite passes. Times are minutes on one line.                         *)

InProgress(p, t) == p.aos <= t /\ t <= p.los
Imminent(p, t, pretune) == t < p.aos /\ p.aos <= t + pretune

\* The pass an entry looks at: of several in progress the last one listed (the
\* lookup is built by insertion), else the first one that is about to begin.
\* Nothing is chosen while no satellite at all is in the air.
PassOf(e, passes, t, pretune) ==
    LET now == {k \in DOMAIN passes : passes[k].norad = e.norad /\ InProgress(passes[k], t)}
        soon == {k \in DOMAIN passes :
                   passes[k].norad = e.norad /\ Imminent(passes[k], t, pretune)}
    IN  IF now # {} THEN Max(now) ELSE IF soon # {} THEN Min(soon) ELSE None

Eligible(sats, passes, t, pretune) ==
    {k \in DOMAIN sats.entries :
        LET p == PassOf(sats.entries[k], passes, t, pretune) IN
        p # None /\ passes[p].elevation >= sats.entries[k].min}

\* find_active_satellite_target: the lowest priority value, the first of equals.
SatelliteEntry(sats, passes, t, pretune) ==
    LET able == Eligible(sats, passes, t, pretune)
        best == {k \in able : \A j \in able :
                   sats.entries[k].priority <= sats.entries[j].priority}
    IN  IF \/ sats = None \/ ~sats.enabled \/ \A k \in DOMAIN passes : ~InProgress(passes[k], t)
           \/ able = {}
        THEN None ELSE sats.entries[Min(best)]
=============================================================================
