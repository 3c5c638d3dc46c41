--------------------------- MODULE DaylightCutoff ---------------------------
(***************************************************************************)
(* _bound_session_to_cutoff in a local time zone whose UTC offset changes  *)
(* once: wall clock times that are skipped, or come twice. Instants and    *)
(* wall clock times are both counted in ticks; before the transition they  *)
(* are the same number, from it on the wall clock is ahead by shift, or    *)
(* behind. Wall clock days start at the multiples of Day.                  *)
(***************************************************************************)
EXTENDS Integers

CONSTANTS
    Day,            \* ticks per day
    MaxShift,       \* the largest change of the UTC offset
    MaxTime,        \* bound of the clock
    None

ASSUME TimeAssumption ==
    /\ Day \in Nat \ {0}
    /\ MaxShift \in Nat /\ MaxShift < Day
    /\ MaxTime \in Nat

ASSUME NoneAssumption == None \notin [since: Int, expires: Int]

VARIABLES
    transition,     \* the instant of the change
    shift,          \* by how much the wall clock jumps then
    cutoff,         \* SESSION_CUTOFF_TIME as a tick of the day
    now,
    session         \* since when it is signed in and its expiry, or None

zone == <<transition, shift, cutoff>>
vars == <<zone, now, session>>

\* The times that come twice are of one calendar day, as in every zone that
\* changes its clocks today (St. John's did so at 00:01 until 2011).
RepeatWithinDay(t, s) == s < 0 => (t + s) \div Day = (t - 1) \div Day

Init ==
    /\ transition \in Day .. 2 * Day
    /\ shift \in -MaxShift .. MaxShift
    /\ RepeatWithinDay(transition, shift)
    /\ cutoff \in 0 .. Day - 1
    /\ now = 0
    /\ session = None

TypeOK ==
    /\ transition \in Nat
    /\ shift \in -MaxShift .. MaxShift
    /\ cutoff \in 0 .. Day - 1
    /\ now \in Nat
    /\ session \in [since: Nat, expires: Int] \union {None}

-----------------------------------------------------------------------------

\* timezone.localtime(): the wall clock, and fold, which tells the second of
\* two equal times from the first.
Wall(t) == IF t < transition THEN t ELSE t + shift
Fold(t) == t >= transition /\ Wall(t) < transition

Later == IF shift > 0 THEN transition + shift ELSE transition
Earlier == IF shift > 0 THEN transition ELSE transition + shift

\* The instant of a wall clock time. One that is skipped is read with the
\* offset before the change, one that comes twice with the offset of its fold.
Instant(w, fold) ==
    IF w < (IF fold THEN Earlier ELSE Later) THEN w ELSE w - shift

Today(t) == Wall(t) - (Wall(t) % Day) + cutoff

\* Mutant: today's cutoff is combined from a date and a time, without fold.
ExpiresAt_NoFold(t) ==
    IF Today(t) <= Wall(t) THEN Instant(Today(t) + Day, FALSE)
    ELSE Instant(Today(t), FALSE)

\* Mutant: a day of elapsed time is added.
ExpiresAt_Elapsed(t) ==
    IF Today(t) <= Wall(t) THEN Instant(Today(t), Fold(t)) + Day
    ELSE Instant(Today(t), Fold(t))

\* now.replace(cutoff) keeps fold; the comparison is of wall clock times, and
\* so is the addition of a day, which clears fold.
ExpiresAt(t) ==
    IF Today(t) <= Wall(t) THEN Instant(Today(t) + Day, FALSE)
    ELSE Instant(Today(t), Fold(t))

\* A portal login or connect bounds the session it is in.
BoundSessionToCutoff ==
    /\ session' = [since |-> now, expires |-> ExpiresAt(now)]
    /\ UNCHANGED <<zone, now>>

Tick ==
    /\ now < MaxTime
    /\ now' = now + 1
    /\ UNCHANGED <<zone, session>>

Next == BoundSessionToCutoff \/ Tick

Spec == Init /\ [][Next]_vars

-----------------------------------------------------------------------------
(* Properties *)

Live == session # None /\ now < session.expires

\* A login is never dead on arrival, nor signed in for longer than the longest
\* local day: the cutoff found is strictly ahead as an instant, though only
\* wall clock times were compared.
ExpiryAhead ==
    session # None =>
        /\ session.since < session.expires
        /\ session.expires <=
             session.since + Day + (IF shift < 0 THEN -shift ELSE 0)

\* Business days run from cutoff to cutoff on the wall clock.
BusinessDay(t) == (Wall(t) - cutoff) \div Day

\* A cutoff that the clock change skips.
Skipped(w) == w % Day = cutoff /\ transition < w /\ w < transition + shift

\* A session never crosses into the next business day, except that on a day
\* whose cutoff is skipped it lasts until the old offset would have reached it.
NeverCrossesDay ==
    Live => \/ BusinessDay(now) <= BusinessDay(session.since)
            \/ \E w \in now + 1 .. transition + shift :
                 Skipped(w) /\ transition <= now

=============================================================================
