------------------------ MODULE DaylightCutoffProofs ------------------------
(* Proofs about DaylightCutoff for any day, cutoff and change of the clocks. *)
EXTENDS DaylightCutoff, TLAPS

\* The inductive invariant: the session was bound as its login found the clock.
IInv ==
    /\ TypeOK
    /\ RepeatWithinDay(transition, shift)
    /\ session # None =>
        \E t \in 0 .. now : session = [since |-> t, expires |-> ExpiresAt(t)]

-----------------------------------------------------------------------------
LEMMA DivMod ==
    ASSUME NEW d \in Nat \ {0}, NEW x \in Int
    PROVE  /\ x = d * (x \div d) + (x % d)
           /\ x % d \in 0 .. d - 1
           /\ x \div d \in Int
<1>1. x \div d \in Int
  OBVIOUS
<1>2. x % d \in 0 .. d - 1
  OBVIOUS
<1>3. x = d * (x \div d) + (x % d)
  BY Z3
<1> QED
  BY <1>1, <1>2, <1>3

LEMMA SmallProduct ==
    ASSUME NEW d \in Nat \ {0}, NEW p \in Int, d * p < d
    PROVE  p <= 0
BY Z3

LEMMA DivBelow ==
    ASSUME NEW d \in Nat \ {0}, NEW x \in Int, NEW p \in Int, x < d * p
    PROVE  x \div d <= p - 1
BY DivMod, Z3

LEMMA DivFrom ==
    ASSUME NEW d \in Nat \ {0}, NEW x \in Int, NEW p \in Int, d * p <= x
    PROVE  p <= x \div d
BY DivMod, Z3

LEMMA ModOf ==
    ASSUME NEW d \in Nat \ {0}, NEW p \in Int, NEW c \in 0 .. d - 1
    PROVE  (d * p + c) % d = c
BY DivMod, Z3

-----------------------------------------------------------------------------

Zone ==
    /\ transition \in Nat
    /\ shift \in -MaxShift .. MaxShift
    /\ cutoff \in 0 .. Day - 1
    /\ RepeatWithinDay(transition, shift)

\* The cutoff a login aims at: the next one on the wall clock. Its fold is the
\* login's own, unless it is tomorrow's.
Aims(t, w, fold) ==
    /\ ExpiresAt(t) = Instant(w, fold)
    /\ w % Day = cutoff
    /\ Wall(t) < w /\ w <= Wall(t) + Day
    /\ (w - cutoff) \div Day <= BusinessDay(t) + 1
    /\ \/ fold = Fold(t)
       \/ ~fold /\ w >= Day * (Wall(t) \div Day) + Day

LEMMA AimsAtCutoff ==
    ASSUME Zone, NEW t \in Nat
    PROVE  \E w \in Int, fold \in BOOLEAN : Aims(t, w, fold)
<1> DEFINE W == Wall(t)
           q == W \div Day
           m == W % Day
<1>1. W \in Int /\ q \in Int /\ m \in 0 .. Day - 1 /\ W = Day * q + m
      /\ Fold(t) \in BOOLEAN /\ Day \in Nat \ {0} /\ cutoff \in 0 .. Day - 1
  <2>1. W \in Int
    BY TimeAssumption DEF Zone, Wall
  <2> QED
    BY <2>1, DivMod, TimeAssumption DEF Zone, Fold
<1>2. Today(t) = Day * q + cutoff
  BY <1>1 DEF Today
<1> HIDE DEF W, q, m
<1>3. CASE Today(t) <= W
  <2> DEFINE w == Today(t) + Day
  <2>1. w \in Int /\ W < w /\ w <= W + Day /\ w >= Day * q + Day
    BY <1>1, <1>2, <1>3, Z3
  <2>2. w = Day * (q + 1) + cutoff /\ w - cutoff = Day * (q + 1)
    BY <1>1, <1>2, Z3
  <2>3. w % Day = cutoff
    BY <1>1, <2>2, ModOf
  <2>4. (w - cutoff) \div Day <= q + 1
    <3>1. w - cutoff < Day * (q + 2)
      BY <1>1, <2>2, Z3
    <3> QED
      BY <1>1, <2>1, <3>1, DivBelow
  <2>5. q <= (W - cutoff) \div Day
    <3>1. Day * q <= W - cutoff
      BY <1>1, <1>2, <1>3, Z3
    <3> QED
      BY <1>1, <3>1, DivFrom
  <2>6. (W - cutoff) \div Day \in Int /\ (w - cutoff) \div Day \in Int
    BY <1>1, <2>1
  <2>7. ExpiresAt(t) = Instant(w, FALSE)
    BY <1>3 DEF ExpiresAt, W
  <2> HIDE DEF w
  <2>8. Aims(t, w, FALSE)
    BY <1>1, <2>1, <2>3, <2>4, <2>5, <2>6, <2>7 DEF Aims, BusinessDay, W, q
  <2> QED
    BY <2>1, <2>8
<1>4. CASE ~(Today(t) <= W)
  <2> DEFINE w == Today(t)
  <2>1. w \in Int /\ W < w /\ w <= W + Day
    BY <1>1, <1>2, <1>4, Z3
  <2>2. w = Day * q + cutoff /\ w - cutoff = Day * q
    BY <1>1, <1>2
  <2>3. w % Day = cutoff
    BY <1>1, <2>2, ModOf
  <2>4. (w - cutoff) \div Day <= q
    <3>1. w - cutoff < Day * (q + 1)
      BY <1>1, <2>2, Z3
    <3> QED
      BY <1>1, <2>1, <3>1, DivBelow
  <2>5. q - 1 <= (W - cutoff) \div Day
    <3>1. Day * (q - 1) <= W - cutoff
      BY <1>1, <1>2, Z3
    <3> QED
      BY <1>1, <3>1, DivFrom
  <2>6. (W - cutoff) \div Day \in Int /\ (w - cutoff) \div Day \in Int
    BY <1>1, <2>1
  <2>7. ExpiresAt(t) = Instant(w, Fold(t))
    BY <1>4 DEF ExpiresAt, W
  <2> HIDE DEF w
  <2>8. Aims(t, w, Fold(t))
    BY <1>1, <2>1, <2>3, <2>4, <2>5, <2>6, <2>7 DEF Aims, BusinessDay, W, q
  <2> QED
    BY <1>1, <2>1, <2>8
<1> QED
  BY <1>3, <1>4

\* A time that comes twice is of the day on which both come.
LEMMA NoTomorrowTwice ==
    ASSUME Zone, NEW t \in Nat, Fold(t), NEW w \in Int,
           w >= Day * (Wall(t) \div Day) + Day
    PROVE  w >= transition
<1> DEFINE q == (transition - 1) \div Day
<1>1. /\ shift < 0 /\ shift \in Int /\ transition \in Nat /\ t >= transition
      /\ Wall(t) = t + shift /\ Wall(t) < transition /\ Day \in Nat \ {0}
  BY TimeAssumption DEF Zone, Fold, Wall
<1>2. q \in Int /\ transition - 1 < Day * (q + 1) /\ Day * q <= transition + shift
  <2>1. /\ transition - 1 = Day * q + ((transition - 1) % Day)
        /\ (transition - 1) % Day \in 0 .. Day - 1 /\ q \in Int
    BY <1>1, DivMod
  <2>2. /\ transition + shift = Day * q + ((transition + shift) % Day)
        /\ (transition + shift) % Day \in 0 .. Day - 1
    <3>1. transition + shift \in Int
      BY <1>1
    <3>2. (transition + shift) \div Day = q
      BY <1>1 DEF Zone, RepeatWithinDay
    <3> HIDE DEF q
    <3>3. /\ transition + shift = Day * ((transition + shift) \div Day)
                                  + ((transition + shift) % Day)
          /\ (transition + shift) % Day \in 0 .. Day - 1
      BY <1>1, <3>1, DivMod
    <3> QED
      BY <3>2, <3>3
  <2> DEFINE r1 == (transition - 1) % Day
             r2 == (transition + shift) % Day
  <2>3. /\ transition - 1 = Day * q + r1 /\ r1 \in 0 .. Day - 1 /\ q \in Int
        /\ transition + shift = Day * q + r2 /\ r2 \in 0 .. Day - 1
    BY <2>1, <2>2
  <2> HIDE DEF q, r1, r2
  <2>4. Day * (q + 1) = Day * q + Day /\ Day * q \in Int
    BY <1>1, <2>3, Z3
  <2> QED
    BY <1>1, <2>3, <2>4
<1> HIDE DEF q
<1>3. q <= Wall(t) \div Day /\ Wall(t) \div Day \in Int
  <2>1. Day * q <= Wall(t) /\ Wall(t) \in Int
    BY <1>1, <1>2
  <2> QED
    BY <1>1, <1>2, <2>1, DivFrom
<1>4. Day * (q + 1) <= Day * (Wall(t) \div Day) + Day
  BY <1>1, <1>2, <1>3, Z3
<1> QED
  BY <1>1, <1>2, <1>3, <1>4, Z3

\* The instant of the cutoff aimed at is ahead, at most a longest day.
LEMMA Ahead ==
    ASSUME Zone, NEW t \in Nat
    PROVE  /\ ExpiresAt(t) \in Int
           /\ t < ExpiresAt(t)
           /\ ExpiresAt(t) <= t + Day + (IF shift < 0 THEN -shift ELSE 0)
<1>1. PICK w \in Int, fold \in BOOLEAN : Aims(t, w, fold)
  BY AimsAtCutoff
<1>3. /\ transition \in Nat /\ shift \in Int /\ Day \in Nat
      /\ Wall(t) < w /\ w <= Wall(t) + Day /\ ExpiresAt(t) = Instant(w, fold)
  BY <1>1, TimeAssumption DEF Zone, Aims
<1>4. Instant(w, FALSE) = IF w < Later THEN w ELSE w - shift
  BY DEF Instant
<1>5. Instant(w, TRUE) = IF w < Earlier THEN w ELSE w - shift
  BY DEF Instant
<1>6. /\ Later = IF shift > 0 THEN transition + shift ELSE transition
      /\ Earlier = IF shift > 0 THEN transition ELSE transition + shift
  BY DEF Later, Earlier
<1> DEFINE E == ExpiresAt(t)
<1>7. CASE ~Fold(t)
  <2>1. ~fold /\ E = IF w < Later THEN w ELSE w - shift
    BY <1>1, <1>3, <1>4, <1>7 DEF Aims
  <2>2. CASE t < transition
    <3>1. Wall(t) = t
      BY <2>2 DEF Wall
    <3> QED
      BY <1>3, <1>6, <2>1, <2>2, <3>1
  <2>3. CASE t >= transition
    <3>1. Wall(t) = t + shift /\ Wall(t) >= transition
      BY <1>3, <1>7, <2>3 DEF Wall, Fold
    <3> QED
      BY <1>3, <1>6, <2>1, <2>3, <3>1
  <2> QED
    BY <1>3, <2>2, <2>3
<1>8. CASE Fold(t)
  <2>1. t >= transition /\ Wall(t) = t + shift /\ Wall(t) < transition
    BY <1>3, <1>8 DEF Wall, Fold
  <2>2. CASE fold
    <3>1. E = IF w < Earlier THEN w ELSE w - shift
      BY <1>3, <1>5, <2>2
    <3> QED
      BY <1>3, <1>6, <2>1, <3>1
  <2>3. CASE ~fold
    <3>1. E = IF w < Later THEN w ELSE w - shift
      BY <1>3, <1>4, <2>3
    <3>2. w >= transition
      BY <1>1, <1>8, <2>3, NoTomorrowTwice DEF Aims
    <3> QED
      BY <1>3, <1>6, <2>1, <3>1, <3>2
  <2> QED
    BY <2>2, <2>3
<1> QED
  BY <1>7, <1>8

\* Until then the wall clock is short of the cutoff, unless that is skipped.
LEMMA StaysShort ==
    ASSUME Zone, NEW t \in Nat, NEW n \in Nat, t <= n, n < ExpiresAt(t),
           NEW w \in Int, NEW fold \in BOOLEAN, Aims(t, w, fold)
    PROVE  \/ Wall(n) < w
           \/ w \in n + 1 .. transition + shift /\ Skipped(w) /\ transition <= n
<1>1. /\ transition \in Nat /\ shift \in Int /\ Day \in Nat
      /\ ExpiresAt(t) = Instant(w, fold) /\ w % Day = cutoff
      /\ fold => Fold(t)
  BY TimeAssumption DEF Zone, Aims
<1>2. /\ Later = IF shift > 0 THEN transition + shift ELSE transition
      /\ Earlier = IF shift > 0 THEN transition ELSE transition + shift
  BY DEF Later, Earlier
<1>3. CASE n < transition
  <2>1. Wall(n) = n /\ ~Fold(t) /\ ~fold
    BY <1>1, <1>3 DEF Wall, Fold
  <2>2. ExpiresAt(t) = IF w < Later THEN w ELSE w - shift
    BY <1>1, <2>1 DEF Instant
  <2> QED
    BY <1>1, <1>2, <1>3, <2>1, <2>2
<1>4. CASE n >= transition
  <2>1. Wall(n) = n + shift
    BY <1>1, <1>4 DEF Wall
  <2>2. CASE fold
    <3>1. ExpiresAt(t) = IF w < Earlier THEN w ELSE w - shift
      BY <1>1, <2>2 DEF Instant
    <3>2. shift < 0
      BY <1>1, <2>2 DEF Fold, Wall
    <3> QED
      BY <1>1, <1>2, <1>4, <2>1, <3>1, <3>2
  <2>3. CASE ~fold
    <3>1. ExpiresAt(t) = IF w < Later THEN w ELSE w - shift
      BY <1>1, <2>3 DEF Instant
    <3> QED
      BY <1>1, <1>2, <1>4, <2>1, <3>1 DEF Skipped
  <2> QED
    BY <2>2, <2>3
<1> QED
  BY <1>1, <1>3, <1>4

\* So it does not cross into the next business day.
LEMMA NotCrossed ==
    ASSUME Zone, NEW t \in Nat, NEW n \in Nat, t <= n, n < ExpiresAt(t)
    PROVE  \/ BusinessDay(n) <= BusinessDay(t)
           \/ \E w \in n + 1 .. transition + shift :
                Skipped(w) /\ transition <= n
<1>1. PICK w \in Int, fold \in BOOLEAN : Aims(t, w, fold)
  BY AimsAtCutoff
<1>2. CASE Wall(n) < w
  <2> DEFINE p == (w - cutoff) \div Day
  <2>1. /\ Wall(n) \in Int /\ Wall(t) \in Int /\ cutoff \in Int
        /\ Day \in Nat \ {0} /\ w % Day = cutoff
        /\ cutoff \in 0 .. Day - 1 /\ p <= BusinessDay(t) + 1
    BY <1>1, TimeAssumption DEF Zone, Wall, Aims
  <2>2. w - cutoff = Day * p /\ p \in Int
    <3>1. /\ w = Day * (w \div Day) + cutoff /\ w \div Day \in Int
      BY <2>1, DivMod
    <3>2. w - cutoff = Day * (w \div Day) /\ w - cutoff \in Int
      BY <2>1, <3>1, Z3
    <3>3. p = w \div Day
      <4>1. w \div Day <= p /\ p \in Int
        BY <2>1, <3>1, <3>2, DivFrom
      <4>2. w - cutoff < Day * ((w \div Day) + 1)
        BY <2>1, <3>1, <3>2, Z3
      <4>3. p <= (w \div Day) + 1 - 1
        BY <2>1, <3>1, <3>2, <4>2, DivBelow
      <4> QED
        BY <3>1, <4>1, <4>3
    <3> QED
      BY <3>1, <3>2, <3>3
  <2> HIDE DEF p
  <2>3. Wall(n) - cutoff \in Int /\ Wall(n) - cutoff < Day * p
    BY <1>2, <2>1, <2>2
  <2>4. BusinessDay(n) <= p - 1
    BY <2>1, <2>2, <2>3, DivBelow DEF BusinessDay
  <2>5. BusinessDay(n) \in Int /\ BusinessDay(t) \in Int
    BY <2>1 DEF BusinessDay
  <2> QED
    BY <2>1, <2>2, <2>4, <2>5
<1>3. CASE ~(Wall(n) < w)
  BY <1>1, <1>3, StaysShort
<1> QED
  BY <1>2, <1>3

-----------------------------------------------------------------------------

LEMMA ZoneHolds == IInv => Zone
BY DEF IInv, TypeOK, Zone

LEMMA InitInv == Init => IInv
BY TimeAssumption DEF Init, IInv, TypeOK

LEMMA NextInv == IInv /\ [Next]_vars => IInv'
<1> SUFFICES ASSUME IInv, [Next]_vars PROVE IInv'
  OBVIOUS
<1>1. CASE BoundSessionToCutoff
  <2>1. ExpiresAt(now) \in Int /\ now \in Nat
    BY ZoneHolds, Ahead DEF IInv, TypeOK
  <2>2. /\ session' = [since |-> now, expires |-> ExpiresAt(now)]
        /\ UNCHANGED <<transition, shift, cutoff, now>>
    BY <1>1 DEF BoundSessionToCutoff, zone
  <2>3. TypeOK'
    BY <2>1, <2>2 DEF IInv, TypeOK
  <2>4. \A t \in Nat : ExpiresAt(t)' = ExpiresAt(t)
    BY <2>2 DEF ExpiresAt, Today, Instant, Earlier, Later, Fold, Wall
  <2> PICK t0 \in Nat : t0 = now
    BY <2>1
  <2>5. session' = [since |-> t0, expires |-> ExpiresAt(t0)']
    BY <2>1, <2>2, <2>4
  <2>6. t0 \in 0 .. now'
    BY <2>1, <2>2
  <2>7. RepeatWithinDay(transition, shift)'
    BY <2>2 DEF IInv, RepeatWithinDay
  <2>8. session' # None =>
          \E t \in 0 .. now' : session' = [since |-> t, expires |-> ExpiresAt(t)']
    BY <2>5, <2>6
  <2> QED
    BY <2>3, <2>7, <2>8 DEF IInv
<1>2. ASSUME Tick \/ UNCHANGED vars PROVE IInv'
  <2>1. /\ UNCHANGED <<transition, shift, cutoff, session>>
        /\ now \in Nat /\ now' \in {now, now + 1}
    BY <1>2 DEF Tick, vars, zone, IInv, TypeOK
  <2>2. \A t \in Nat : ExpiresAt(t)' = ExpiresAt(t)
    BY <2>1 DEF ExpiresAt, Today, Instant, Earlier, Later, Fold, Wall
  <2>3. session # None =>
          \E t \in 0 .. now' : session = [since |-> t, expires |-> ExpiresAt(t)']
    BY <2>1, <2>2 DEF IInv
  <2>4. TypeOK' /\ RepeatWithinDay(transition, shift)'
    BY <2>1 DEF IInv, TypeOK, RepeatWithinDay
  <2> QED
    BY <2>1, <2>3, <2>4 DEF IInv
<1> QED
  BY <1>1, <1>2 DEF Next

\* A session is bound once, as its login found the clock and the zone.
THEOREM InvariantHolds == Spec => []IInv
BY InitInv, NextInv, PTL DEF Spec

\* receivers.py:94-96 compares and adds on the wall clock, across any change
\* of the clocks by less than a day: no login is dead on arrival, and none
\* lasts longer than the longest local day.
THEOREM SessionsStartAlive == Spec => []ExpiryAhead
<1>1. ASSUME IInv, session # None
      PROVE  /\ session.since < session.expires
             /\ session.expires <=
                  session.since + Day + (IF shift < 0 THEN -shift ELSE 0)
  <2>1. PICK t \in 0 .. now : session = [since |-> t, expires |-> ExpiresAt(t)]
    BY <1>1 DEF IInv
  <2>2. t \in Nat /\ session.since = t /\ session.expires = ExpiresAt(t)
    BY <1>1, <2>1 DEF IInv, TypeOK
  <2> QED
    BY <1>1, <2>2, ZoneHolds, Ahead
<1>2. IInv => ExpiryAhead
  BY <1>1 DEF ExpiryAhead
<1> QED
  BY <1>2, InvariantHolds, PTL

\* No session crosses into the next business day, unless the clock change
\* skips the cutoff itself.
THEOREM SessionsStayInDay == Spec => []NeverCrossesDay
<1>1. ASSUME IInv, Live
      PROVE  \/ BusinessDay(now) <= BusinessDay(session.since)
             \/ \E w \in now + 1 .. transition + shift :
                  Skipped(w) /\ transition <= now
  <2>1. PICK t \in 0 .. now : session = [since |-> t, expires |-> ExpiresAt(t)]
    BY <1>1 DEF IInv, Live
  <2>2. /\ t \in Nat /\ now \in Nat /\ t <= now /\ now < ExpiresAt(t)
        /\ session.since = t
    BY <1>1, <2>1 DEF IInv, TypeOK, Live
  <2> QED
    BY <1>1, <2>2, ZoneHolds, NotCrossed
<1>2. IInv => NeverCrossesDay
  BY <1>1 DEF NeverCrossesDay
<1> QED
  BY <1>2, InvariantHolds, PTL
=============================================================================
