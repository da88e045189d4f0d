------------------------------ MODULE TapeProofs ------------------------------
(***************************************************************************)
(* Proofs about recording and running a macro (Tape), for any buttons and  *)
(* recordings of any length: a macro plays as it was recorded.             *)
(***************************************************************************)
EXTENDS Tape, FiniteSets, FiniteSetTheorems, SequenceTheorems, NaturalsInduction,
        WellFoundedInduction, TLAPS

-----------------------------------------------------------------------------
(* When each command is obeyed. *)

Held == SUBSET UNION HeldSets
Commands == [action : Actions, time : Nat, buttons : Held]
IsDelay(c) == c.action = "DELAY"

\* The buttons before a frame of a recording, and the frame that a delay takes if it follows
\* another one.
Before(s, f) == IF f = 1 THEN {} ELSE s[f - 1]
Extra(m, i)  == IF i > 1 /\ IsDelay(m[i - 1]) THEN 1 ELSE 0

\* t[i] is the frame in which command i can be obeyed at the earliest: a change is then, and a
\* delay begins, and all frames are s's.
Waits(m, s, t, i) ==
  /\ m[i].time \in Nat \ {0} /\ m[i] = Delay(m[i].time)
  /\ t[i + 1] = t[i] + m[i].time - 1 + Extra(m, i)
  /\ \A f \in t[i] .. t[i + 1] - 1 : s[f] = Before(s, t[i])
Changes(m, s, t, i) ==
  /\ t[i + 1] = t[i] + 1 /\ t[i] \in 1 .. Len(s)
  /\ s[t[i]] # Before(s, t[i]) /\ m[i] = Changed(Before(s, t[i]), s[t[i]])

Timed(m, n, s, t) ==
  /\ t \in [1 .. n + 1 -> 1 .. Len(s) + 1] /\ t[1] = 1
  /\ \A i \in 1 .. n : IF IsDelay(m[i]) THEN Waits(m, s, t, i) ELSE Changes(m, s, t, i)
  /\ \A i, j \in 1 .. n + 1 : i <= j => t[i] <= t[j]
  /\ \A f \in 1 .. t[n + 1] - 1 :
       s[f] # Before(s, f) => \E i \in 1 .. n : ~IsDelay(m[i]) /\ t[i] = f
  /\ n > 0 => ~IsDelay(m[1])

\* A recording that is expected to be played: its first n commands are timed, and what is after
\* them is as long as the delay at the end says.
Waiting(t) ==
  /\ Len(seen) = t[cmd] - 1 + (IF rtc = 0 THEN 0 ELSE rtc + Extra(macro, cmd))
  /\ \A f \in t[cmd] .. Len(seen) : seen[f] = Before(seen, t[cmd])
  /\ lastButtons = Before(seen, Len(seen) + 1)
Untwisted(t) ==
  \A i \in 1 .. cmd - 1 : ~IsDelay(macro[i]) =>
    \/ macro[i].action # "CHANGE"
    \/ Before(seen, t[i]) \cap MenuButtons = {}
    \/ \E f \in t[i] .. Len(seen) : seen[f] \cap MenuButtons = {}
Recording(t) ==
  /\ Timed(macro, cmd - 1, seen, t) /\ Waiting(t) /\ (~twisted => Untwisted(t))
  /\ cmd = Len(macro) /\ macro[cmd] = Delay(rtc)
  /\ cmd = 1 => seen = <<>> /\ rtc = 0
  /\ Extra(macro, cmd) = 1 =>
       lastButtons = {} /\ tape # <<>> /\ (IF rtc = 0 THEN seen = tape ELSE Len(seen) > Len(tape))

\* A macro that is expected to be played.
Recorded(t) == Timed(macro, Len(macro), tape, t) /\ t[Len(macro) + 1] = Len(tape) + 1

\* The frame of the round that the last one was.
Clock == IF cmd = 1 THEN 0 ELSE frame
Playing(t) ==
  /\ cmd \in 1 .. Len(macro) /\ Clock \in Nat /\ Clock <= Len(tape) /\ rtc = 0
  /\ lastButtons = Before(tape, Clock + 1)
  /\ IF left = Unset THEN Clock + 1 = t[cmd] /\ Extra(macro, cmd) = 0
     ELSE /\ IsDelay(macro[cmd]) /\ left \in Nat \ {0}
          /\ t[cmd] <= Clock /\ Clock + left = t[cmd + 1]

Typed ==
  /\ macro \in Seq(Commands) /\ acting \in {"none", "record", "trace"} /\ lastButtons \in Held
  /\ rtc \in Nat /\ seen \in Seq(Held) /\ tape \in Seq(Held)
  /\ sure \in BOOLEAN /\ twisted \in BOOLEAN /\ frame \in Nat \cup {Unset}
  /\ acting = "record" => cmd = Len(macro) /\ cmd > 0
  /\ acting = "trace"  => cmd \in 1 .. Len(macro)

TapeInv ==
  /\ Typed
  /\ acting = "record" => frame = 0
  /\ acting = "record" /\ sure => \E t : Recording(t)
  /\ acting # "record" /\ sure => \E t : Recorded(t)
  /\ acting = "trace" /\ frame # Unset => sure /\ \E t : Recorded(t) /\ Playing(t)
  /\ acting # "trace" /\ frame > 0 => sure
  /\ PlaysAsRecorded
-----------------------------------------------------------------------------
(* Commands. *)

\* The command for a change is no delay, has buttons, and makes the change when it is obeyed.
LEMMA ChangedObeyed ==
  ASSUME NEW from \in Held, NEW to \in Held, from # to
  PROVE  /\ Changed(from, to) \in Commands /\ ~IsDelay(Changed(from, to))
         /\ Changed(from, to).buttons # {} /\ Changed(from, to).time = 0
         /\ from = lastButtons => Obeyed(Changed(from, to)) = to
<1> USE DEF Changed, OfButtons, Obeyed, Commands, Actions, IsDelay, Held
<1>1. CASE to \ from # {} /\ from \ to # {}
  BY <1>1
<1>2. CASE to \ from # {} /\ from \ to = {}
  <2>1. from \cup (to \ from) = to
    BY <1>2
  <2> QED BY <1>2, <2>1
<1>3. CASE to \ from = {}
  <2>1. from \ to # {} /\ (from \ (from \ to)) \cup ((from \ to) \ from) = to
    BY <1>3
  <2> QED BY <1>3, <2>1
<1> QED BY <1>1, <1>2, <1>3

\* A set of numbers has a least one.
LEMMA Least ==
  ASSUME NEW Q \in SUBSET Nat, Q # {}
  PROVE  \E n \in Q : \A m \in Q : n <= m
<1> DEFINE Rel == OpToRel(<, Nat)
<1>1. IsWellFoundedOn(Rel, Nat)
  BY NatLessThanWellFounded
<1>2. \A m, n \in Nat : m < n => <<m, n>> \in Rel
  BY DEF OpToRel
<1> HIDE DEF Rel
<1>3. PICK n \in Q : \A m \in Q : <<m, n>> \notin Rel
  BY <1>1, WFMin
<1>4. \A m \in Q : ~(m < n)
  BY <1>2, <1>3
<1>5. \A m \in Q : n <= m
  BY <1>4
<1> QED BY <1>5

\* Max is the greatest of a set of numbers with a bound.
LEMMA Greatest ==
  ASSUME NEW n \in Nat, NEW Q \in SUBSET (0 .. n), Q # {}
  PROVE  Max(Q) \in Q /\ \A m \in Q : m <= Max(Q)
<1> DEFINE R == {m \in Nat : \E q \in Q : q + m = n}
<1>1. PICK q \in Q : TRUE
  OBVIOUS
<1>2. n - q \in R
  BY <1>1
<1>3. PICK m \in R : \A k \in R : m <= k
  BY <1>2, Least
<1>4. PICK g \in Q : g + m = n
  BY <1>3
<1>5. ASSUME NEW k \in Q PROVE k <= g
  <2>1. n - k \in R
    BY <1>4
  <2>2. m <= n - k
    BY <1>3, <2>1
  <2> QED BY <1>3, <1>4, <2>2
<1> QED BY <1>4, <1>5 DEF Max

\* Commands without data are passed over, others are not.
HasData(c) == c.time > 0 \/ c.buttons # {}
LEMMA Skipped ==
  ASSUME macro \in Seq(Commands), NEW i \in 1 .. Len(macro) + 1
  PROVE  /\ Skip(i) \in i .. Len(macro) + 1 /\ (i <= Len(macro) /\ HasData(macro[i]) => Skip(i) = i)
         /\ Behind = Len(macro) + 1
<1> DEFINE Q == {j \in i .. Len(macro) : macro[j].time > 0 \/ macro[j].buttons # {}} \cup {Behind}
<1>1. Len(macro) \in Nat /\ Behind = Len(macro) + 1
  BY DEF Behind
<1>2. Q \in SUBSET Nat /\ Q # {} /\ (\A j \in Q : j \in i .. Len(macro) + 1)
  BY <1>1
<1>3. \E n \in Q : \A m \in Q : n <= m
  BY <1>2, Least
<1>4. Skip(i) \in Q /\ \A m \in Q : Skip(i) <= m
  <2>1. Skip(i) = Min(Q)
    BY DEF Skip
  <2> HIDE DEF Q
  <2> QED BY <1>3, <2>1 DEF Min
<1>5. i <= Len(macro) /\ HasData(macro[i]) => i \in Q
  BY <1>1 DEF HasData
<1> HIDE DEF Q
<1>6. i \in Q => Skip(i) = i
  <2>1. ASSUME i \in Q PROVE Skip(i) = i
    <3>1. Skip(i) \in i .. Len(macro) + 1 /\ Skip(i) <= i
      BY <1>2, <1>4, <2>1
    <3> QED BY <1>1, <3>1
  <2> QED BY <2>1
<1> QED BY <1>1, <1>2, <1>4, <1>5, <1>6

-----------------------------------------------------------------------------
(* Running. *)

\* A command that is timed has data.
LEMMA TimedHasData ==
  ASSUME NEW m \in Seq(Commands), NEW s \in Seq(Held), NEW n \in 0 .. Len(m), NEW t, Timed(m, n, s, t),
         NEW i \in 1 .. n
  PROVE  HasData(m[i])
<1>1. CASE IsDelay(m[i])
  <2>1. Waits(m, s, t, i)
    BY <1>1 DEF Timed
  <2> QED BY <2>1 DEF Waits, HasData
<1>2. CASE ~IsDelay(m[i])
  <2>1. Changes(m, s, t, i) /\ t[i] \in 1 .. Len(s)
    BY <1>2 DEF Timed, Changes
  <2>2. s[t[i]] \in Held /\ Before(s, t[i]) \in Held
    BY <2>1 DEF Before, Held
  <2>3. Before(s, t[i]) # s[t[i]] /\ m[i] = Changed(Before(s, t[i]), s[t[i]])
    BY <2>1 DEF Changes
  <2>4. m[i].buttons # {}
    BY <2>2, <2>3, ChangedObeyed
  <2> QED BY <2>4 DEF HasData
<1> QED BY <1>1, <1>2

\* While a delay lasts the buttons are those before it.
LEMMA SameWhileWaiting ==
  ASSUME NEW m, NEW s, NEW t, NEW i, t[i] \in Nat \ {0}, t[i + 1] \in Nat, Waits(m, s, t, i),
         NEW f \in t[i] .. t[i + 1]
  PROVE  Before(s, f) = Before(s, t[i])
<1>1. CASE f = t[i]
  BY <1>1
<1>2. CASE f # t[i]
  <2>1. f - 1 \in t[i] .. t[i + 1] - 1 /\ f # 1
    BY <1>2
  <2> QED BY <2>1 DEF Waits, Before
<1> QED BY <1>1, <1>2

\* What a frame of a run obeys: a delay that is over is passed.
TraceNow  == Skip(cmd)
TraceTill == IF left = Unset THEN macro[TraceNow].time - (rtc + 1) ELSE left - 1
TraceOver == TraceNow < Behind /\ IsDelay(macro[TraceNow]) /\ TraceTill <= 0
TraceNext == IF TraceOver THEN Skip(TraceNow + 1) ELSE TraceNow
TraceUntil == IF TraceOver THEN Unset ELSE left

Ends  == TraceNext = Behind /\ out' = {} /\ RoundOver(TraceUntil)
Delays ==
  /\ TraceNext < Behind /\ IsDelay(macro[TraceNext]) /\ cmd' = TraceNext /\ out' = lastButtons
  /\ left' = (IF TraceOver THEN macro[TraceNext].time ELSE TraceTill)
  /\ UNCHANGED <<acting, rest, lastButtons>>
Obeys ==
  /\ TraceNext < Behind /\ ~IsDelay(macro[TraceNext]) /\ out' = Obeyed(macro[TraceNext])
  /\ IF TraceNext = Len(macro) THEN RoundOver(TraceUntil)
     ELSE /\ cmd' = TraceNext + 1 /\ lastButtons' = out' /\ left' = TraceUntil
          /\ UNCHANGED <<acting, rest>>

\* A frame ends the round, waits or obeys one command.
LEMMA TraceIs ==
  ASSUME Trace, TraceNow \in Nat, TraceNext \in 1 .. Len(macro) + 1, Behind = Len(macro) + 1,
         macro \in Seq(Commands)
  PROVE  /\ Ends \/ Delays \/ Obeys
         /\ acting = "trace" /\ rtc' = 0
         /\ frame' = (IF frame = Unset THEN Unset ELSE IF cmd = 1 THEN 1 ELSE frame + 1)
         /\ UNCHANGED <<macro, seen, twisted, tape, sure>>
<1>1. TraceNext = Behind \/ TraceNext < Behind
  OBVIOUS
<1>5. acting = "trace" /\ rtc' = 0 /\ UNCHANGED <<macro, seen, twisted, tape, sure>>
  BY DEF Trace
<1>6. frame' = (IF frame = Unset THEN Unset ELSE IF cmd = 1 THEN 1 ELSE frame + 1)
  BY DEF Trace
<1>2. CASE TraceNext = Behind
  <2>1. Ends
    BY <1>2 DEF Trace, Ends, TraceNow, TraceTill, TraceOver, TraceNext, TraceUntil, IsDelay
  <2> QED BY <2>1, <1>5, <1>6
<1>3. CASE TraceNext < Behind /\ IsDelay(macro[TraceNext])
  <2>1. Delays
    BY <1>3 DEF Trace, Delays, TraceNow, TraceTill, TraceOver, TraceNext, TraceUntil, IsDelay
  <2> QED BY <2>1, <1>5, <1>6
<1>4. CASE TraceNext < Behind /\ ~IsDelay(macro[TraceNext])
  <2>1. Obeys
    BY <1>4 DEF Trace, Obeys, TraceNow, TraceTill, TraceOver, TraceNext, TraceUntil, IsDelay
  <2> QED BY <2>1, <1>5, <1>6
<1> QED BY <1>1, <1>2, <1>3, <1>4

\* A frame keeps the types, of any macro.
LEMMA TraceTyped ==
  ASSUME Typed, Trace
  PROVE  /\ Typed' /\ TraceNow \in 1 .. Len(macro) + 1 /\ TraceNext \in 1 .. Len(macro) + 1
         /\ Behind = Len(macro) + 1
<1>1. macro \in Seq(Commands) /\ Len(macro) \in Nat /\ cmd \in 1 .. Len(macro) /\ lastButtons \in Held
      /\ frame \in Nat \cup {Unset}
  BY DEF Typed, Trace
<1>2. TraceNow \in 1 .. Len(macro) + 1 /\ Behind = Len(macro) + 1
  BY <1>1, Skipped DEF TraceNow
<1>3. TraceNext \in 1 .. Len(macro) + 1
  <2>1. CASE TraceOver
    <3>1. TraceNow + 1 \in 1 .. Len(macro) + 1
      BY <1>1, <1>2, <2>1 DEF TraceOver
    <3> QED BY <1>1, <2>1, <3>1, Skipped DEF TraceNext
  <2>2. CASE ~TraceOver
    BY <1>2, <2>2 DEF TraceNext
  <2> QED BY <2>1, <2>2
<1>4. /\ Ends \/ Delays \/ Obeys
      /\ acting = "trace" /\ rtc' = 0
      /\ frame' = (IF frame = Unset THEN Unset ELSE IF cmd = 1 THEN 1 ELSE frame + 1)
      /\ UNCHANGED <<macro, seen, twisted, tape, sure>>
  BY <1>1, <1>2, <1>3, TraceIs
<1>5. frame' \in Nat \cup {Unset}
  BY <1>1, <1>4
<1>6. ASSUME NEW until, RoundOver(until)
      PROVE  /\ acting' \in {"none", "trace"} /\ lastButtons' \in Held
             /\ acting' = "trace" => cmd' \in 1 .. Len(macro)
  BY <1>1, <1>4, <1>6 DEF RoundOver, Stopped, Held
<1>7. /\ acting' \in {"none", "trace"} /\ lastButtons' \in Held
      /\ acting' = "trace" => cmd' \in 1 .. Len(macro)
  <2>1. CASE Ends
    BY <1>6, <2>1 DEF Ends
  <2>2. CASE Delays
    BY <1>1, <1>2, <1>3, <1>4, <2>2 DEF Delays
  <2>3. CASE Obeys
    <3>1. TraceNext \in 1 .. Len(macro) /\ macro[TraceNext] \in Commands
      BY <1>1, <1>2, <1>3, <2>3 DEF Obeys
    <3>2. Obeyed(macro[TraceNext]) \in Held
      BY <1>1, <2>3, <3>1 DEF Obeys, Obeyed, Commands, Actions, Held, IsDelay
    <3>3. CASE TraceNext = Len(macro)
      BY <1>6, <2>3, <3>3 DEF Obeys
    <3>4. CASE TraceNext # Len(macro)
      BY <1>1, <1>4, <2>3, <3>1, <3>2, <3>4 DEF Obeys
    <3> QED BY <3>3, <3>4
  <2> QED BY <1>4, <2>1, <2>2, <2>3
<1>8. Typed'
  BY <1>4, <1>5, <1>7 DEF Typed
<1> QED BY <1>2, <1>3, <1>8

\* What is known of a run: F is the frame of the round that the last one was, and k the command.
Run(t, F, k) ==
  /\ Typed /\ Timed(macro, Len(macro), tape, t) /\ t[Len(macro) + 1] = Len(tape) + 1
  /\ F \in 0 .. Len(tape) /\ k \in 1 .. Len(macro) /\ lastButtons = Before(tape, F + 1)

LEMMA RunFacts ==
  ASSUME NEW t, NEW F, NEW k, Run(t, F, k)
  PROVE  /\ Len(macro) \in Nat /\ Len(tape) \in Nat /\ F \in Nat /\ k \in Nat
         /\ \A i \in 1 .. Len(macro) + 1 : t[i] \in 1 .. Len(tape) + 1
         /\ \A i \in 1 .. Len(macro) :
              /\ HasData(macro[i]) /\ Skip(i) = i
              /\ IF IsDelay(macro[i]) THEN Waits(macro, tape, t, i) ELSE Changes(macro, tape, t, i)
         /\ Skip(Len(macro) + 1) = Len(macro) + 1 /\ Behind = Len(macro) + 1 /\ ~IsDelay(macro[1])
         /\ t[1] = 1
<1>1. macro \in Seq(Commands) /\ tape \in Seq(Held) /\ Len(macro) \in Nat /\ Len(tape) \in Nat
  BY DEF Run, Typed
<1>2. \A i \in 1 .. Len(macro) : HasData(macro[i])
  BY <1>1, TimedHasData DEF Run
<1>3. \A i \in 1 .. Len(macro) + 1 :
        Skip(i) \in i .. Len(macro) + 1 /\ (i <= Len(macro) /\ HasData(macro[i]) => Skip(i) = i)
  BY <1>1, Skipped
<1>4. \A i \in 1 .. Len(macro) : Skip(i) = i
  BY <1>1, <1>2, <1>3
<1>5. Skip(Len(macro) + 1) = Len(macro) + 1
  BY <1>1, <1>3
<1>6. Behind = Len(macro) + 1
  BY DEF Behind
<1>7. \A i \in 1 .. Len(macro) :
        IF IsDelay(macro[i]) THEN Waits(macro, tape, t, i) ELSE Changes(macro, tape, t, i)
  BY DEF Run, Timed
<1>8. t[1] = 1 /\ \A i \in 1 .. Len(macro) + 1 : t[i] \in 1 .. Len(tape) + 1
  <2>1. t \in [1 .. Len(macro) + 1 -> 1 .. Len(tape) + 1] /\ t[1] = 1
    BY DEF Run, Timed
  <2> QED BY <2>1
<1>9. F \in Nat /\ k \in Nat /\ Len(macro) > 0
  BY <1>1 DEF Run
<1>10. ~IsDelay(macro[1])
  BY <1>9 DEF Run, Timed
<1> QED BY <1>1, <1>2, <1>4, <1>5, <1>6, <1>7, <1>8, <1>9, <1>10

\* What holds after a frame of a run.
Played(t, F) ==
  /\ acting' = "trace" => Playing(t)'
  /\ out' = (IF F + 1 <= Len(tape) THEN tape[F + 1] ELSE {})
  /\ acting' = "none" \/ cmd' = 1 => F + 1 >= Len(tape)

\* A round that is over begins again, or the run has ended.
LEMMA RoundEnds ==
  ASSUME NEW t, NEW F, NEW k, Run(t, F, k), RoundOver(Unset), UNCHANGED <<macro, tape>>, rtc' = 0,
         acting = "trace", out' = (IF F + 1 <= Len(tape) THEN tape[F + 1] ELSE {}),
         F + 1 >= Len(tape)
  PROVE  Played(t, F)
<1>1. ASSUME acting' = "trace" PROVE Playing(t)'
  <2>1. lastButtons' = {} /\ cmd' = 1 /\ left' = Unset
    BY <1>1 DEF RoundOver, Stopped
  <2>2. Clock' = 0
    BY <2>1 DEF Clock
  <2>3. t[1] = 1 /\ Len(macro) \in Nat /\ 1 \in 1 .. Len(macro) /\ Len(tape) \in Nat
    <3>1. Len(macro) \in Nat /\ Len(tape) \in Nat /\ k \in 1 .. Len(macro) /\ t[1] = 1
      BY RunFacts DEF Run
    <3> QED BY <3>1
  <2>4. Extra(macro', cmd') = 0 /\ Before(tape', 1) = {}
    BY <2>1 DEF Extra, Before
  <2> QED BY <2>1, <2>2, <2>3, <2>4 DEF Playing
<1> QED BY <1>1 DEF Played

\* The command for a change is obeyed in its frame.
LEMMA ObeysInTime ==
  ASSUME NEW t, NEW F, NEW k, Run(t, F, k), ~IsDelay(macro[k]), t[k] = F + 1, TraceNext = k,
         TraceUntil = Unset, Obeys, UNCHANGED <<macro, tape>>, rtc' = 0, acting = "trace",
         frame' = F + 1
  PROVE  Played(t, F)
<1>1. /\ Len(macro) \in Nat /\ Len(tape) \in Nat /\ F \in Nat /\ k \in 1 .. Len(macro)
      /\ Changes(macro, tape, t, k) /\ t[Len(macro) + 1] = Len(tape) + 1
  BY RunFacts DEF Run
<1>2. F + 1 \in 1 .. Len(tape) /\ t[k + 1] = F + 2
  BY <1>1 DEF Changes
<1>3. out' = tape[F + 1]
  <2>1. tape[F + 1] \in Held /\ lastButtons \in Held /\ lastButtons # tape[F + 1]
        /\ macro[k] = Changed(lastButtons, tape[F + 1])
    BY <1>1, <1>2 DEF Changes, Run, Typed
  <2>2. Obeyed(macro[k]) = tape[F + 1]
    BY <2>1, ChangedObeyed
  <2> QED BY <2>2 DEF Obeys
<1>4. CASE k = Len(macro)
  <2>1. RoundOver(Unset)
    BY <1>4 DEF Obeys
  <2>2. F + 1 = Len(tape)
    BY <1>1, <1>2, <1>4
  <2> QED BY <1>1, <1>2, <1>3, <2>1, <2>2, RoundEnds
<1>5. CASE k # Len(macro)
  <2>1. cmd' = k + 1 /\ lastButtons' = tape[F + 1] /\ left' = Unset /\ acting' = "trace"
    BY <1>3, <1>5 DEF Obeys
  <2>2. Clock' = F + 1 /\ cmd' # 1 /\ cmd' \in 1 .. Len(macro)
    BY <1>1, <1>5, <2>1 DEF Clock
  <2>3. Extra(macro, k + 1) = 0 /\ Before(tape, F + 2) = tape[F + 1]
    <3>1. F + 2 # 1 /\ F + 2 - 1 = F + 1 /\ k + 1 - 1 = k
      BY <1>1
    <3>2. macro[k + 1 - 1] = macro[k] /\ tape[F + 2 - 1] = tape[F + 1]
      BY <3>1
    <3>3. Extra(macro, k + 1) = 0
      BY <1>1, <3>1, <3>2 DEF Extra
    <3>4. Before(tape, F + 2) = tape[F + 1]
      BY <1>1, <3>1, <3>2 DEF Before
    <3> QED BY <3>3, <3>4
  <2>4. F + 1 + 1 = F + 2 /\ F + 1 \in Nat /\ F + 1 <= Len(tape)
    BY <1>1, <1>2
  <2>5. Playing(t)'
    BY <1>2, <2>1, <2>2, <2>3, <2>4 DEF Playing
  <2> QED BY <1>2, <1>3, <2>1, <2>2, <2>4, <2>5 DEF Played
<1> QED BY <1>4, <1>5

\* While a delay lasts the buttons stay as they are: n frames are left after this one.
LEMMA DelaysInTime ==
  ASSUME NEW t, NEW F, NEW k, Run(t, F, k), IsDelay(macro[k]), TraceNext = k, k # 1,
         NEW n \in Nat \ {0}, t[k] <= F + 1, t[k + 1] = F + 1 + n,
         Delays, left' = n, UNCHANGED <<macro, tape>>, rtc' = 0, acting = "trace", frame' = F + 1
  PROVE  Played(t, F)
<1>1. /\ Len(macro) \in Nat /\ Len(tape) \in Nat /\ F \in Nat /\ k \in 1 .. Len(macro)
      /\ Waits(macro, tape, t, k)
      /\ t[k] \in 1 .. Len(tape) + 1 /\ t[k + 1] \in 1 .. Len(tape) + 1
  <2>1. /\ Len(macro) \in Nat /\ Len(tape) \in Nat /\ F \in Nat /\ k \in 1 .. Len(macro)
        /\ Waits(macro, tape, t, k) /\ \A i \in 1 .. Len(macro) + 1 : t[i] \in 1 .. Len(tape) + 1
    BY RunFacts DEF Run
  <2> QED BY <2>1
<1>2. F + 1 \in t[k] .. t[k + 1] - 1 /\ F + 1 <= Len(tape) /\ F + 1 \in t[k] .. t[k + 1]
      /\ F + 2 \in t[k] .. t[k + 1]
  BY <1>1
<1>3. Before(tape, F + 1) = Before(tape, t[k]) /\ Before(tape, F + 2) = Before(tape, t[k])
  BY <1>1, <1>2, SameWhileWaiting
<1>4. tape[F + 1] = lastButtons
  <2>1. tape[F + 1] = Before(tape, t[k])
    BY <1>1, <1>2 DEF Waits
  <2> QED BY <1>3, <2>1 DEF Run
<1>5. out' = lastButtons /\ cmd' = k /\ lastButtons' = lastButtons /\ acting' = "trace"
  BY DEF Delays
<1>6. Clock' = F + 1 /\ F + 1 \in Nat
  BY <1>1, <1>5 DEF Clock
<1>7. lastButtons' = Before(tape, F + 2)
  BY <1>3, <1>5 DEF Run
<1>8. left' # Unset /\ F + 1 + 1 = F + 2
  BY <1>1 DEF Unset
<1>9. Playing(t)'
  BY <1>1, <1>2, <1>5, <1>6, <1>7, <1>8 DEF Playing
<1> QED BY <1>1, <1>2, <1>4, <1>5, <1>9 DEF Played

\* A frame of a run adds what was recorded for it.
LEMMA TracePlays ==
  ASSUME Typed, Trace, frame # Unset, NEW t, Recorded(t), Playing(t)
  PROVE  Played(t, Clock) /\ frame' = Clock + 1 /\ UNCHANGED <<macro, tape, sure>>
<1> DEFINE F == Clock
           k == cmd
           end == Len(macro) + 1
<1>1. Run(t, F, k)
  <2>1. Len(tape) \in Nat
    BY DEF Typed
  <2> QED BY <2>1 DEF Run, Recorded, Playing
<1>2. /\ Ends \/ Delays \/ Obeys
      /\ acting = "trace" /\ rtc' = 0 /\ UNCHANGED <<macro, tape, sure>>
      /\ frame' = (IF cmd = 1 THEN 1 ELSE frame + 1)
  BY TraceTyped, TraceIs DEF Typed
<1>3. frame' = F + 1
  BY <1>2 DEF Clock
<1>4. /\ Len(macro) \in Nat /\ Len(tape) \in Nat /\ F \in Nat /\ k \in 1 .. Len(macro)
      /\ \A i \in 1 .. end : t[i] \in 1 .. Len(tape) + 1
      /\ \A i \in 1 .. Len(macro) :
           /\ HasData(macro[i]) /\ Skip(i) = i
           /\ IF IsDelay(macro[i]) THEN Waits(macro, tape, t, i) ELSE Changes(macro, tape, t, i)
      /\ Skip(end) = end /\ Behind = end /\ ~IsDelay(macro[1])
      /\ t[end] = Len(tape) + 1
  BY <1>1, RunFacts DEF Run
<1>5. TraceNow = k /\ k < Behind /\ k + 1 \in 2 .. end
  BY <1>4 DEF TraceNow
<1>6. /\ rtc = 0
      /\ IF left = Unset THEN F + 1 = t[k] /\ Extra(macro, k) = 0
         ELSE IsDelay(macro[k]) /\ left \in Nat \ {0} /\ t[k] <= F /\ F + left = t[k + 1]
  BY DEF Playing
<1>7. \A i : i < end /\ i \in Nat /\ i # 0 => i \in 1 .. Len(macro) /\ i # end
  BY <1>4
<1>10. F \in Nat /\ Len(tape) \in Nat /\ end \in Nat /\ Behind = end
  BY <1>4
<1>11. \A i \in 1 .. Len(macro) : t[i] \in Nat /\ t[i + 1] \in Nat
  <2>1. \A i \in 1 .. Len(macro) : i \in 1 .. end /\ i + 1 \in 1 .. end
    BY <1>4
  <2> QED BY <1>4, <2>1
<1> HIDE DEF F, k, end
<1>8. CASE ~IsDelay(macro[k])
  <2>1. left = Unset /\ t[k] = F + 1
    BY <1>6, <1>8
  <2>2. TraceNext = k /\ TraceUntil = Unset
    BY <1>5, <1>8, <2>1 DEF TraceNext, TraceUntil, TraceOver
  <2>3. Obeys
    <3>1. TraceNext # Behind
      BY <1>4, <1>5, <2>2
    <3> QED BY <1>2, <1>8, <2>2, <3>1 DEF Ends, Delays
  <2>4. Played(t, F)
    BY <1>1, <1>2, <1>3, <1>8, <2>1, <2>2, <2>3, ObeysInTime
  <2> QED BY <1>2, <1>3, <2>4 DEF F
<1>9. CASE IsDelay(macro[k])
  <2> DEFINE till == TraceTill
  <2>1. till \in Nat /\ t[k + 1] = F + 1 + till /\ t[k] <= F + 1 /\ k # 1
    <3>1. Waits(macro, tape, t, k) /\ k # 1 /\ t[k] \in Nat /\ t[k + 1] \in Nat
      BY <1>4, <1>9, <1>11
    <3>2. CASE left = Unset
      <4>1. till = macro[k].time - 1 /\ macro[k].time \in Nat \ {0}
            /\ t[k + 1] = t[k] + macro[k].time - 1
        BY <1>5, <1>6, <3>1, <3>2 DEF TraceTill, Waits
      <4> QED BY <1>6, <1>10, <3>1, <3>2, <4>1
    <3>3. CASE left # Unset
      <4>1. till = left - 1
        BY <3>3 DEF TraceTill
      <4> QED BY <1>6, <1>10, <3>1, <3>3, <4>1
    <3> QED BY <3>2, <3>3
  <2> HIDE DEF till
  <2>2. CASE till # 0
    <3>1. ~TraceOver /\ TraceNext = k
      BY <1>5, <2>1, <2>2 DEF TraceOver, TraceNext, till
    <3>2. Delays /\ left' = till
      <4>1. TraceNext # Behind
        BY <1>4, <1>5, <3>1
      <4> QED BY <1>2, <1>9, <3>1, <4>1 DEF Ends, Obeys, Delays, till
    <3>3. Played(t, F)
      BY <1>1, <1>2, <1>3, <1>9, <2>1, <2>2, <3>1, <3>2, DelaysInTime
    <3> QED BY <1>2, <1>3, <3>3 DEF F
  <2>3. CASE till = 0
    <3>1. TraceOver /\ TraceNext = Skip(k + 1) /\ TraceUntil = Unset
      BY <1>5, <1>9, <2>3 DEF TraceOver, TraceNext, TraceUntil, till
    <3>2. t[k + 1] = F + 1
      BY <1>4, <2>1, <2>3
    <3>3. CASE k + 1 = end
      <4>1. TraceNext = Behind
        BY <1>4, <3>1, <3>3
      <4>2. Ends
        BY <1>2, <4>1, <1>10 DEF Delays, Obeys
      <4>3. F = Len(tape)
        BY <1>4, <3>2, <3>3
      <4>4. out' = (IF F + 1 <= Len(tape) THEN tape[F + 1] ELSE {}) /\ F + 1 >= Len(tape)
        BY <1>4, <4>2, <4>3 DEF Ends
      <4>5. RoundOver(Unset)
        BY <3>1, <4>2 DEF Ends
      <4>6. Played(t, F)
        BY <1>1, <1>2, <4>4, <4>5, RoundEnds
      <4> QED BY <1>2, <1>3, <4>6 DEF F
    <3>4. CASE k + 1 # end
      <4> DEFINE j == k + 1
      <4>1. j \in 1 .. Len(macro) /\ j # 1 /\ TraceNext = j /\ TraceNext # Behind /\ j - 1 = k
            /\ j + 1 \in 1 .. end
        BY <1>4, <1>5, <3>1, <3>4 DEF end
      <4> HIDE DEF j
      <4>2. Run(t, F, j) /\ t[j] = F + 1
        BY <1>1, <3>2, <4>1 DEF Run, j
      <4>3. CASE ~IsDelay(macro[j])
        <5>1. Obeys
          BY <1>2, <4>1, <4>3 DEF Ends, Delays
        <5>2. Played(t, F)
          BY <1>2, <1>3, <3>1, <4>1, <4>2, <4>3, <5>1, ObeysInTime
        <5> QED BY <1>2, <1>3, <5>2 DEF F
      <4>4. CASE IsDelay(macro[j])
        <5>1. Delays /\ left' = macro[j].time
          BY <1>2, <3>1, <4>1, <4>4 DEF Ends, Obeys, Delays
        <5>2. macro[j].time \in Nat \ {0} /\ t[j + 1] = F + 1 + macro[j].time
          <6>1. Waits(macro, tape, t, j) /\ Extra(macro, j) = 1
            <7>1. j > 1
              BY <4>1
            <7> QED BY <1>4, <1>9, <4>1, <4>4, <7>1 DEF Extra
          <6> QED BY <1>4, <4>2, <6>1 DEF Waits
        <5>3. Played(t, F)
          <6>1. t[j] <= F + 1
            BY <1>10, <4>2
          <6> QED BY <1>2, <1>3, <4>1, <4>2, <4>4, <5>1, <5>2, <6>1, DelaysInTime
        <5> QED BY <1>2, <1>3, <5>3 DEF F
      <4> QED BY <4>3, <4>4
    <3> QED BY <3>3, <3>4
  <2> QED BY <2>2, <2>3
<1> QED BY <1>8, <1>9

-----------------------------------------------------------------------------
(* Recording. *)

\* More frames leave the buttons before the first ones.
LEMMA BeforeExtends ==
  ASSUME NEW s, NEW r, Len(s) \in Nat, \A f \in 1 .. Len(s) : r[f] = s[f],
         NEW f \in 1 .. Len(s) + 1
  PROVE  Before(r, f) = Before(s, f)
<1>1. CASE f = 1
  BY <1>1 DEF Before
<1>2. CASE f # 1
  <2>1. f - 1 \in 1 .. Len(s)
    BY <1>2
  <2> QED BY <1>2, <2>1 DEF Before
<1> QED BY <1>1, <1>2

\* What has been timed stays so when more is recorded.
LEMMA TimedExtends ==
  ASSUME NEW m, NEW n \in Nat, NEW s \in Seq(Held), NEW t, Timed(m, n, s, t),
         NEW l, NEW r \in Seq(Held), Len(s) <= Len(r),
         \A i \in 1 .. n : l[i] = m[i], \A f \in 1 .. Len(s) : r[f] = s[f]
  PROVE  Timed(l, n, r, t)
<1>1. Len(s) \in Nat /\ Len(r) \in Nat /\ \A i \in 1 .. n + 1 : t[i] \in 1 .. Len(s) + 1
  BY DEF Timed
<1>2. \A f \in 1 .. Len(s) + 1 : Before(r, f) = Before(s, f)
  BY <1>1, BeforeExtends
<1>3. t \in [1 .. n + 1 -> 1 .. Len(r) + 1] /\ t[1] = 1
  <2>1. t \in [1 .. n + 1 -> 1 .. Len(s) + 1] /\ t[1] = 1
    BY DEF Timed
  <2>2. 1 .. Len(s) + 1 \subseteq 1 .. Len(r) + 1
    BY <1>1
  <2> QED BY <2>1, <2>2
<1>4. ASSUME NEW i \in 1 .. n
      PROVE  IF IsDelay(l[i]) THEN Waits(l, r, t, i) ELSE Changes(l, r, t, i)
  <2>1. t[i] \in 1 .. Len(s) + 1 /\ t[i + 1] \in 1 .. Len(s) + 1 /\ l[i] = m[i]
    BY <1>1
  <2>2. Extra(l, i) = Extra(m, i)
    <3>1. i > 1 => l[i - 1] = m[i - 1]
      OBVIOUS
    <3> QED BY <3>1 DEF Extra
  <2>3. Before(r, t[i]) = Before(s, t[i])
    BY <1>2, <2>1
  <2>4. CASE IsDelay(m[i])
    <3>1. Waits(m, s, t, i)
      BY <2>4 DEF Timed
    <3>2. ASSUME NEW f \in t[i] .. t[i + 1] - 1 PROVE r[f] = s[f]
      <4>1. f \in 1 .. Len(s)
        BY <1>1, <2>1
      <4> QED BY <4>1
    <3> QED BY <2>1, <2>2, <2>3, <2>4, <3>1, <3>2 DEF Waits
  <2>5. CASE ~IsDelay(m[i])
    <3>1. Changes(m, s, t, i)
      BY <2>5 DEF Timed
    <3>2. t[i] \in 1 .. Len(s) /\ r[t[i]] = s[t[i]] /\ t[i] \in 1 .. Len(r)
      BY <1>1, <3>1 DEF Changes
    <3> QED BY <2>1, <2>3, <2>5, <3>1, <3>2 DEF Changes
  <2> QED BY <2>1, <2>4, <2>5
<1>5. ASSUME NEW f \in 1 .. t[n + 1] - 1, r[f] # Before(r, f)
      PROVE  \E i \in 1 .. n : ~IsDelay(l[i]) /\ t[i] = f
  <2>1. f \in 1 .. Len(s)
    BY <1>1
  <2>2. s[f] # Before(s, f)
    BY <1>1, <1>2, <1>5, <2>1
  <2>3. PICK i \in 1 .. n : ~IsDelay(m[i]) /\ t[i] = f
    BY <2>2 DEF Timed
  <2> QED BY <2>3
<1>6. (n > 0 => ~IsDelay(l[1])) /\ \A i, j \in 1 .. n + 1 : i <= j => t[i] <= t[j]
  BY DEF Timed
<1> QED BY <1>3, <1>4, <1>5, <1>6 DEF Timed

\* One more command, after which the next can be obeyed at the earliest in frame e.
More(t, n, e) == [i \in 1 .. n + 2 |-> IF i <= n + 1 THEN t[i] ELSE e]

LEMMA TimedMore ==
  ASSUME NEW m, NEW n \in Nat, NEW s \in Seq(Held), NEW t, Timed(m, n, s, t), NEW e \in Nat,
         t[n + 1] <= e, e <= Len(s) + 1, n = 0 => ~IsDelay(m[1]),
         IF IsDelay(m[n + 1]) THEN Waits(m, s, More(t, n, e), n + 1)
                              ELSE Changes(m, s, More(t, n, e), n + 1)
  PROVE  Timed(m, n + 1, s, More(t, n, e))
<1> DEFINE u == More(t, n, e)
<1>1. /\ Len(s) \in Nat /\ t[1] = 1
      /\ \A i \in 1 .. n + 1 : t[i] \in 1 .. Len(s) + 1
      /\ \A i, j \in 1 .. n + 1 : i <= j => t[i] <= t[j]
      /\ \A i \in 1 .. n : IF IsDelay(m[i]) THEN Waits(m, s, t, i) ELSE Changes(m, s, t, i)
      /\ n > 0 => ~IsDelay(m[1])
  BY DEF Timed
<1>2. /\ \A i \in 1 .. n + 1 : u[i] = t[i]
      /\ u[n + 2] = e /\ u[n + 1] = t[n + 1]
      /\ u = [i \in 1 .. n + 2 |-> IF i <= n + 1 THEN t[i] ELSE e]
      /\ n + 1 \in 1 .. n + 1 /\ n + 1 + 1 = n + 2
  BY DEF More
<1>3. IF IsDelay(m[n + 1]) THEN Waits(m, s, u, n + 1) ELSE Changes(m, s, u, n + 1)
  OBVIOUS
<1> HIDE DEF u
<1>4. u \in [1 .. n + 2 -> 1 .. Len(s) + 1] /\ u[1] = 1
  <2>1. \A i \in 1 .. n + 2 : (IF i <= n + 1 THEN t[i] ELSE e) \in 1 .. Len(s) + 1
    <3>1. e \in 1 .. Len(s) + 1 /\ \A i \in 1 .. n + 2 : i <= n + 1 => i \in 1 .. n + 1
      BY <1>1, <1>2
    <3> QED BY <1>1, <3>1
  <2> QED BY <1>1, <1>2, <2>1
<1>5. ASSUME NEW i \in 1 .. n + 1
      PROVE  IF IsDelay(m[i]) THEN Waits(m, s, u, i) ELSE Changes(m, s, u, i)
  <2>1. CASE i = n + 1
    BY <1>3, <2>1
  <2>2. CASE i # n + 1
    <3>1. i \in 1 .. n /\ u[i] = t[i] /\ u[i + 1] = t[i + 1]
      BY <1>2, <2>2
    <3>2. IF IsDelay(m[i]) THEN Waits(m, s, t, i) ELSE Changes(m, s, t, i)
      BY <1>1, <3>1
    <3> QED BY <3>1, <3>2 DEF Waits, Changes
  <2> QED BY <2>1, <2>2
<1>6. ASSUME NEW i \in 1 .. n + 2, NEW j \in 1 .. n + 2, i <= j PROVE u[i] <= u[j]
  <2>1. CASE j <= n + 1
    <3>1. i \in 1 .. n + 1 /\ j \in 1 .. n + 1
      BY <1>6, <2>1
    <3> QED BY <1>1, <1>2, <1>6, <3>1
  <2>2. CASE i = n + 2
    <3>1. j = n + 2
      BY <1>6, <2>2
    <3> QED BY <1>2, <2>2, <3>1
  <2>3. CASE j = n + 2 /\ i <= n + 1
    <3>1. i \in 1 .. n + 1
      BY <2>3
    <3>2. t[i] <= t[n + 1] /\ t[i] \in Nat /\ t[n + 1] \in Nat
      BY <1>1, <1>2, <3>1
    <3> QED BY <1>2, <2>3, <3>1, <3>2
  <2>4. j <= n + 1 \/ j = n + 2
    OBVIOUS
  <2>5. i <= n + 1 \/ i = n + 2
    OBVIOUS
  <2> QED BY <2>1, <2>2, <2>3, <2>4, <2>5
<1>7. ASSUME NEW f \in 1 .. e - 1, s[f] # Before(s, f)
      PROVE  \E i \in 1 .. n + 1 : ~IsDelay(m[i]) /\ u[i] = f
  <2>1. t[n + 1] \in Nat
    BY <1>1, <1>2
  <2>2. CASE f <= t[n + 1] - 1
    <3>1. f \in 1 .. t[n + 1] - 1
      BY <2>1, <2>2
    <3>2. PICK i \in 1 .. n : ~IsDelay(m[i]) /\ t[i] = f
      BY <1>7, <3>1 DEF Timed
    <3>3. i \in 1 .. n + 1
      OBVIOUS
    <3> QED BY <1>2, <3>2, <3>3
  <2>3. CASE f >= t[n + 1]
    <3>1. f \in t[n + 1] .. e /\ f \in t[n + 1] .. e - 1
      BY <2>1, <2>3
    <3>2. CASE IsDelay(m[n + 1])
      <4>1. Waits(m, s, u, n + 1) /\ u[n + 1] \in Nat \ {0} /\ u[n + 1 + 1] = e
        BY <1>1, <1>2, <1>3, <3>2
      <4>2. Before(s, f) = Before(s, u[n + 1])
        <5>1. u[n + 1] = t[n + 1] /\ e \in Nat /\ u[n + 1 + 1] \in Nat
          BY <1>2, <4>1
        <5>2. f \in u[n + 1] .. u[n + 1 + 1]
          BY <3>1, <4>1, <5>1
        <5> QED BY <4>1, <5>1, <5>2, SameWhileWaiting
      <4>3. s[f] = Before(s, u[n + 1])
        BY <1>2, <3>1, <4>1 DEF Waits
      <4> QED BY <1>7, <4>2, <4>3
    <3>3. CASE ~IsDelay(m[n + 1])
      <4>1. e = t[n + 1] + 1
        BY <1>2, <1>3, <3>3 DEF Changes
      <4>2. u[n + 1] = f
        BY <1>2, <2>1, <3>1, <4>1
      <4> QED BY <1>2, <3>3, <4>2
    <3> QED BY <3>2, <3>3
  <2> QED BY <2>1, <2>2, <2>3
<1>8. ~IsDelay(m[1])
  BY <1>1
<1>9. Timed(m, n + 1, s, u)
  BY <1>2, <1>4, <1>5, <1>6, <1>7, <1>8 DEF Timed
<1> QED BY <1>9 DEF u

\* What a frame of a recording adds to the frames.
Added(pad) == IF cmd = 1 /\ pad = {} THEN <<>> ELSE Pause(pad) \o <<pad>>

\* The frame is the last one, and before it is at most a pause, with nothing down.
LEMMA AddedIs ==
  ASSUME Typed, NEW pad \in Held
  PROVE  /\ Added(pad) \in Seq(Held) /\ Len(Added(pad)) \in 0 .. 2
         /\ Len(Added(pad)) = (IF cmd = 1 /\ pad = {} THEN 0
                               ELSE IF Pause(pad) = <<>> THEN 1 ELSE 2)
         /\ \A i \in 1 .. Len(Added(pad)) : Added(pad)[i] = pad
         /\ Pause(pad) \in {<<>>, <<{}>>}
         /\ seen \o Added(pad) \in Seq(Held)
<1>1. {} \in Held /\ seen \in Seq(Held)
  BY DEF Held, Typed
<1>2. Pause(pad) = <<>> \/ (Pause(pad) = <<{}>> /\ pad = {})
  BY DEF Pause
<1>3. CASE cmd = 1 /\ pad = {}
  BY <1>1, <1>2, <1>3 DEF Added
<1>4. CASE ~(cmd = 1 /\ pad = {}) /\ Pause(pad) = <<>>
  <2>1. Added(pad) = <<>> \o <<pad>>
    BY <1>4 DEF Added
  <2> QED BY <1>1, <1>4, <2>1
<1>5. CASE ~(cmd = 1 /\ pad = {}) /\ Pause(pad) = <<{}>> /\ pad = {}
  <2>1. Added(pad) = <<pad>> \o <<pad>>
    <3>1. <<{}>> = <<pad>>
      BY <1>5
    <3> QED BY <1>5, <3>1 DEF Added
  <2>2. Added(pad) \in Seq(Held) /\ Len(Added(pad)) = 2 /\ \A i \in 1 .. 2 : Added(pad)[i] = pad
    <3> HIDE DEF Added
    <3> QED BY <2>1
  <2>3. Pause(pad) # <<>>
    <3>1. Len(<<{}>>) = 1 /\ Len(<<>>) = 0
      OBVIOUS
    <3> QED BY <1>5, <3>1
  <2> HIDE DEF Added, Pause
  <2> QED BY <1>1, <1>2, <1>5, <2>2, <2>3
<1> QED BY <1>2, <1>3, <1>4, <1>5

\* The commands after a frame with other buttons.
Closed == IF macro[cmd] = Delay(0) THEN Front(macro) ELSE [macro EXCEPT ![cmd] = Delay(rtc + 1)]

LEMMA RecordIs ==
  ASSUME Typed, NEW pad \in Held, Record(pad)
  PROVE  /\ acting = "record" /\ acting' = "record" /\ cmd = Len(macro) /\ cmd \in Nat \ {0}
         /\ UNCHANGED <<left, rest, out, tape, sure, frame>>
         /\ seen' = seen \o Added(pad)
         /\ twisted' = (/\ pad \cap MenuButtons # {}
                        /\ twisted \/ (/\ pad \ lastButtons # {} /\ lastButtons \ pad # {}
                                       /\ lastButtons \cap MenuButtons # {}))
         /\ pad = lastButtons =>
              /\ cmd' = cmd /\ lastButtons' = pad
              /\ cmd = 1 => macro' = macro /\ rtc' = 0
              /\ cmd > 1 => macro' = [macro EXCEPT ![cmd] = Delay(rtc + 1)] /\ rtc' = rtc + 1
         /\ pad # lastButtons =>
              /\ macro' = Closed \o <<Changed(lastButtons, pad), Delay(0)>>
              /\ cmd' = Len(macro') /\ lastButtons' = pad /\ rtc' = 0
<1>1. acting = "record" /\ cmd = Len(macro) /\ cmd \in Nat \ {0} /\ seen \in Seq(Held)
  BY DEF Typed, Record
<1>2. seen' = seen \o Added(pad)
  <2>1. CASE cmd = 1 /\ pad = {}
    BY <1>1, <2>1 DEF Record, Added
  <2>2. CASE ~(cmd = 1 /\ pad = {})
    <3>1. seen' = seen \o Pause(pad) \o <<pad>>
      BY <2>2 DEF Record
    <3>2. Pause(pad) \in Seq(Held)
      <4>1. Pause(pad) = <<>> \/ Pause(pad) = <<{}>>
        BY DEF Pause
      <4>2. <<>> \in Seq(Held) /\ <<{}>> \in Seq(Held)
        BY DEF Held
      <4> QED BY <4>1, <4>2
    <3>3. (seen \o Pause(pad)) \o <<pad>> = seen \o (Pause(pad) \o <<pad>>)
      BY <1>1, <3>2
    <3> QED BY <2>2, <3>1, <3>3 DEF Added
  <2> QED BY <2>1, <2>2
<1>3. acting' = acting /\ UNCHANGED <<left, rest, out, tape, sure, frame>>
  BY DEF Record
<1>4. twisted' = (/\ pad \cap MenuButtons # {}
                  /\ twisted \/ (/\ pad \ lastButtons # {} /\ lastButtons \ pad # {}
                                 /\ lastButtons \cap MenuButtons # {}))
  BY DEF Record
<1>5. ASSUME pad = lastButtons
      PROVE  /\ cmd' = cmd /\ lastButtons' = pad
             /\ cmd = 1 => macro' = macro /\ rtc' = 0
             /\ cmd > 1 => macro' = [macro EXCEPT ![cmd] = Delay(rtc + 1)] /\ rtc' = rtc + 1
  BY <1>1, <1>5 DEF Record
<1>6. ASSUME pad # lastButtons
      PROVE  /\ macro' = Closed \o <<Changed(lastButtons, pad), Delay(0)>>
             /\ cmd' = Len(macro') /\ lastButtons' = pad /\ rtc' = 0
  BY <1>1, <1>6 DEF Record, Closed
<1> QED BY <1>1, <1>2, <1>3, <1>4, <1>5, <1>6

\* The commands are typed, and their number grows by two, or by one if the last was no delay.
LEMMA ClosedIs ==
  ASSUME Typed, acting = "record", NEW c \in Commands,
         macro[cmd] = Delay(rtc)
  PROVE  LET m == Closed \o <<c, Delay(0)>>
             q == IF rtc = 0 THEN cmd - 1 ELSE cmd
         IN  /\ m \in Seq(Commands) /\ Len(m) = q + 2 /\ m[q + 1] = c /\ m[q + 2] = Delay(0)
             /\ \A i \in 1 .. cmd - 1 : m[i] = macro[i]
             /\ rtc # 0 => m[cmd] = Delay(rtc + 1)
<1>1. macro \in Seq(Commands) /\ cmd = Len(macro) /\ cmd \in Nat \ {0} /\ rtc \in Nat
  BY DEF Typed
<1>2. \A n \in Nat : Delay(n) \in Commands
  BY DEF Delay, Commands, Actions, Held
<1>3. rtc = 0 <=> macro[cmd] = Delay(0)
  <2>1. \A n \in Nat : Delay(n).time = n
    BY DEF Delay
  <2> QED BY <1>1, <2>1
<1>4. CASE rtc = 0
  <2>1. Closed = SubSeq(macro, 1, cmd - 1)
    BY <1>1, <1>3, <1>4 DEF Closed, Front
  <2>2. Closed \in Seq(Commands) /\ Len(Closed) = cmd - 1
        /\ \A i \in 1 .. cmd - 1 : Closed[i] = macro[i]
    BY <1>1, <2>1
  <2> HIDE DEF Closed
  <2> QED BY <1>1, <1>2, <1>4, <2>2
<1>5. CASE rtc # 0
  <2>1. Closed = [macro EXCEPT ![cmd] = Delay(rtc + 1)]
    BY <1>3, <1>5 DEF Closed
  <2>2. Closed \in Seq(Commands) /\ Len(Closed) = cmd /\ Closed[cmd] = Delay(rtc + 1)
        /\ \A i \in 1 .. cmd - 1 : Closed[i] = macro[i]
    BY <1>1, <1>2, <2>1
  <2> HIDE DEF Closed
  <2> QED BY <1>1, <1>2, <1>5, <2>2
<1> QED BY <1>4, <1>5

\* Recording keeps the types, of any macro.
LEMMA RecordTyped ==
  ASSUME Typed, NEW pad \in HeldSets, Record(pad)
  PROVE  Typed'
<1>1. /\ pad \in Held /\ {} \in Held /\ macro \in Seq(Commands) /\ rtc \in Nat /\ lastButtons \in Held
      /\ seen \in Seq(Held)
  BY DEF Held, Typed
<1>2. /\ acting = "record" /\ acting' = "record" /\ cmd = Len(macro) /\ cmd \in Nat \ {0}
      /\ UNCHANGED <<left, rest, out, tape, sure, frame>>
      /\ seen' = seen \o Added(pad)
      /\ twisted' \in BOOLEAN
      /\ pad = lastButtons =>
           /\ cmd' = cmd /\ lastButtons' = pad
           /\ cmd = 1 => macro' = macro /\ rtc' = 0
           /\ cmd > 1 => macro' = [macro EXCEPT ![cmd] = Delay(rtc + 1)] /\ rtc' = rtc + 1
      /\ pad # lastButtons =>
           /\ macro' = Closed \o <<Changed(lastButtons, pad), Delay(0)>>
           /\ cmd' = Len(macro') /\ lastButtons' = pad /\ rtc' = 0
  <2>1. twisted' \in BOOLEAN
    BY DEF Record
  <2> QED BY <1>1, <2>1, RecordIs
<1>3. seen' \in Seq(Held)
  BY <1>1, <1>2, AddedIs
<1>4. \A n \in Nat : Delay(n) \in Commands
  BY DEF Delay, Commands, Actions, Held
<1>5. macro' \in Seq(Commands) /\ cmd' = Len(macro') /\ cmd' > 0 /\ rtc' \in Nat
  <2>1. CASE pad = lastButtons
    <3>1. CASE cmd = 1
      <4>1. macro' = macro /\ rtc' = 0 /\ cmd' = cmd
        BY <1>2, <2>1, <3>1
      <4> QED BY <1>1, <1>2, <4>1
    <3>2. CASE cmd > 1
      <4>1. macro' = [macro EXCEPT ![cmd] = Delay(rtc + 1)] /\ rtc' = rtc + 1 /\ cmd' = cmd
        BY <1>2, <2>1, <3>2
      <4>2. Delay(rtc + 1) \in Commands
        BY <1>1, <1>4
      <4>3. macro' \in Seq(Commands) /\ Len(macro') = Len(macro)
        BY <1>1, <1>2, <4>1, <4>2
      <4> QED BY <1>1, <1>2, <4>1, <4>3
    <3> QED BY <1>2, <3>1, <3>2
  <2>2. CASE pad # lastButtons
    <3>1. Changed(lastButtons, pad) \in Commands
      BY <1>1, <2>2, ChangedObeyed
    <3>2. Closed \in Seq(Commands)
      <4>1. CASE macro[cmd] = Delay(0)
        <5>1. Closed = SubSeq(macro, 1, cmd - 1)
          BY <1>2, <4>1 DEF Closed, Front
        <5> QED BY <1>1, <1>2, <5>1
      <4>2. CASE macro[cmd] # Delay(0)
        <5>1. Closed = [macro EXCEPT ![cmd] = Delay(rtc + 1)]
          BY <4>2 DEF Closed
        <5> QED BY <1>1, <1>2, <1>4, <5>1
      <4> QED BY <4>1, <4>2
    <3> HIDE DEF Closed
    <3>3. /\ <<Changed(lastButtons, pad), Delay(0)>> \in Seq(Commands)
          /\ Len(<<Changed(lastButtons, pad), Delay(0)>>) = 2
      BY <1>4, <3>1
    <3>4. /\ macro' = Closed \o <<Changed(lastButtons, pad), Delay(0)>>
          /\ cmd' = Len(macro') /\ rtc' = 0
      BY <1>2, <2>2
    <3>5. macro' \in Seq(Commands) /\ Len(macro') = Len(Closed) + 2 /\ Len(Closed) \in Nat
      BY <3>2, <3>3, <3>4
    <3> QED BY <3>4, <3>5
  <2> QED BY <2>1, <2>2
<1> QED BY <1>1, <1>2, <1>3, <1>5 DEF Typed

\* The buttons that are down are those before the delay at the end.
LEMMA WaitingSame ==
  ASSUME Typed, acting = "record", NEW t, Recording(t)
  PROVE  /\ Len(seen) \in Nat /\ cmd \in Nat \ {0} /\ t[cmd] \in Nat \ {0} /\ rtc \in Nat
         /\ Extra(macro, cmd) \in {0, 1}
         /\ t[cmd] <= Len(seen) + 1 /\ lastButtons = Before(seen, t[cmd])
         /\ \A i \in 1 .. cmd - 1 : t[i] \in 1 .. t[cmd]
<1>1. /\ Len(seen) \in Nat /\ cmd \in Nat \ {0} /\ rtc \in Nat /\ cmd - 1 + 1 = cmd
      /\ Extra(macro, cmd) \in {0, 1}
  BY DEF Typed, Extra
<1>2. \A i \in 1 .. cmd : t[i] \in 1 .. Len(seen) + 1 /\ t[i] <= t[cmd]
  <2>1. /\ t \in [1 .. cmd -> 1 .. Len(seen) + 1]
        /\ \A i, j \in 1 .. cmd : i <= j => t[i] <= t[j]
    BY <1>1 DEF Recording, Timed
  <2> QED BY <1>1, <2>1
<1>3. t[cmd] \in 1 .. Len(seen) + 1
  BY <1>1, <1>2
<1>4. lastButtons = Before(seen, t[cmd])
  <2>1. CASE t[cmd] = Len(seen) + 1
    BY <2>1 DEF Recording, Waiting
  <2>2. CASE t[cmd] <= Len(seen)
    <3>1. seen[Len(seen)] = Before(seen, t[cmd])
      <4>1. Len(seen) \in t[cmd] .. Len(seen)
        BY <1>1, <1>3, <2>2
      <4> QED BY <4>1 DEF Recording, Waiting
    <3>2. Before(seen, Len(seen) + 1) = seen[Len(seen)]
      BY <1>1, <1>3, <2>2 DEF Before
    <3> QED BY <3>1, <3>2 DEF Recording, Waiting
  <2> QED BY <1>1, <1>3, <2>1, <2>2
<1>5. \A i \in 1 .. cmd - 1 : t[i] \in 1 .. t[cmd]
  BY <1>1, <1>2
<1> QED BY <1>1, <1>3, <1>4, <1>5

\* An append begins with a pause of two frames, and any other frame adds one.
LEMMA AddedOne ==
  ASSUME Typed, acting = "record", NEW t, Recording(t), NEW pad \in Held,
         ~(cmd = 1 /\ pad = {})
  PROVE  /\ pad = lastButtons => Len(Added(pad)) = 1 + (IF rtc = 0 THEN Extra(macro, cmd) ELSE 0)
         /\ pad # lastButtons => Len(Added(pad)) = 1
<1>1. Len(Added(pad)) = (IF Pause(pad) = <<>> THEN 1 ELSE 2) /\ cmd \in Nat \ {0}
  BY AddedIs DEF Typed
<1>2. <<{}>> # <<>>
  <2>1. Len(<<{}>>) = 1 /\ Len(<<>>) = 0
    OBVIOUS
  <2> QED BY <2>1
<1>3. cmd = 1 => seen = <<>>
  BY DEF Recording
<1>4. CASE Extra(macro, cmd) = 1
  <2>1. cmd > 1 /\ macro[cmd - 1].action = "DELAY"
    BY <1>4 DEF Extra, IsDelay
  <2>2. lastButtons = {} /\ tape # <<>> /\ (IF rtc = 0 THEN seen = tape ELSE seen # tape)
    <3>1. Len(seen) > Len(tape) => seen # tape
      BY DEF Typed
    <3> QED BY <1>4, <3>1 DEF Recording
  <2> QED BY <1>1, <1>2, <1>4, <2>1, <2>2 DEF Pause
<1>5. CASE Extra(macro, cmd) = 0
  <2>1. Pause(pad) = <<>>
    <3>1. CASE cmd = 1
      BY <1>3, <3>1 DEF Pause
    <3>2. CASE cmd # 1
      BY <1>1, <1>5, <3>2 DEF Pause, Extra, IsDelay
    <3> QED BY <3>1, <3>2
  <2> QED BY <1>1, <1>5, <2>1
<1>6. Extra(macro, cmd) \in {0, 1}
  BY DEF Extra
<1> QED BY <1>4, <1>5, <1>6

\* Buttons that change places stay known after more frames, the last of them with pad.
LEMMA UntwistedKept ==
  ASSUME Typed, acting = "record", NEW t, Recording(t), NEW pad \in HeldSets, Record(pad), ~twisted',
         seen' \in Seq(Held), Len(seen') > Len(seen), seen'[Len(seen')] = pad,
         \A f \in 1 .. Len(seen) : seen'[f] = seen[f],
         \A f \in 1 .. Len(seen) + 1 : Before(seen', f) = Before(seen, f),
         NEW i \in 1 .. cmd - 1, ~IsDelay(macro[i])
  PROVE  \/ macro[i].action # "CHANGE"
         \/ Before(seen', t[i]) \cap MenuButtons = {}
         \/ \E f \in t[i] .. Len(seen') : seen'[f] \cap MenuButtons = {}
<1>1. /\ Len(seen) \in Nat /\ Len(seen') \in Nat /\ t[i] \in Nat \ {0} /\ t[i] <= Len(seen) + 1
  BY WaitingSame
<1>2. CASE pad \cap MenuButtons = {}
  <2>1. Len(seen') \in t[i] .. Len(seen')
    BY <1>1
  <2> QED BY <1>2, <2>1
<1>3. CASE pad \cap MenuButtons # {}
  <2>1. ~twisted
    BY <1>3 DEF Record
  <2>2. \/ macro[i].action # "CHANGE"
        \/ Before(seen, t[i]) \cap MenuButtons = {}
        \/ \E f \in t[i] .. Len(seen) : seen[f] \cap MenuButtons = {}
    BY <2>1 DEF Recording, Untwisted
  <2>3. Before(seen', t[i]) = Before(seen, t[i])
    BY <1>1
  <2>4. ASSUME NEW f \in t[i] .. Len(seen), seen[f] \cap MenuButtons = {}
        PROVE  \E g \in t[i] .. Len(seen') : seen'[g] \cap MenuButtons = {}
    <3>1. f \in 1 .. Len(seen) /\ f \in t[i] .. Len(seen')
      BY <1>1
    <3> QED BY <2>4, <3>1
  <2> QED BY <2>2, <2>3, <2>4
<1> QED BY <1>2, <1>3

\* What a frame adds to the recording, if it adds anything.
LEMMA RecordAdds ==
  ASSUME Typed, NEW pad \in HeldSets, Record(pad), NEW t, Recording(t), ~(cmd = 1 /\ pad = {})
  PROVE  /\ acting = "record" /\ pad \in Held
         /\ seen' = seen \o Added(pad) /\ seen' \in Seq(Held) /\ Len(seen') \in Nat
         /\ Len(seen') = Len(seen) + Len(Added(pad)) /\ Len(Added(pad)) \in Nat \ {0}
         /\ \A f \in Len(seen) + 1 .. Len(seen') : seen'[f] = pad
         /\ seen'[Len(seen')] = pad /\ Before(seen', Len(seen') + 1) = pad
         /\ \A f \in 1 .. Len(seen) : seen'[f] = seen[f]
         /\ \A f \in 1 .. Len(seen) + 1 : Before(seen', f) = Before(seen, f)
<1>1. pad \in Held /\ seen \in Seq(Held) /\ Len(seen) \in Nat
  BY DEF Held, Typed
<1>2. acting = "record" /\ seen' = seen \o Added(pad)
  BY <1>1, RecordIs
<1>3. /\ Added(pad) \in Seq(Held) /\ Len(Added(pad)) \in Nat \ {0}
      /\ \A i \in 1 .. Len(Added(pad)) : Added(pad)[i] = pad
      /\ seen' \in Seq(Held)
  <2>1. /\ Added(pad) \in Seq(Held) /\ \A i \in 1 .. Len(Added(pad)) : Added(pad)[i] = pad
        /\ Len(Added(pad)) = (IF cmd = 1 /\ pad = {} THEN 0
                              ELSE IF Pause(pad) = <<>> THEN 1 ELSE 2)
        /\ seen \o Added(pad) \in Seq(Held)
    BY <1>1, AddedIs
  <2>2. Len(Added(pad)) = (IF Pause(pad) = <<>> THEN 1 ELSE 2)
    BY <2>1
  <2>3. Len(Added(pad)) \in Nat \ {0}
    BY <2>2
  <2> QED BY <1>2, <2>1, <2>3
<1> HIDE DEF Added
<1>4. /\ Len(seen') = Len(seen) + Len(Added(pad)) /\ Len(seen') \in Nat
      /\ \A f \in 1 .. Len(seen) : seen'[f] = seen[f]
  BY <1>1, <1>2, <1>3
<1>5. ASSUME NEW f \in Len(seen) + 1 .. Len(seen') PROVE seen'[f] = pad
  <2>1. f - Len(seen) \in 1 .. Len(Added(pad)) /\ f \in 1 .. Len(seen) + Len(Added(pad))
    BY <1>1, <1>3, <1>4
  <2>2. seen'[f] = Added(pad)[f - Len(seen)]
    BY <1>1, <1>2, <1>3, <2>1
  <2> QED BY <1>3, <2>1, <2>2
<1>6. seen'[Len(seen')] = pad
  <2>1. Len(seen') \in Len(seen) + 1 .. Len(seen')
    BY <1>1, <1>3, <1>4
  <2> QED BY <1>5, <2>1
<1>7. Before(seen', Len(seen') + 1) = pad
  BY <1>1, <1>3, <1>4, <1>6 DEF Before
<1>8. \A f \in 1 .. Len(seen) + 1 : Before(seen', f) = Before(seen, f)
  BY <1>1, <1>4, BeforeExtends
<1> QED BY <1>1, <1>2, <1>3, <1>4, <1>5, <1>6, <1>7, <1>8

\* A frame with the same buttons makes the delay at the end longer.
LEMMA RecordSame ==
  ASSUME Typed, NEW pad \in HeldSets, Record(pad), NEW t, Recording(t), pad = lastButtons, cmd > 1
  PROVE  Recording(t)'
<1>1. /\ acting = "record" /\ pad \in Held
      /\ seen' = seen \o Added(pad) /\ seen' \in Seq(Held) /\ Len(seen') \in Nat
      /\ Len(seen') = Len(seen) + Len(Added(pad)) /\ Len(Added(pad)) \in Nat \ {0}
      /\ \A f \in Len(seen) + 1 .. Len(seen') : seen'[f] = pad
      /\ seen'[Len(seen')] = pad /\ Before(seen', Len(seen') + 1) = pad
      /\ \A f \in 1 .. Len(seen) : seen'[f] = seen[f]
      /\ \A f \in 1 .. Len(seen) + 1 : Before(seen', f) = Before(seen, f)
  BY RecordAdds DEF Typed
<1>2. /\ Len(seen) \in Nat /\ cmd \in Nat \ {0} /\ t[cmd] \in Nat \ {0} /\ rtc \in Nat
      /\ Extra(macro, cmd) \in {0, 1}
      /\ t[cmd] <= Len(seen) + 1 /\ lastButtons = Before(seen, t[cmd])
  BY <1>1, WaitingSame
<1>3. Len(Added(pad)) = 1 + (IF rtc = 0 THEN Extra(macro, cmd) ELSE 0)
  <2>1. acting = "record" /\ pad \in Held /\ ~(cmd = 1 /\ pad = {})
    BY <1>1, <1>2
  <2> QED BY <2>1, AddedOne
<1>4. /\ macro' = [macro EXCEPT ![cmd] = Delay(rtc + 1)] /\ rtc' = rtc + 1 /\ cmd' = cmd
      /\ lastButtons' = pad /\ tape' = tape /\ cmd = Len(macro) /\ macro \in Seq(Commands)
  BY <1>1, <1>2, RecordIs DEF Typed
<1>5. /\ \A i \in 1 .. cmd - 1 : macro'[i] = macro[i]
      /\ macro'[cmd] = Delay(rtc') /\ cmd' = Len(macro')
  BY <1>2, <1>4
<1>6. Extra(macro', cmd') = Extra(macro, cmd)
  <2>1. cmd - 1 \in 1 .. cmd - 1
    BY <1>2
  <2> QED BY <1>4, <1>5, <2>1 DEF Extra
<1>7. Timed(macro', cmd' - 1, seen', t)
  <2>1. Timed(macro, cmd - 1, seen, t) /\ cmd - 1 \in Nat /\ seen \in Seq(Held)
        /\ Len(seen) <= Len(seen') /\ cmd' = cmd
    BY <1>1, <1>2, <1>4 DEF Recording, Typed
  <2>2. /\ \A i \in 1 .. cmd - 1 : macro'[i] = macro[i]
        /\ \A f \in 1 .. Len(seen) : seen'[f] = seen[f]
        /\ seen' \in Seq(Held)
    BY <1>1, <1>5
  <2>3. Timed(macro', cmd - 1, seen', t)
    BY <2>1, <2>2, TimedExtends
  <2> QED BY <2>1, <2>3
<1>8. Waiting(t)'
  <2>1. Len(seen') = t[cmd] - 1 + (IF rtc' = 0 THEN 0 ELSE rtc' + Extra(macro', cmd'))
    <3>1. Len(seen) = t[cmd] - 1 + (IF rtc = 0 THEN 0 ELSE rtc + Extra(macro, cmd))
      BY DEF Recording, Waiting
    <3>2. rtc' # 0
      BY <1>2, <1>4
    <3>3. Len(seen') = t[cmd] - 1 + rtc + 1 + Extra(macro, cmd)
      <4>1. CASE rtc = 0
        <5>1. Len(Added(pad)) = 1 + Extra(macro, cmd) /\ Len(seen) = t[cmd] - 1
          BY <1>2, <1>3, <3>1, <4>1
        <5>2. Len(seen') = Len(seen) + (1 + Extra(macro, cmd))
          BY <1>1, <5>1
        <5>3. Extra(macro, cmd) \in Nat
          BY <1>2
        <5> QED BY <1>2, <4>1, <5>1, <5>2, <5>3
      <4>2. CASE rtc # 0
        <5>1. Len(Added(pad)) = 1 /\ Len(seen) = t[cmd] - 1 + (rtc + Extra(macro, cmd))
          BY <1>3, <3>1, <4>2
        <5>2. Len(seen') = Len(seen) + 1
          BY <1>1, <5>1
        <5>3. Extra(macro, cmd) \in Nat /\ t[cmd] \in Nat /\ rtc \in Nat
          BY <1>2
        <5>4. \A a, b, c \in Nat : a - 1 + (b + c) + 1 = a - 1 + b + 1 + c
          OBVIOUS
        <5>5. Len(seen') = t[cmd] - 1 + (rtc + Extra(macro, cmd)) + 1
          BY <5>1, <5>2
        <5> QED BY <5>3, <5>4, <5>5
      <4> QED BY <4>1, <4>2
    <3> QED BY <1>2, <1>4, <1>6, <3>2, <3>3
  <2>2. ASSUME NEW f \in t[cmd] .. Len(seen') PROVE seen'[f] = Before(seen', t[cmd])
    <3>1. Before(seen', t[cmd]) = lastButtons
      BY <1>1, <1>2
    <3>2. CASE f \in t[cmd] .. Len(seen)
      <4>1. seen[f] = Before(seen, t[cmd]) /\ f \in 1 .. Len(seen)
        BY <1>2, <3>2 DEF Recording, Waiting
      <4> QED BY <1>1, <1>2, <3>1, <4>1
    <3>3. CASE f \in Len(seen) + 1 .. Len(seen')
      BY <1>1, <3>1, <3>3
    <3> QED BY <1>1, <1>2, <3>2, <3>3
  <2>3. lastButtons' = Before(seen', Len(seen') + 1)
    BY <1>1, <1>4
  <2> QED BY <1>4, <2>1, <2>2, <2>3 DEF Waiting
<1>9. ~twisted' => Untwisted(t)'
  <2>1. ASSUME ~twisted', NEW i \in 1 .. cmd - 1, ~IsDelay(macro[i])
        PROVE  \/ macro[i].action # "CHANGE"
               \/ Before(seen', t[i]) \cap MenuButtons = {}
               \/ \E f \in t[i] .. Len(seen') : seen'[f] \cap MenuButtons = {}
    <3>1. Len(seen') > Len(seen)
      BY <1>1, <1>2
    <3> QED BY <1>1, <2>1, <3>1, UntwistedKept
  <2> QED BY <1>4, <1>5, <2>1 DEF Untwisted
<1>10. Extra(macro', cmd') = 1 =>
         lastButtons' = {} /\ tape' # <<>> /\ (IF rtc' = 0 THEN seen' = tape' ELSE Len(seen') > Len(tape'))
  <2>1. ASSUME Extra(macro, cmd) = 1
        PROVE  lastButtons = {} /\ tape # <<>> /\ Len(seen') > Len(tape)
    <3>1. lastButtons = {} /\ tape # <<>> /\ (IF rtc = 0 THEN seen = tape ELSE Len(seen) > Len(tape))
      BY <2>1 DEF Recording
    <3>2. Len(tape) \in Nat /\ Len(tape) <= Len(seen)
      BY <1>2, <3>1 DEF Typed
    <3>3. Len(seen') > Len(seen)
      BY <1>1, <1>2
    <3> QED BY <1>1, <1>2, <3>1, <3>2, <3>3
  <2> QED BY <1>2, <1>4, <1>6, <2>1
<1> QED BY <1>4, <1>5, <1>7, <1>8, <1>9, <1>10 DEF Recording

\* The delay at the end is closed in front of a change: the change's command is the next.
LEMMA ClosedTimed ==
  ASSUME Typed, acting = "record", NEW t, Recording(t), NEW m, NEW r \in Seq(Held),
         Len(seen) <= Len(r), \A f \in 1 .. Len(seen) : r[f] = seen[f],
         \A i \in 1 .. cmd - 1 : m[i] = macro[i], rtc # 0 => m[cmd] = Delay(rtc + 1)
  PROVE  LET q == IF rtc = 0 THEN cmd - 1 ELSE cmd
         IN  \E u : /\ Timed(m, q, r, u) /\ u[q + 1] = Len(seen) + 1
                    /\ \A i \in 1 .. cmd - 1 : u[i] = t[i]
<1>1. /\ Len(seen) \in Nat /\ cmd \in Nat \ {0} /\ t[cmd] \in Nat \ {0} /\ rtc \in Nat
      /\ Extra(macro, cmd) \in {0, 1}
      /\ t[cmd] <= Len(seen) + 1 /\ lastButtons = Before(seen, t[cmd])
  BY WaitingSame
<1>2. Timed(m, cmd - 1, r, t) /\ \A f \in 1 .. Len(seen) + 1 : Before(r, f) = Before(seen, f)
  <2>1. Timed(macro, cmd - 1, seen, t) /\ cmd - 1 \in Nat /\ seen \in Seq(Held)
    BY <1>1 DEF Recording, Typed
  <2>2. Timed(m, cmd - 1, r, t)
    BY <2>1, TimedExtends
  <2>3. \A f \in 1 .. Len(seen) + 1 : Before(r, f) = Before(seen, f)
    BY <1>1, BeforeExtends
  <2> QED BY <2>2, <2>3
<1>3. Len(seen) = t[cmd] - 1 + (IF rtc = 0 THEN 0 ELSE rtc + Extra(macro, cmd))
  BY DEF Recording, Waiting
<1>4. CASE rtc = 0
  <2>1. t[cmd] = Len(seen) + 1 /\ cmd - 1 + 1 = cmd
    BY <1>1, <1>3, <1>4
  <2> QED BY <1>2, <1>4, <2>1
<1>5. CASE rtc # 0
  <2> DEFINE u == More(t, cmd - 1, Len(seen) + 1)
  <2>1. cmd # 1 /\ cmd - 1 \in Nat /\ cmd - 1 + 1 = cmd /\ cmd - 1 + 2 = cmd + 1
    BY <1>1, <1>5 DEF Recording
  <2>2. u[cmd] = t[cmd] /\ u[cmd + 1] = Len(seen) + 1 /\ \A i \in 1 .. cmd - 1 : u[i] = t[i]
    <3>1. u = [i \in 1 .. cmd + 1 |-> IF i <= cmd THEN t[i] ELSE Len(seen) + 1]
      BY <2>1 DEF More
    <3> HIDE DEF u
    <3> QED BY <1>1, <3>1
  <2>3. m[cmd] = Delay(rtc + 1) /\ IsDelay(m[cmd]) /\ m[cmd].time = rtc + 1
    BY <1>5 DEF IsDelay, Delay
  <2>4. Extra(m, cmd) = Extra(macro, cmd)
    <3>1. cmd - 1 \in 1 .. cmd - 1
      BY <1>1, <2>1
    <3>2. m[cmd - 1] = macro[cmd - 1]
      BY <3>1
    <3> QED BY <3>2 DEF Extra
  <2>5. Waits(m, r, u, cmd)
    <3>1. m[cmd].time \in Nat \ {0} /\ m[cmd] = Delay(m[cmd].time)
      BY <1>1, <2>3
    <3>2. u[cmd + 1] = u[cmd] + m[cmd].time - 1 + Extra(m, cmd)
      <4>1. Extra(macro, cmd) \in Nat
        BY <1>1
      <4>2. Len(seen) = t[cmd] - 1 + (rtc + Extra(macro, cmd))
        BY <1>3, <1>5
      <4>3. \A a, b, c \in Nat : a - 1 + (b + c) + 1 = a + (b + 1) - 1 + c
        OBVIOUS
      <4>4. Len(seen) + 1 = t[cmd] - 1 + (rtc + Extra(macro, cmd)) + 1
        BY <4>2
      <4>5. Len(seen) + 1 = t[cmd] + (rtc + 1) - 1 + Extra(macro, cmd)
        BY <1>1, <4>1, <4>3, <4>4
      <4> QED BY <2>2, <2>3, <2>4, <4>5
    <3>3. ASSUME NEW f \in u[cmd] .. u[cmd + 1] - 1 PROVE r[f] = Before(r, u[cmd])
      <4>1. f \in t[cmd] .. Len(seen) /\ f \in 1 .. Len(seen)
        BY <1>1, <2>2
      <4>2. seen[f] = Before(seen, t[cmd])
        BY <4>1 DEF Recording, Waiting
      <4>3. Before(r, t[cmd]) = Before(seen, t[cmd])
        BY <1>1, <1>2
      <4> QED BY <2>2, <4>1, <4>2, <4>3
    <3> QED BY <3>1, <3>2, <3>3 DEF Waits
  <2>6. Timed(m, cmd - 1 + 1, r, u)
    <3>1. Len(seen) + 1 \in Nat /\ t[cmd - 1 + 1] <= Len(seen) + 1 /\ Len(seen) + 1 <= Len(r) + 1
      BY <1>1, <2>1
    <3>2. IF IsDelay(m[cmd - 1 + 1]) THEN Waits(m, r, u, cmd - 1 + 1)
                                     ELSE Changes(m, r, u, cmd - 1 + 1)
      BY <2>1, <2>3, <2>5
    <3>3. cmd - 1 # 0
      BY <1>1, <2>1
    <3> QED BY <1>2, <2>1, <3>1, <3>2, <3>3, TimedMore
  <2> HIDE DEF u
  <2> QED BY <1>5, <2>1, <2>2, <2>6
<1> QED BY <1>4, <1>5

\* A frame with other buttons gets a command of its own.
LEMMA RecordChange ==
  ASSUME Typed, NEW pad \in HeldSets, Record(pad), NEW t, Recording(t), pad # lastButtons
  PROVE  \E v : Recording(v)'
<1> DEFINE q == IF rtc = 0 THEN cmd - 1 ELSE cmd
           F == Len(seen) + 1
<1>1. acting = "record" /\ pad \in Held /\ lastButtons \in Held /\ macro[cmd] = Delay(rtc)
  BY DEF Held, Typed, Record, Recording
<1>2. /\ Len(seen) \in Nat /\ cmd \in Nat \ {0} /\ rtc \in Nat
      /\ \A i \in 1 .. cmd - 1 : t[i] \in Nat /\ t[i] <= F
  <2>1. t[cmd] \in Nat /\ t[cmd] <= F /\ Len(seen) \in Nat /\ \A i \in 1 .. cmd - 1 : t[i] \in 1 .. t[cmd]
    BY <1>1, WaitingSame
  <2> QED BY <1>1, <2>1, WaitingSame
<1>3. ~(cmd = 1 /\ pad = {})
  <2>1. cmd = 1 => lastButtons = {}
    BY DEF Recording, Waiting, Before
  <2> QED BY <2>1
<1>4. /\ seen' \in Seq(Held) /\ Len(seen') = F /\ seen'[F] = pad /\ Before(seen', F + 1) = pad
      /\ \A f \in 1 .. Len(seen) : seen'[f] = seen[f]
      /\ \A f \in 1 .. F : Before(seen', f) = Before(seen, f)
  <2>1. Len(Added(pad)) = 1
    BY <1>1, <1>3, AddedOne
  <2>2. /\ seen' \in Seq(Held) /\ Len(seen') = Len(seen) + Len(Added(pad))
        /\ seen'[Len(seen')] = pad /\ Before(seen', Len(seen') + 1) = pad
        /\ \A f \in 1 .. Len(seen) : seen'[f] = seen[f]
        /\ \A f \in 1 .. Len(seen) + 1 : Before(seen', f) = Before(seen, f)
    BY <1>3, RecordAdds
  <2>3. Len(seen') = F
    BY <2>1, <2>2
  <2> QED BY <2>2, <2>3
<1>5. Before(seen', F) = lastButtons
  <2>1. F \in 1 .. F
    BY <1>2
  <2> QED BY <1>4, <2>1 DEF Recording, Waiting
<1>6. /\ macro' = Closed \o <<Changed(lastButtons, pad), Delay(0)>>
      /\ cmd' = Len(macro') /\ lastButtons' = pad /\ rtc' = 0 /\ tape' = tape
  BY <1>1, RecordIs
<1>7. /\ Changed(lastButtons, pad) \in Commands /\ ~IsDelay(Changed(lastButtons, pad))
  BY <1>1, ChangedObeyed
<1>8. /\ Len(macro') = q + 2 /\ macro'[q + 1] = Changed(lastButtons, pad) /\ macro'[q + 2] = Delay(0)
      /\ \A i \in 1 .. cmd - 1 : macro'[i] = macro[i]
      /\ rtc # 0 => macro'[cmd] = Delay(rtc + 1)
  BY <1>1, <1>6, <1>7, ClosedIs
<1>9. q \in Nat
  BY <1>2
<1>10. PICK u : /\ Timed(macro', q, seen', u) /\ u[q + 1] = F
                /\ \A i \in 1 .. cmd - 1 : u[i] = t[i]
  <2>1. Len(seen) <= Len(seen')
    BY <1>2, <1>4
  <2> QED BY <1>1, <1>4, <1>8, <2>1, ClosedTimed
<1>20. PICK v : v = More(u, q, F + 1)
  OBVIOUS
<1>11. /\ v[q + 2] = F + 1 /\ \A i \in 1 .. q + 1 : v[i] = u[i]
       /\ v[q + 1] = F /\ \A i \in 1 .. cmd - 1 : v[i] = t[i]
  <2>1. v = [i \in 1 .. q + 2 |-> IF i <= q + 1 THEN u[i] ELSE F + 1]
    BY <1>20 DEF More
  <2> HIDE DEF q, F
  <2>2. v[q + 2] = F + 1 /\ \A i \in 1 .. q + 1 : v[i] = u[i]
    BY <1>9, <2>1
  <2>3. v[q + 1] = F
    BY <1>9, <1>10, <2>2
  <2>4. \A i \in 1 .. cmd - 1 : i \in 1 .. q + 1
    BY <1>2 DEF q
  <2> QED BY <1>10, <2>2, <2>3, <2>4
<1>12. Changes(macro', seen', v, q + 1)
  <2>1. v[q + 1 + 1] = v[q + 1] + 1
    BY <1>9, <1>11
  <2>2. v[q + 1] \in 1 .. Len(seen')
    BY <1>2, <1>4, <1>11
  <2>3. seen'[v[q + 1]] = pad /\ Before(seen', v[q + 1]) = lastButtons
    BY <1>4, <1>5, <1>11
  <2> HIDE DEF q, F
  <2> QED BY <1>8, <2>1, <2>2, <2>3 DEF Changes
<1> HIDE DEF q
<1>13. Timed(macro', q + 1, seen', v)
  <2>1. F + 1 \in Nat /\ u[q + 1] <= F + 1 /\ F + 1 <= Len(seen') + 1
    BY <1>2, <1>4, <1>10
  <2>2. ~IsDelay(macro'[q + 1])
    BY <1>7, <1>8
  <2>3. q = 0 => ~IsDelay(macro'[1])
    BY <2>2
  <2> HIDE DEF F
  <2>4. Changes(macro', seen', More(u, q, F + 1), q + 1)
    BY <1>12, <1>20
  <2>5. Timed(macro', q + 1, seen', More(u, q, F + 1))
    BY <1>4, <1>9, <1>10, <2>1, <2>2, <2>3, <2>4, TimedMore
  <2> QED BY <1>20, <2>5
<1>14. cmd' = q + 2 /\ cmd' - 1 = q + 1 /\ macro'[cmd'] = Delay(rtc') /\ cmd' # 1
       /\ cmd' = Len(macro')
  BY <1>6, <1>8, <1>9
<1>15. Waiting(v)'
  <2>1. Len(seen') = v[cmd'] - 1 + (IF rtc' = 0 THEN 0 ELSE rtc' + Extra(macro', cmd'))
    BY <1>2, <1>4, <1>6, <1>11, <1>14
  <2>2. \A f \in v[cmd'] .. Len(seen') : seen'[f] = Before(seen', v[cmd'])
    BY <1>2, <1>4, <1>11, <1>14
  <2>3. lastButtons' = Before(seen', Len(seen') + 1)
    BY <1>4, <1>6
  <2> QED BY <2>1, <2>2, <2>3 DEF Waiting
<1>16. Extra(macro', cmd') = 0
  <2>1. ~IsDelay(macro'[cmd' - 1])
    BY <1>7, <1>8, <1>14
  <2> QED BY <2>1 DEF Extra
<1>17. ASSUME ~twisted', NEW i \in 1 .. cmd' - 1, ~IsDelay(macro'[i])
       PROVE  \/ macro'[i].action # "CHANGE"
              \/ Before(seen', v[i]) \cap MenuButtons = {}
              \/ \E f \in v[i] .. Len(seen') : seen'[f] \cap MenuButtons = {}
  <2>1. CASE i \in 1 .. cmd - 1
    <3>1. macro'[i] = macro[i] /\ v[i] = t[i]
      BY <1>8, <1>11, <2>1
    <3>2. Len(seen') > Len(seen) /\ seen'[Len(seen')] = pad
      BY <1>2, <1>4
    <3>3. \A f \in 1 .. Len(seen) + 1 : Before(seen', f) = Before(seen, f)
      BY <1>4
    <3> HIDE DEF F
    <3> QED BY <1>1, <1>4, <1>17, <2>1, <3>1, <3>2, <3>3, UntwistedKept
  <2>2. CASE i = q + 1
    <3>1. CASE pad \cap MenuButtons = {}
      <4>1. Len(seen') \in v[i] .. Len(seen') /\ seen'[Len(seen')] = pad
        BY <1>2, <1>4, <1>11, <2>2
      <4> QED BY <3>1, <4>1
    <3>2. CASE pad \cap MenuButtons # {}
      <4>1. \/ pad \ lastButtons = {} \/ lastButtons \ pad = {}
            \/ lastButtons \cap MenuButtons = {}
        BY <1>17, <3>2 DEF Record
      <4>2. Changed(lastButtons, pad).action = "CHANGE" =>
              pad \ lastButtons # {} /\ lastButtons \ pad # {}
        BY DEF Changed, OfButtons
      <4>3. Before(seen', v[i]) = lastButtons
        BY <1>5, <1>11, <2>2
      <4> QED BY <1>8, <2>2, <4>1, <4>2, <4>3
    <3> QED BY <3>1, <3>2
  <2>3. CASE i \notin 1 .. cmd - 1 /\ i # q + 1
    <3>1. i = cmd /\ rtc # 0
      BY <1>2, <1>14, <2>3 DEF q
    <3>2. IsDelay(macro'[i])
      BY <1>8, <3>1 DEF IsDelay, Delay
    <3> QED BY <1>17, <3>2
  <2> QED BY <2>1, <2>2, <2>3
<1>18. ~twisted' => Untwisted(v)'
  BY <1>17 DEF Untwisted
<1>19. Timed(macro', cmd' - 1, seen', v)
  BY <1>13, <1>14
<1> QED BY <1>14, <1>15, <1>16, <1>18, <1>19 DEF Recording

\* A recording goes on.
LEMMA RecordKeeps ==
  ASSUME Typed, NEW pad \in HeldSets, Record(pad), NEW t, Recording(t)
  PROVE  \E v : Recording(v)'
<1>1. CASE pad # lastButtons
  BY <1>1, RecordChange
<1>2. CASE pad = lastButtons /\ cmd > 1
  BY <1>2, RecordSame
<1>3. CASE pad = lastButtons /\ cmd = 1
  <2>1. pad = {} /\ seen = <<>>
    BY <1>3 DEF Recording, Waiting, Before
  <2>2. pad \in Held /\ acting = "record"
    BY DEF Held, Record
  <2>3. cmd' = cmd /\ lastButtons' = lastButtons /\ macro' = macro /\ rtc' = 0 /\ tape' = tape
    BY <1>3, <2>2, RecordIs
  <2>4. seen' = seen
    BY <1>3, <2>1 DEF Record
  <2>5. rtc = 0
    BY <1>3 DEF Recording
  <2>6. Untwisted(t)'
    <3>1. \A i \in 1 .. cmd' - 1 : FALSE
      BY <1>3, <2>3
    <3> QED BY <3>1 DEF Untwisted
  <2>7. Waiting(t)'
    BY <2>3, <2>4, <2>5 DEF Recording, Waiting
  <2>8. Recording(t)'
    BY <2>3, <2>4, <2>5, <2>6, <2>7 DEF Recording
  <2> QED BY <2>8
<1>4. cmd = 1 \/ cmd > 1
  BY DEF Typed, Record
<1> QED BY <1>1, <1>2, <1>3, <1>4

\* A recording begins with no commands done and no frame.
LEMMA RecordStarts ==
  ASSUME Typed, RecordStart
  PROVE  Typed' /\ frame' = 0 /\ acting' = "record" /\ \E t : Recording(t)'
<1>1. /\ macro' = <<Delay(0)>> /\ cmd' = 1 /\ lastButtons' = {} /\ rtc' = 0 /\ acting' = "record"
      /\ seen' = <<>> /\ twisted' = FALSE /\ tape' = <<>> /\ sure' = TRUE /\ frame' = 0
  BY DEF RecordStart
<1>2. Delay(0) \in Commands /\ {} \in Held
  BY DEF Delay, Commands, Actions, Held
<1>3. macro' \in Seq(Commands) /\ Len(macro') = 1 /\ macro'[1] = Delay(0)
  BY <1>1, <1>2
<1>4. seen' \in Seq(Held) /\ tape' \in Seq(Held) /\ Len(seen') = 0
  BY <1>1
<1>5. Typed'
  <2>1. sure' \in BOOLEAN /\ twisted' \in BOOLEAN
    BY <1>1, Zenon
  <2>2. cmd' = Len(macro') /\ cmd' > 0 /\ rtc' \in Nat /\ frame' \in Nat
    BY <1>1, <1>3
  <2> QED BY <1>1, <1>2, <1>3, <1>4, <2>1, <2>2 DEF Typed
<1>6. PICK t : t = [i \in 1 .. 1 |-> 1]
  OBVIOUS
<1>7. Timed(macro', 0, seen', t)
  <2>1. t \in [1 .. 0 + 1 -> 1 .. Len(seen') + 1] /\ t[1] = 1
    BY <1>4, <1>6
  <2>2. \A i, j \in 1 .. 0 + 1 : t[i] <= t[j]
    BY <2>1, <1>6
  <2>3. t[0 + 1] - 1 = 0
    BY <2>1
  <2> QED BY <2>1, <2>2, <2>3 DEF Timed
<1>8. Waiting(t)'
  <2>1. t[1] = 1
    BY <1>6
  <2> QED BY <1>1, <1>4, <2>1 DEF Waiting, Before
<1>9. Recording(t)'
  <2>1. Untwisted(t)'
    BY <1>1 DEF Untwisted
  <2>2. Extra(macro', cmd') = 0
    BY <1>1 DEF Extra
  <2>3. cmd' - 1 = 0
    BY <1>1
  <2> QED BY <1>1, <1>3, <1>7, <1>8, <2>1, <2>2, <2>3 DEF Recording
<1> QED BY <1>1, <1>5, <1>9

\* An append begins where the macro ends, if nothing is down there.
LEMMA AppendStarts ==
  ASSUME Typed, AppendStart, NEW t, Recorded(t)
  PROVE  Typed' /\ frame' = 0 /\ acting' = "record" /\ (sure' => Recording(t)')
<1> DEFINE n == Len(macro)
<1>1. /\ macro' = Append(macro, Delay(0)) /\ cmd' = Len(macro') /\ lastButtons' = {} /\ rtc' = 0
      /\ seen' = tape /\ twisted' = FALSE /\ tape' = tape /\ acting' = "record" /\ frame' = 0
      /\ sure' = (tape # <<>> /\ Last(tape) = {}) /\ macro # <<>>
  BY DEF AppendStart
<1>2. Delay(0) \in Commands /\ {} \in Held /\ macro \in Seq(Commands) /\ tape \in Seq(Held)
  BY DEF Delay, Commands, Actions, Held, Typed
<1>3. /\ n \in Nat \ {0} /\ Len(tape) \in Nat
      /\ macro' \in Seq(Commands) /\ Len(macro') = n + 1 /\ macro'[n + 1] = Delay(0)
      /\ \A i \in 1 .. n : macro'[i] = macro[i]
  BY <1>1, <1>2
<1>4. Typed'
  <2>1. sure' \in BOOLEAN /\ twisted' \in BOOLEAN
    BY <1>1, Zenon
  <2>2. cmd' = Len(macro') /\ cmd' > 0 /\ rtc' \in Nat /\ frame' \in Nat
    BY <1>1, <1>3
  <2>3. seen' \in Seq(Held) /\ tape' \in Seq(Held) /\ lastButtons' \in Held
    BY <1>1, <1>2
  <2>4. acting' = "record"
    BY <1>1
  <2> QED BY <1>3, <2>1, <2>2, <2>3, <2>4 DEF Typed
<1>5. ASSUME sure' PROVE Recording(t)'
  <2>1. tape # <<>> /\ tape[Len(tape)] = {} /\ Len(tape) # 0
    <3>1. tape # <<>> /\ Last(tape) = {}
      BY <1>1, <1>5, Zenon
    <3> QED BY <1>2, <3>1 DEF Last
  <2>2. t[n + 1] = Len(tape) + 1
    BY DEF Recorded
  <2>3. Timed(macro, n, tape, t)
    BY DEF Recorded
  <2>4. Timed(macro', n, seen', t)
    <3>1. \A f \in 1 .. Len(tape) : seen'[f] = tape[f]
      BY <1>1
    <3>2. seen' \in Seq(Held) /\ Len(tape) <= Len(seen')
      BY <1>1, <1>2, <1>3
    <3> QED BY <1>2, <1>3, <2>3, <3>1, <3>2, TimedExtends
  <2>5. cmd' = n + 1 /\ cmd' - 1 = n
    BY <1>1, <1>3
  <2>6. Waiting(t)'
    <3>1. Before(seen', Len(seen') + 1) = {}
      BY <1>1, <1>3, <2>1 DEF Before
    <3>2. Len(seen') = t[cmd'] - 1 /\ \A f \in t[cmd'] .. Len(seen') : FALSE
      BY <1>1, <1>3, <2>2, <2>5
    <3> QED BY <1>1, <3>1, <3>2 DEF Waiting
  <2>7. ASSUME NEW i \in 1 .. n, ~IsDelay(macro'[i])
        PROVE  \E f \in t[i] .. Len(seen') : seen'[f] \cap MenuButtons = {}
    <3>1. Changes(macro', seen', t, i)
      BY <2>4, <2>7 DEF Timed
    <3>2. Len(seen') \in t[i] .. Len(seen') /\ seen'[Len(seen')] = {}
      BY <1>1, <1>3, <2>1, <3>1 DEF Changes
    <3> QED BY <3>2
  <2>8. Untwisted(t)'
    BY <2>5, <2>7 DEF Untwisted
  <2>9. cmd' # 1 /\ tape' # <<>> /\ macro'[cmd'] = Delay(rtc')
    BY <1>1, <1>3, <2>1, <2>5
  <2> QED BY <1>1, <2>4, <2>5, <2>6, <2>8, <2>9 DEF Recording
<1> QED BY <1>1, <1>4, <1>5

\* A round begins with the first frame.
LEMMA PlayStarts ==
  ASSUME Typed, Play, NEW t, frame' # Unset => Recorded(t)
  PROVE  Typed' /\ (frame' # Unset => Playing(t)')
<1>1. /\ acting' = "trace" /\ cmd' = 1 /\ lastButtons' = {} /\ rtc' = 0
      /\ frame' = (IF sure /\ left = Unset THEN 0 ELSE Unset)
      /\ UNCHANGED <<macro, left, seen, twisted, tape, sure>>
  BY DEF Play
<1>2. macro # <<>> /\ macro \in Seq(Commands) /\ tape \in Seq(Held)
  BY DEF Play, Typed
<1>3. 1 \in 1 .. Len(macro) /\ Len(tape) \in Nat
  BY <1>2
<1>4. Typed'
  BY <1>1, <1>3 DEF Typed, Held
<1>5. ASSUME frame' # Unset PROVE Playing(t)'
  <2>1. t[1] = 1 /\ left' = Unset
    BY <1>1, <1>5 DEF Recorded, Timed
  <2>2. Clock' = 0 /\ Extra(macro', cmd') = 0 /\ Before(tape', Clock' + 1) = {}
    BY <1>1 DEF Clock, Extra, Before
  <2> QED BY <1>1, <1>3, <2>1, <2>2 DEF Playing
<1> QED BY <1>4, <1>5

\* The commands before a change are timed for the frames before it.
First(t, c) == [i \in 1 .. c |-> t[i]]

LEMMA TimedCut ==
  ASSUME NEW m, NEW n \in Nat, NEW s \in Seq(Held), NEW t, Timed(m, n, s, t),
         NEW c \in 1 .. n, NEW k \in 0 .. Len(s), t[c] = k + 1,
         NEW l, NEW r \in Seq(Held), Len(r) = k,
         \A i \in 1 .. c - 1 : l[i] = m[i], \A f \in 1 .. k : r[f] = s[f]
  PROVE  Timed(l, c - 1, r, First(t, c))
<1> DEFINE u == First(t, c)
<1>1. /\ Len(s) \in Nat /\ k \in Nat /\ c \in Nat \ {0} /\ t[1] = 1 /\ c - 1 + 1 = c
      /\ \A i \in 1 .. n + 1 : t[i] \in 1 .. Len(s) + 1
      /\ \A i, j \in 1 .. n + 1 : i <= j => t[i] <= t[j]
      /\ \A i \in 1 .. n : IF IsDelay(m[i]) THEN Waits(m, s, t, i) ELSE Changes(m, s, t, i)
      /\ n > 0 => ~IsDelay(m[1])
  <2>1. Len(s) \in Nat /\ k \in Nat /\ c \in Nat \ {0} /\ c - 1 + 1 = c
    OBVIOUS
  <2>2. /\ t \in [1 .. n + 1 -> 1 .. Len(s) + 1] /\ t[1] = 1 /\ (n > 0 => ~IsDelay(m[1]))
        /\ \A i, j \in 1 .. n + 1 : i <= j => t[i] <= t[j]
        /\ \A i \in 1 .. n : IF IsDelay(m[i]) THEN Waits(m, s, t, i) ELSE Changes(m, s, t, i)
    BY DEF Timed
  <2> QED BY <2>1, <2>2
<1>2. \A i \in 1 .. c : i \in 1 .. n + 1 /\ u[i] = t[i] /\ t[i] \in 1 .. k + 1
  <2>1. ASSUME NEW i \in 1 .. c PROVE i \in 1 .. n + 1 /\ t[i] \in 1 .. k + 1
    <3>1. i \in 1 .. n + 1 /\ c \in 1 .. n + 1 /\ i <= c
      BY <1>1
    <3>2. t[i] <= t[c] /\ t[i] \in 1 .. Len(s) + 1
      BY <1>1, <3>1
    <3> QED BY <1>1, <3>1, <3>2
  <2> QED BY <2>1 DEF First
<1>3. u[c] = k + 1 /\ u \in [1 .. c -> 1 .. k + 1] /\ u[1] = 1
  BY <1>1, <1>2 DEF First
<1> HIDE DEF u
<1>4. \A f \in 1 .. k + 1 : Before(s, f) = Before(r, f)
  <2>1. \A f \in 1 .. Len(r) : s[f] = r[f]
    OBVIOUS
  <2> QED BY <1>1, <2>1, BeforeExtends
<1>5. ASSUME NEW i \in 1 .. c - 1
      PROVE  IF IsDelay(l[i]) THEN Waits(l, r, u, i) ELSE Changes(l, r, u, i)
  <2>1. i \in 1 .. c /\ i + 1 \in 1 .. c /\ i \in 1 .. n
    BY <1>1
  <2>2. /\ u[i] = t[i] /\ u[i + 1] = t[i + 1] /\ l[i] = m[i]
        /\ t[i] \in 1 .. k + 1 /\ t[i + 1] \in 1 .. k + 1 /\ Before(s, t[i]) = Before(r, t[i])
    BY <1>2, <1>4, <2>1
  <2>3. Extra(l, i) = Extra(m, i)
    <3>1. i > 1 => l[i - 1] = m[i - 1]
      BY <1>1
    <3> QED BY <3>1 DEF Extra
  <2>4. CASE IsDelay(m[i])
    <3>1. Waits(m, s, t, i)
      BY <1>1, <2>1, <2>4
    <3>2. ASSUME NEW f \in t[i] .. t[i + 1] - 1 PROVE r[f] = s[f]
      <4>1. f \in 1 .. k
        BY <1>1, <2>2
      <4> QED BY <4>1
    <3> QED BY <2>2, <2>3, <2>4, <3>1, <3>2 DEF Waits
  <2>5. CASE ~IsDelay(m[i])
    <3>1. Changes(m, s, t, i)
      BY <1>1, <2>1, <2>5
    <3>2. t[i] \in 1 .. k
      BY <1>1, <2>2, <3>1 DEF Changes
    <3>3. r[t[i]] = s[t[i]]
      BY <3>2
    <3> QED BY <2>2, <2>5, <3>1, <3>2, <3>3 DEF Changes
  <2> QED BY <2>2, <2>4, <2>5
<1>6. ASSUME NEW i \in 1 .. c, NEW j \in 1 .. c, i <= j PROVE u[i] <= u[j]
  BY <1>1, <1>2, <1>6
<1>7. ASSUME NEW f \in 1 .. k, r[f] # Before(r, f)
      PROVE  \E i \in 1 .. c - 1 : ~IsDelay(l[i]) /\ u[i] = f
  <2>1. s[f] # Before(s, f)
    BY <1>1, <1>4, <1>7
  <2>2. f \in 1 .. t[n + 1] - 1
    <3>1. t[c] <= t[n + 1] /\ t[n + 1] \in Nat
      BY <1>1
    <3> QED BY <1>1, <3>1
  <2>3. PICK i \in 1 .. n : ~IsDelay(m[i]) /\ t[i] = f
    BY <2>1, <2>2 DEF Timed
  <2>4. i < c
    <3>1. c <= i => t[c] <= t[i]
      BY <1>1
    <3> QED BY <1>1, <2>3, <3>1
  <2>5. i \in 1 .. c - 1 /\ i \in 1 .. c
    BY <1>1, <2>4
  <2> QED BY <1>2, <2>3, <2>5
<1>8. c - 1 > 0 => ~IsDelay(l[1])
  BY <1>1
<1>9. Timed(l, c - 1, r, u)
  <2>1. u \in [1 .. c - 1 + 1 -> 1 .. Len(r) + 1]
    BY <1>1, <1>3
  <2>2. \A i, j \in 1 .. c - 1 + 1 : i <= j => u[i] <= u[j]
    BY <1>1, <1>6
  <2>3. \A f \in 1 .. u[c - 1 + 1] - 1 :
          r[f] # Before(r, f) => \E i \in 1 .. c - 1 : ~IsDelay(l[i]) /\ u[i] = f
    <3>1. u[c - 1 + 1] - 1 = k
      BY <1>1, <1>3
    <3> QED BY <1>7, <3>1
  <2> QED BY <1>3, <1>5, <1>8, <2>1, <2>2, <2>3 DEF Timed
<1> QED BY <1>9 DEF u

\* The last frame of a recording without a menu button, 0 if there is none.
Last0 == Max({i \in DOMAIN seen : seen[i] \cap MenuButtons = {}} \cup {0})

LEMMA Last0Is ==
  ASSUME Typed
  PROVE  /\ Last0 \in 0 .. Len(seen) /\ Before(seen, Last0 + 1) \cap MenuButtons = {}
         /\ \A f \in Last0 + 1 .. Len(seen) : seen[f] \cap MenuButtons # {}
<1> DEFINE Q == {i \in DOMAIN seen : seen[i] \cap MenuButtons = {}} \cup {0}
<1>1. Len(seen) \in Nat /\ DOMAIN seen = 1 .. Len(seen)
  BY DEF Typed
<1>2. Q \in SUBSET (0 .. Len(seen)) /\ 0 \in Q
  BY <1>1
<1>3. Last0 \in Q /\ \A q \in Q : q <= Last0
  BY <1>1, <1>2, Greatest DEF Last0
<1>4. Before(seen, Last0 + 1) \cap MenuButtons = {}
  <2>1. CASE Last0 = 0
    BY <2>1 DEF Before
  <2>2. CASE Last0 # 0
    BY <1>1, <1>3, <2>2 DEF Before
  <2> QED BY <2>1, <2>2
<1>5. ASSUME NEW f \in Last0 + 1 .. Len(seen), seen[f] \cap MenuButtons = {} PROVE FALSE
  <2>1. f \in 1 .. Len(seen) /\ f > Last0
    BY <1>1, <1>2, <1>3
  <2>2. f <= Last0
    BY <1>1, <1>3, <1>5, <2>1
  <2> QED BY <1>2, <1>3, <2>1, <2>2
<1> QED BY <1>2, <1>3, <1>4, <1>5

\* A step of the search for the menu buttons: the ones of a command change places.
StepBack(c, wanted) == LET bs == c.buttons \cap MenuButtons IN (wanted \ bs) \cup (bs \ wanted)

\* One more makes an even number odd, and one less.
LEMMA Parity ==
  ASSUME NEW n \in Nat, NEW m \in Nat, n = m + 1
  PROVE  n % 2 = 0 <=> m % 2 # 0
OBVIOUS

\* How many of the commands at the places s have button b.
Having(q, s, b) == {j \in s : b \in q[j].buttons}
\* What the search has left after them: the menu buttons that an even number of them has.
Even(q, s) == {b \in MenuButtons : Cardinality(Having(q, s, b)) % 2 = 0}

LEMMA EvenStep ==
  ASSUME NEW q, NEW s, IsFiniteSet(s), NEW x \in s, NEW r, r = s \ {x}
  PROVE  Even(q, s) = StepBack(q[x], Even(q, r))
<1>1. ASSUME NEW b \in MenuButtons
      PROVE  b \in Even(q, s) <=> IF b \in q[x].buttons THEN b \notin Even(q, r) ELSE b \in Even(q, r)
  <2>1. /\ IsFiniteSet(Having(q, s, b)) /\ IsFiniteSet(Having(q, r, b))
        /\ Cardinality(Having(q, s, b)) \in Nat /\ Cardinality(Having(q, r, b)) \in Nat
    <3>1. Having(q, s, b) \subseteq s /\ Having(q, r, b) \subseteq s
      BY DEF Having
    <3>2. IsFiniteSet(Having(q, s, b)) /\ IsFiniteSet(Having(q, r, b))
      BY <3>1, FS_Subset
    <3> QED BY <3>2, FS_CardinalityType
  <2>2. CASE b \in q[x].buttons
    <3>1. x \in Having(q, s, b) /\ Having(q, r, b) = Having(q, s, b) \ {x}
      BY <2>2 DEF Having
    <3>2. Cardinality(Having(q, r, b)) = Cardinality(Having(q, s, b)) - 1
      BY <2>1, <3>1, FS_RemoveElement
    <3>3. Cardinality(Having(q, s, b)) = Cardinality(Having(q, r, b)) + 1
      BY <2>1, <3>2
    <3>4. Cardinality(Having(q, s, b)) % 2 = 0 <=> Cardinality(Having(q, r, b)) % 2 # 0
      BY <2>1, <3>3, Parity
    <3> QED BY <2>2, <3>4 DEF Even
  <2>3. CASE b \notin q[x].buttons
    <3>1. Having(q, r, b) = Having(q, s, b)
      BY <2>3 DEF Having
    <3> QED BY <2>3, <3>1 DEF Even
  <2> QED BY <2>2, <2>3
<1>2. Even(q, s) \subseteq MenuButtons /\ Even(q, r) \subseteq MenuButtons
  BY DEF Even
<1> QED BY <1>1, <1>2 DEF StepBack

\* The search that stops a recording, from the last command back to command i.
LEMMA ToFindIs ==
  ASSUME Typed, NEW i \in 1 .. Len(macro), NEW v, v[Len(macro) + 1] = MenuButtons,
         \A j \in i .. Len(macro) : v[j] = StepBack(macro[j], v[j + 1])
  PROVE  ToFind(i) = v[i]
<1> DEFINE n == Len(macro)
           q == SubSeq(macro, i, n)
           l == n - i + 1
           S == 1 .. l
           it == [s \in SUBSET S |-> Even(q, s)]
           Iter == CHOOSE f : f = [s \in SUBSET S |->
                     IF s = {} THEN MenuButtons ELSE StepBack(q[Min(s)], f[s \ {Min(s)}])]
<1>1. n \in Nat /\ l \in Nat \ {0} /\ macro \in Seq(Commands)
  BY DEF Typed
<1>2. Len(q) = l /\ DOMAIN q = S /\ \A k \in S : q[k] = macro[i + k - 1]
  BY <1>1
<1> HIDE DEF q
<1>3. ToFind(i) = Iter[S]
  BY <1>2 DEF ToFind, FoldRight, MapThenFoldSet, StepBack, q
<1>4. ASSUME NEW s \in SUBSET S, s # {}
      PROVE  IsFiniteSet(s) /\ Min(s) \in s /\ \A k \in s : Min(s) <= k
  <2>1. IsFiniteSet(S)
    BY <1>1, FS_Interval
  <2>2. s \in SUBSET Nat
    OBVIOUS
  <2>3. \E x \in s : \A k \in s : x <= k
    BY <1>4, <2>2, Least
  <2> QED BY <2>1, <2>3, FS_Subset DEF Min
<1>5. it = [s \in SUBSET S |->
              IF s = {} THEN MenuButtons ELSE StepBack(q[Min(s)], it[s \ {Min(s)}])]
  <2>1. ASSUME NEW s \in SUBSET S
        PROVE  Even(q, s) = IF s = {} THEN MenuButtons
                            ELSE StepBack(q[Min(s)], Even(q, s \ {Min(s)}))
    <3>1. CASE s = {}
      <4>1. \A b : Having(q, s, b) = {}
        BY <3>1 DEF Having
      <4>2. Cardinality({}) % 2 = 0
        BY FS_EmptySet
      <4> QED BY <3>1, <4>1, <4>2 DEF Even
    <3>2. CASE s # {}
      <4>1. IsFiniteSet(s) /\ Min(s) \in s
        BY <1>4, <3>2
      <4>2. PICK x \in s : x = Min(s)
        BY <4>1
      <4>3. PICK r : r = s \ {x}
        OBVIOUS
      <4>4. Even(q, s) = StepBack(q[x], Even(q, r))
        BY <4>1, <4>3, EvenStep
      <4> QED BY <3>2, <4>2, <4>3, <4>4
    <3> QED BY <3>1, <3>2
  <2>2. \A s \in SUBSET S : it[s] = Even(q, s) /\ it[s \ {Min(s)}] = Even(q, s \ {Min(s)})
    OBVIOUS
  <2>3. it = [s \in SUBSET S |-> Even(q, s)]
    OBVIOUS
  <2> HIDE DEF it, S
  <2>4. \A s \in SUBSET S :
          Even(q, s) = IF s = {} THEN MenuButtons
                       ELSE StepBack(q[Min(s)], it[s \ {Min(s)}])
    BY <2>1, <2>2
  <2> QED BY <2>3, <2>4, Zenon
<1> HIDE DEF it
<1>6. Iter = [s \in SUBSET S |->
                IF s = {} THEN MenuButtons ELSE StepBack(q[Min(s)], Iter[s \ {Min(s)}])]
  BY <1>5, Zenon
<1> HIDE DEF Iter
<1>7. ASSUME NEW k \in S
      PROVE  Iter[k .. l] = StepBack(q[k], Iter[k + 1 .. l])
  <2>1. k .. l \in SUBSET S /\ k \in k .. l /\ (k .. l) \ {k} = k + 1 .. l
    BY <1>1
  <2>2. Min(k .. l) \in k .. l /\ Min(k .. l) <= k
    BY <1>4, <2>1
  <2>3. Min(k .. l) = k
    BY <1>1, <2>2
  <2>4. Iter[k .. l] = StepBack(q[Min(k .. l)], Iter[(k .. l) \ {Min(k .. l)}])
    BY <1>6, <2>1
  <2> QED BY <2>1, <2>3, <2>4
<1> DEFINE Bad == {d \in Nat : d <= l /\ Iter[l + 1 - d .. l] # v[n + 1 - d]}
<1>8. Bad = {}
  <2>1. SUFFICES ASSUME Bad # {} PROVE FALSE
    OBVIOUS
  <2>2. PICK d \in Bad : \A e \in Bad : d <= e
    BY <2>1, Least
  <2>3. d \in Nat /\ d <= l /\ Iter[l + 1 - d .. l] # v[n + 1 - d]
    BY <2>2
  <2>4. d # 0
    <3>1. l + 1 - 0 .. l = {} /\ n + 1 - 0 = n + 1
      BY <1>1
    <3>2. Iter[{}] = MenuButtons
      BY <1>6
    <3>3. d = 0 => Iter[l + 1 - d .. l] = MenuButtons /\ v[n + 1 - d] = MenuButtons
      BY <3>1, <3>2
    <3> QED BY <2>3, <3>3
  <2>5. d - 1 \in Nat /\ d - 1 <= l /\ d - 1 \notin Bad
    <3>1. d - 1 \in Nat /\ d - 1 <= l /\ ~(d <= d - 1)
      BY <1>1, <2>3, <2>4
    <3> HIDE DEF Bad
    <3> QED BY <2>2, <3>1
  <2> DEFINE k == l + 1 - d
  <2>6. k \in S /\ l + 1 - (d - 1) = k + 1 /\ n + 1 - d = i + k - 1 /\ n + 1 - (d - 1) = n + 1 - d + 1
        /\ n + 1 - d \in i .. n
    BY <1>1, <2>3, <2>4
  <2>7. Iter[k + 1 .. l] = v[n + 1 - d + 1]
    BY <2>5, <2>6
  <2>8. q[k] = macro[n + 1 - d]
    BY <1>2, <2>6
  <2>9. Iter[k .. l] = v[n + 1 - d]
    BY <1>7, <2>6, <2>7, <2>8
  <2> QED BY <2>3, <2>9
<1>9. Iter[S] = v[i]
  <2>1. l \notin Bad
    BY <1>8
  <2>2. l \in Nat /\ l <= l /\ l + 1 - l = 1 /\ n + 1 - l = i
    BY <1>1
  <2>3. Iter[l + 1 - l .. l] = v[n + 1 - l]
    <3> HIDE DEF n, l
    <3> QED BY <2>1, <2>2
  <2> QED BY <2>2, <2>3
<1> QED BY <1>3, <1>9

\* A step of the search undoes a change, as far as the menu buttons go.
LEMMA ChangedBack ==
  ASSUME NEW from \in Held, NEW to \in Held,
         Changed(from, to).action = "CHANGE" => from \cap MenuButtons = {}
  PROVE  StepBack(Changed(from, to), to \cap MenuButtons) = from \cap MenuButtons
<1> USE DEF Changed, OfButtons, StepBack
<1>1. CASE to \ from # {} /\ from \ to # {}
  <2>1. Changed(from, to).action = "CHANGE" /\ Changed(from, to).buttons = to
    BY <1>1
  <2>2. from \cap MenuButtons = {}
    BY <2>1
  <2> QED BY <2>1, <2>2
<1>2. CASE to \ from # {} /\ from \ to = {}
  BY <1>2
<1>3. CASE to \ from = {}
  BY <1>3
<1> QED BY <1>1, <1>2, <1>3

\* The menu was opened with a change, in the frame after the last one without its buttons.
LEMMA OpeningIs ==
  ASSUME Typed, acting = "record", NEW t, Recording(t), MenuButtons # {},
         MenuButtons \subseteq lastButtons
  PROVE  Last0 < Len(seen) /\ \E c \in 1 .. cmd - 1 : ~IsDelay(macro[c]) /\ t[c] = Last0 + 1
<1>1. /\ Len(seen) \in Nat /\ cmd \in Nat \ {0} /\ t[cmd] \in Nat \ {0} /\ cmd - 1 + 1 = cmd
      /\ t[cmd] <= Len(seen) + 1 /\ lastButtons = Before(seen, t[cmd])
  BY WaitingSame
<1>2. /\ Last0 \in 0 .. Len(seen) /\ Before(seen, Last0 + 1) \cap MenuButtons = {}
      /\ \A f \in Last0 + 1 .. Len(seen) : seen[f] \cap MenuButtons # {}
  BY Last0Is
<1>3. lastButtons = Before(seen, Len(seen) + 1) /\ lastButtons \cap MenuButtons # {}
  BY DEF Recording, Waiting
<1>4. Last0 # Len(seen)
  BY <1>2, <1>3
<1>5. Last0 \in Nat /\ Last0 < Len(seen) /\ Last0 + 1 \in Last0 + 1 .. Len(seen)
  BY <1>1, <1>2, <1>4
<1>6. seen[Last0 + 1] # Before(seen, Last0 + 1)
  BY <1>2, <1>5
<1>7. Last0 + 1 < t[cmd]
  <2>1. SUFFICES ASSUME t[cmd] <= Last0 + 1 PROVE FALSE
    BY <1>1, <1>5
  <2>2. Last0 + 1 \in t[cmd] .. Len(seen)
    BY <1>1, <1>5, <2>1
  <2>3. seen[Last0 + 1] = lastButtons
    BY <1>1, <2>2 DEF Recording, Waiting
  <2>4. CASE t[cmd] = Last0 + 1
    BY <1>1, <1>6, <2>3, <2>4
  <2>5. CASE t[cmd] <= Last0
    <3>1. Last0 \in t[cmd] .. Len(seen) /\ Last0 + 1 # 1
      BY <1>1, <1>5, <2>5
    <3>2. seen[Last0] = lastButtons
      BY <1>1, <3>1 DEF Recording, Waiting
    <3>3. Before(seen, Last0 + 1) = seen[Last0]
      BY <1>5, <3>1 DEF Before
    <3> QED BY <1>6, <2>3, <3>2, <3>3
  <2> QED BY <1>1, <1>5, <2>1, <2>4, <2>5
<1>8. Last0 + 1 \in 1 .. t[cmd] - 1
  BY <1>1, <1>5, <1>7
<1>9. \A f \in 1 .. t[cmd] - 1 :
        seen[f] # Before(seen, f) => \E i \in 1 .. cmd - 1 : ~IsDelay(macro[i]) /\ t[i] = f
  BY <1>1 DEF Recording, Timed
<1>10. \E i \in 1 .. cmd - 1 : ~IsDelay(macro[i]) /\ t[i] = Last0 + 1
  BY <1>6, <1>8, <1>9
<1> QED BY <1>5, <1>10

\* From there on the search has left, before each command, the menu buttons that were down then.
LEMMA Found ==
  ASSUME Typed, acting = "record", NEW t, Recording(t), ~twisted,
         MenuButtons \subseteq lastButtons,
         NEW c \in 1 .. cmd - 1, t[c] = Last0 + 1, NEW i \in c .. cmd
  PROVE  ToFind(i) = Before(seen, t[i]) \cap MenuButtons
<1>1. /\ Len(seen) \in Nat /\ cmd \in Nat \ {0} /\ cmd - 1 + 1 = cmd /\ cmd = Len(macro)
      /\ lastButtons = Before(seen, t[cmd]) /\ macro[cmd] = Delay(rtc) /\ seen \in Seq(Held)
  BY WaitingSame DEF Recording, Typed
<1>2. /\ Last0 \in 0 .. Len(seen)
      /\ \A f \in Last0 + 1 .. Len(seen) : seen[f] \cap MenuButtons # {}
  BY Last0Is
<1>3. /\ \A j \in 1 .. cmd : t[j] \in 1 .. Len(seen) + 1
      /\ \A j, k \in 1 .. cmd : j <= k => t[j] <= t[k]
      /\ \A j \in 1 .. cmd - 1 : IF IsDelay(macro[j]) THEN Waits(macro, seen, t, j)
                                                      ELSE Changes(macro, seen, t, j)
  BY <1>1 DEF Recording, Timed
<1> DEFINE v == [j \in 1 .. cmd + 1 |-> IF j = cmd + 1 THEN MenuButtons
                                        ELSE Before(seen, t[j]) \cap MenuButtons]
<1>4. v[Len(macro) + 1] = MenuButtons /\ \A j \in 1 .. cmd : v[j] = Before(seen, t[j]) \cap MenuButtons
  <2>1. cmd + 1 \in 1 .. cmd + 1
    BY <1>1
  <2>2. \A j \in 1 .. cmd : j \in 1 .. cmd + 1 /\ j # cmd + 1
    BY <1>1
  <2> QED BY <1>1, <2>1, <2>2
<1> HIDE DEF v
<1>5. ASSUME NEW j \in c .. cmd, j # cmd PROVE v[j] = StepBack(macro[j], v[j + 1])
  <2>1. j \in 1 .. cmd - 1 /\ j \in 1 .. cmd /\ j + 1 \in 1 .. cmd /\ c \in 1 .. cmd /\ c <= j
    <3>1. c \in Nat \ {0} /\ c <= cmd - 1
      BY <1>1
    <3>2. cmd \in Nat /\ j \in c .. cmd
      BY <1>1
    <3>3. j \in Nat /\ c <= j /\ j <= cmd
      BY <3>1, <3>2
    <3>4. j < cmd
      BY <1>5, <3>2, <3>3
    <3> QED BY <3>1, <3>2, <3>3, <3>4
  <2>2. v[j] = Before(seen, t[j]) \cap MenuButtons /\ v[j + 1] = Before(seen, t[j + 1]) \cap MenuButtons
    BY <1>4, <2>1
  <2>3. t[j] \in Nat \ {0} /\ t[j + 1] \in Nat \ {0} /\ t[j] <= t[j + 1] /\ Last0 + 1 <= t[j]
    <3>1. t[j] \in 1 .. Len(seen) + 1 /\ t[j + 1] \in 1 .. Len(seen) + 1
      BY <1>3, <2>1
    <3>2. t[c] <= t[j] /\ t[j] <= t[j + 1]
      BY <1>1, <1>3, <2>1
    <3> QED BY <3>1, <3>2
  <2>4. CASE IsDelay(macro[j])
    <3>1. Waits(macro, seen, t, j)
      BY <1>3, <2>1, <2>4
    <3>2. t[j + 1] \in t[j] .. t[j + 1]
      BY <2>3
    <3>3. Before(seen, t[j + 1]) = Before(seen, t[j])
      BY <2>3, <3>1, <3>2, SameWhileWaiting
    <3>4. macro[j].buttons = {}
      BY <3>1 DEF Waits, Delay
    <3> QED BY <2>2, <3>3, <3>4 DEF StepBack
  <2>5. CASE ~IsDelay(macro[j])
    <3> DEFINE from == Before(seen, t[j])
               to   == seen[t[j]]
    <3>1. /\ t[j + 1] = t[j] + 1 /\ t[j] \in 1 .. Len(seen)
          /\ macro[j] = Changed(from, to)
      BY <1>3, <2>1, <2>5 DEF Changes
    <3>2. from \in Held /\ to \in Held
      BY <1>1, <3>1 DEF Before, Held
    <3>3. Before(seen, t[j + 1]) = to
      BY <2>3, <3>1 DEF Before
    <3>4. macro[j].action = "CHANGE" => from \cap MenuButtons = {}
      <4>1. \/ macro[j].action # "CHANGE"
            \/ Before(seen, t[j]) \cap MenuButtons = {}
            \/ \E f \in t[j] .. Len(seen) : seen[f] \cap MenuButtons = {}
        BY <2>1, <2>5 DEF Recording, Untwisted
      <4>2. \A f \in t[j] .. Len(seen) : seen[f] \cap MenuButtons # {}
        BY <1>1, <1>2, <2>3
      <4> QED BY <4>1, <4>2
    <3> HIDE DEF from, to
    <3>5. StepBack(Changed(from, to), to \cap MenuButtons) = from \cap MenuButtons
      BY <3>1, <3>2, <3>4, ChangedBack
    <3> QED BY <2>2, <3>1, <3>3, <3>5 DEF from
  <2> QED BY <2>4, <2>5
<1>6. v[cmd] = StepBack(macro[cmd], v[cmd + 1])
  <2>1. macro[cmd].buttons = {}
    BY <1>1 DEF Delay
  <2>2. v[cmd] = MenuButtons /\ v[cmd + 1] = MenuButtons
    <3>1. cmd \in 1 .. cmd
      BY <1>1
    <3> QED BY <1>1, <1>4, <3>1
  <2> QED BY <2>1, <2>2 DEF StepBack
<1>7. i \in 1 .. Len(macro) /\ i \in 1 .. cmd
  BY <1>1
<1>8. \A j \in i .. Len(macro) : v[j] = StepBack(macro[j], v[j + 1])
  <2>1. ASSUME NEW j \in i .. Len(macro) PROVE v[j] = StepBack(macro[j], v[j + 1])
    <3>1. j \in c .. cmd
      BY <1>1
    <3> QED BY <1>5, <1>6, <3>1
  <2> QED BY <2>1
<1>9. ToFind(i) = v[i]
  BY <1>4, <1>7, <1>8, ToFindIs
<1> QED BY <1>4, <1>7, <1>9

\* The command that opened the menu is where the macro is cut off.
LEMMA CutIs ==
  ASSUME Typed, acting = "record", NEW t, Recording(t), ~twisted, MenuButtons # {},
         MenuButtons \subseteq lastButtons
  PROVE  Cut \in 1 .. cmd - 1 /\ t[Cut] = Last0 + 1
<1> DEFINE Q == {i \in DOMAIN macro : ToFind(i) = {}} \cup {0}
<1>1. /\ Len(seen) \in Nat /\ cmd \in Nat \ {0} /\ cmd - 1 + 1 = cmd /\ DOMAIN macro = 1 .. cmd
  BY WaitingSame DEF Recording, Typed
<1>2. PICK c \in 1 .. cmd - 1 : ~IsDelay(macro[c]) /\ t[c] = Last0 + 1
  BY OpeningIs
<1>3. /\ Last0 \in 0 .. Len(seen) /\ Before(seen, Last0 + 1) \cap MenuButtons = {}
      /\ \A f \in Last0 + 1 .. Len(seen) : seen[f] \cap MenuButtons # {}
  BY Last0Is
<1>4. \A i \in c .. cmd : ToFind(i) = Before(seen, t[i]) \cap MenuButtons
  BY <1>2, Found
<1>5. c \in Nat \ {0} /\ c \in c .. cmd /\ c \in 1 .. cmd /\ c + 1 \in 1 .. cmd
  BY <1>1
<1>6. c \in Q
  BY <1>1, <1>2, <1>3, <1>4, <1>5
<1>7. ASSUME NEW q \in Q, c < q PROVE FALSE
  <2>1. q \in 1 .. cmd /\ q \in c .. cmd /\ ToFind(q) = {}
    BY <1>1, <1>5, <1>7
  <2>2. t[c + 1] = t[c] + 1 /\ t[c + 1] <= t[q] /\ t[q] \in 1 .. Len(seen) + 1
    <3>1. /\ \A j \in 1 .. cmd : t[j] \in 1 .. Len(seen) + 1
          /\ \A j, k \in 1 .. cmd : j <= k => t[j] <= t[k]
          /\ \A j \in 1 .. cmd - 1 : IF IsDelay(macro[j]) THEN Waits(macro, seen, t, j)
                                                          ELSE Changes(macro, seen, t, j)
      BY <1>1 DEF Recording, Timed
    <3>2. Changes(macro, seen, t, c)
      BY <1>2, <3>1
    <3>3. c + 1 <= q
      BY <1>5, <1>7, <2>1
    <3> QED BY <1>5, <2>1, <3>1, <3>2, <3>3 DEF Changes
  <2>3. t[q] # 1 /\ t[q] - 1 \in Last0 + 1 .. Len(seen)
    <3>1. Last0 + 2 <= t[q] /\ Last0 \in Nat
      BY <1>1, <1>2, <1>3, <2>2
    <3> QED BY <1>1, <2>2, <3>1
  <2>4. Before(seen, t[q]) \cap MenuButtons # {}
    BY <1>3, <2>3 DEF Before
  <2> QED BY <1>4, <2>1, <2>4
<1>8. Q \in SUBSET (0 .. cmd) /\ Q # {}
  BY <1>1
<1>9. Cut \in Q /\ \A q \in Q : q <= Cut
  BY <1>1, <1>8, Greatest DEF Cut
<1> HIDE DEF Q
<1>10. c <= Cut /\ ~(c < Cut) /\ Cut \in Nat
  BY <1>1, <1>6, <1>7, <1>8, <1>9
<1>11. Cut = c
  BY <1>5, <1>10
<1> QED BY <1>2, <1>11

\* A macro ends before the menu was opened.
LEMMA RecordStops ==
  ASSUME Typed, RecordStop, MenuButtons # {}, NEW t, sure => Recording(t)
  PROVE  Typed' /\ acting' = "none" /\ frame' = frame /\ (sure' => \E u : Recorded(u)')
<1>1. /\ acting = "record" /\ acting' = "none" /\ cmd' = 0
      /\ macro' = (IF Cut = 0 THEN macro ELSE SubSeq(macro, 1, Cut - 1))
      /\ tape' = (IF ~sure' THEN <<>> ELSE SubSeq(seen, 1, Last0))
      /\ seen' = <<>> /\ UNCHANGED <<lastButtons, rtc, left, rest, out, frame>>
  BY DEF RecordStop, Last0
<1>2. sure' = (sure /\ ~twisted /\ MenuButtons \subseteq lastButtons) /\ twisted' = FALSE
  BY DEF RecordStop
<1>3. /\ macro \in Seq(Commands) /\ Len(macro) \in Nat /\ seen \in Seq(Held) /\ Len(seen) \in Nat
      /\ cmd = Len(macro)
  BY <1>1 DEF Typed
<1>4. Last0 \in 0 .. Len(seen)
  BY Last0Is
<1>5. Cut \in 0 .. Len(macro)
  <2> DEFINE Q == {i \in DOMAIN macro : ToFind(i) = {}} \cup {0}
  <2>1. Q \in SUBSET (0 .. Len(macro)) /\ Q # {}
    BY <1>3
  <2>2. Cut \in Q
    BY <1>3, <2>1, Greatest DEF Cut
  <2> HIDE DEF Q
  <2> QED BY <2>1, <2>2
<1>6. Typed'
  <2>1. sure' \in BOOLEAN /\ twisted' \in BOOLEAN
    BY <1>2, Zenon
  <2>2. macro' \in Seq(Commands)
    BY <1>1, <1>3, <1>5
  <2>3. tape' \in Seq(Held)
    BY <1>1, <1>3, <1>4
  <2>4. seen' \in Seq(Held)
    BY <1>1
  <2> QED BY <1>1, <2>1, <2>2, <2>3, <2>4 DEF Typed
<1>7. ASSUME sure' PROVE \E u : Recorded(u)'
  <2>1. sure /\ ~twisted /\ MenuButtons \subseteq lastButtons
    BY <1>2, <1>7, Zenon
  <2>2. Recording(t)
    BY <2>1
  <2>3. Cut \in 1 .. cmd - 1 /\ t[Cut] = Last0 + 1
    BY <1>1, <2>1, <2>2, CutIs
  <2>4. Cut # 0 /\ Cut - 1 \in Nat /\ Cut - 1 <= Len(macro) /\ Cut - 1 + 1 = Cut /\ cmd - 1 \in Nat
        /\ Cut \in Nat
    BY <1>3, <1>5, <2>3
  <2>5. macro' = SubSeq(macro, 1, Cut - 1) /\ tape' = SubSeq(seen, 1, Last0)
    BY <1>1, <1>7, <2>4
  <2>6. /\ Len(macro') = Cut - 1 /\ \A i \in 1 .. Cut - 1 : macro'[i] = macro[i]
    BY <1>3, <2>4, <2>5
  <2>7. /\ Len(tape') = Last0 /\ tape' \in Seq(Held) /\ \A f \in 1 .. Last0 : tape'[f] = seen[f]
    BY <1>3, <1>4, <2>5
  <2>8. PICK u : u = First(t, Cut)
    OBVIOUS
  <2>9. Timed(macro', Cut - 1, tape', u)
    <3>1. Timed(macro, cmd - 1, seen, t)
      BY <2>2 DEF Recording
    <3>2. PICK c, k : c = Cut /\ k = Last0
      OBVIOUS
    <3>3. c \in 1 .. cmd - 1 /\ k \in 0 .. Len(seen) /\ t[c] = k + 1 /\ Len(tape') = k
      BY <1>4, <2>3, <2>7, <3>2
    <3>4. (\A i \in 1 .. c - 1 : macro'[i] = macro[i]) /\ \A f \in 1 .. k : tape'[f] = seen[f]
      BY <2>6, <2>7, <3>2
    <3>5. cmd - 1 \in Nat /\ seen \in Seq(Held) /\ tape' \in Seq(Held)
      BY <1>3, <2>4, <2>7
    <3>6. Timed(macro', c - 1, tape', First(t, c))
      BY <3>1, <3>3, <3>4, <3>5, TimedCut
    <3> QED BY <2>8, <3>2, <3>6
  <2>10. u[Len(macro') + 1] = Len(tape') + 1
    BY <2>3, <2>4, <2>6, <2>7, <2>8 DEF First
  <2>11. Recorded(u)'
    BY <2>6, <2>9, <2>10 DEF Recorded
  <2> QED BY <2>11
<1> QED BY <1>1, <1>6, <1>7

-----------------------------------------------------------------------------
(* The theorem. *)

LEMMA TapeInvInit ==
  ASSUME TapeInit
  PROVE  TapeInv
<1>1. /\ macro = <<>> /\ acting = "none" /\ cmd = 0 /\ lastButtons = {} /\ rtc = 0
      /\ seen = <<>> /\ twisted = FALSE /\ tape = <<>> /\ sure = TRUE /\ frame = 0
  BY DEF TapeInit
<1>2. Typed
  <2>1. sure \in BOOLEAN /\ twisted \in BOOLEAN
    BY <1>1, Zenon
  <2>2. macro \in Seq(Commands) /\ seen \in Seq(Held) /\ tape \in Seq(Held)
    BY <1>1
  <2> QED BY <1>1, <2>1, <2>2 DEF Typed, Held
<1>3. PICK t : t = [i \in 1 .. 1 |-> 1]
  OBVIOUS
<1>4. Timed(macro, 0, tape, t)
  <2>1. t \in [1 .. 0 + 1 -> 1 .. Len(tape) + 1] /\ t[1] = 1
    BY <1>1, <1>3
  <2>2. \A i, j \in 1 .. 0 + 1 : t[i] <= t[j]
    BY <2>1, <1>3
  <2>3. t[0 + 1] - 1 = 0
    BY <2>1
  <2> QED BY <2>1, <2>2, <2>3 DEF Timed
<1>5. Recorded(t)
  <2>1. Len(macro) = 0 /\ Len(tape) = 0 /\ t[0 + 1] = 0 + 1
    BY <1>1, <1>3
  <2> QED BY <1>4, <2>1 DEF Recorded
<1>6. PlaysAsRecorded
  BY <1>1 DEF PlaysAsRecorded
<1> QED BY <1>1, <1>2, <1>5, <1>6 DEF TapeInv

LEMMA TapeInvNext ==
  ASSUME MenuButtons # {}, TapeInv, [TapeNext]_tapeVars
  PROVE  TapeInv'
<1> USE DEF TapeInv
<1>1. CASE RecordStart
  <2>1. Typed' /\ frame' = 0 /\ acting' = "record" /\ \E t : Recording(t)'
    BY <1>1, RecordStarts
  <2>2. PlaysAsRecorded'
    BY <2>1 DEF PlaysAsRecorded
  <2> QED BY <2>1, <2>2
<1>2. CASE AppendStart
  <2>1. sure /\ acting = "none"
    BY <1>2 DEF AppendStart
  <2>2. PICK t : Recorded(t)
    BY <2>1
  <2>3. Typed' /\ frame' = 0 /\ acting' = "record" /\ (sure' => Recording(t)')
    BY <1>2, <2>2, AppendStarts
  <2>4. PlaysAsRecorded'
    BY <2>3 DEF PlaysAsRecorded
  <2> QED BY <2>3, <2>4
<1>3. ASSUME NEW pad \in HeldSets, Record(pad) PROVE TapeInv'
  <2>1. acting = "record" /\ acting' = "record" /\ frame' = frame /\ sure' = sure
    BY <1>3 DEF Record
  <2>2. Typed'
    BY <1>3, RecordTyped
  <2>3. ASSUME sure PROVE \E v : Recording(v)'
    <3>1. PICK t : Recording(t)
      BY <2>1, <2>3
    <3> QED BY <1>3, <3>1, RecordKeeps
  <2>4. PlaysAsRecorded'
    BY <2>1 DEF PlaysAsRecorded
  <2> QED BY <2>1, <2>2, <2>3, <2>4
<1>4. CASE RecordStop
  <2>1. acting = "record" /\ frame = 0
    BY <1>4 DEF RecordStop
  <2>2. PICK t : sure => Recording(t)
    BY <2>1
  <2>3. Typed' /\ acting' = "none" /\ frame' = frame /\ (sure' => \E u : Recorded(u)')
    BY <1>4, <2>2, RecordStops
  <2>4. PlaysAsRecorded'
    BY <2>1, <2>3 DEF PlaysAsRecorded
  <2> QED BY <2>1, <2>3, <2>4
<1>5. CASE Play
  <2>1. /\ acting = "none" /\ acting' = "trace" /\ UNCHANGED <<macro, tape, sure>>
        /\ frame' = (IF sure /\ left = Unset THEN 0 ELSE Unset)
    BY <1>5 DEF Play
  <2>2. frame' # Unset => sure
    BY <2>1
  <2>3. PICK t : sure => Recorded(t)
    BY <2>1
  <2>4. Typed' /\ (frame' # Unset => Playing(t)')
    BY <1>5, <2>2, <2>3, PlayStarts
  <2>5. Recorded(t) => Recorded(t)'
    BY <2>1 DEF Recorded
  <2>6. PlaysAsRecorded' /\ ~(frame' > 0)
    BY <2>1 DEF PlaysAsRecorded, Unset
  <2> QED BY <2>1, <2>2, <2>3, <2>4, <2>5, <2>6
<1>6. CASE PlayStop
  <2>1. /\ acting = "trace" /\ acting' = "none" /\ cmd' = 0 /\ frame' = Unset
        /\ UNCHANGED <<macro, lastButtons, rtc, seen, twisted, tape, sure>>
    BY <1>6 DEF PlayStop, Stopped
  <2>2. Typed'
    BY <2>1 DEF Typed
  <2>3. PlaysAsRecorded' /\ ~(frame' > 0)
    BY <2>1 DEF PlaysAsRecorded, Unset
  <2>4. sure' => \E t : Recorded(t)'
    <3>1. ASSUME sure PROVE \E t : Recorded(t)'
      <4>1. PICK t : Recorded(t)
        BY <2>1, <3>1
      <4>2. Recorded(t)'
        BY <2>1, <4>1 DEF Recorded
      <4> QED BY <4>2
    <3> QED BY <2>1, <3>1
  <2> QED BY <2>1, <2>2, <2>3, <2>4
<1>7. CASE Trace
  <2>1. Typed'
    BY <1>7, TraceTyped
  <2>2. /\ acting = "trace" /\ UNCHANGED <<macro, tape, sure>> /\ (frame = Unset => frame' = Unset)
    BY <1>7 DEF Trace
  <2>3. acting' \in {"none", "trace"}
    BY <1>7, <2>2 DEF Trace, RoundOver, Stopped
  <2>4. ASSUME sure PROVE \E t : Recorded(t)'
    <3>1. PICK t : Recorded(t)
      BY <2>2, <2>4
    <3>2. Recorded(t)'
      BY <2>2, <3>1 DEF Recorded
    <3> QED BY <3>2
  <2>5. CASE frame = Unset
    <3>1. PlaysAsRecorded' /\ ~(frame' > 0)
      BY <2>2, <2>5 DEF PlaysAsRecorded, Unset
    <3> QED BY <2>1, <2>2, <2>3, <2>4, <2>5, <3>1
  <2>6. CASE frame # Unset
    <3>1. PICK t : Recorded(t) /\ Playing(t)
      BY <2>2, <2>6
    <3>2. Played(t, Clock) /\ frame' = Clock + 1 /\ sure
      BY <1>7, <2>2, <2>6, <3>1, TracePlays
    <3>3. Recorded(t)'
      BY <2>2, <3>1 DEF Recorded
    <3>4. Clock \in Nat
      BY <3>1 DEF Playing
    <3>5. frame' > 0 /\ PlaysAsRecorded'
      BY <2>2, <3>2, <3>4 DEF Played, PlaysAsRecorded
    <3>6. acting' = "trace" => Playing(t)'
      BY <3>2 DEF Played
    <3> QED BY <2>1, <2>2, <2>3, <2>4, <3>2, <3>3, <3>5, <3>6
  <2> QED BY <2>5, <2>6
<1>8. CASE UNCHANGED tapeVars
  <2>1. UNCHANGED <<macro, acting, cmd, lastButtons, rtc, left, out, seen, twisted, tape, sure, frame>>
    BY <1>8 DEF tapeVars
  <2>2. Typed' = Typed /\ PlaysAsRecorded' = PlaysAsRecorded
    BY <2>1 DEF Typed, PlaysAsRecorded
  <2>3. \A t : Recording(t)' = Recording(t) /\ Recorded(t)' = Recorded(t) /\ Playing(t)' = Playing(t)
    BY <2>1 DEF Recording, Recorded, Playing, Waiting, Untwisted, Clock
  <2> QED BY <2>1, <2>2, <2>3
<1> QED BY <1>1, <1>2, <1>3, <1>4, <1>5, <1>6, <1>7, <1>8 DEF TapeNext

\* What is recorded and played is as TapeInv says: commands are timed for the frames that they
\* were recorded in (macro_record, macro_trace).
THEOREM TapeInvariant ==
  ASSUME MenuButtons # {}
  PROVE  TapeSpec => []TapeInv
<1> QED BY TapeInvInit, TapeInvNext, PTL DEF TapeSpec

\* A round of a macro adds to each frame the buttons that were down in that frame of the
\* recording, whatever was recorded, if the buttons that open the menu are set: with none,
\* the menu is always open (mfmain.c, mfGetMenuButtons).
THEOREM PlaysAsRecordedCorrect ==
  ASSUME MenuButtons # {}
  PROVE  TapeSpec => []PlaysAsRecorded
<1>1. TapeInv => PlaysAsRecorded
  BY DEF TapeInv
<1> QED BY <1>1, TapeInvariant, PTL
=============================================================================
