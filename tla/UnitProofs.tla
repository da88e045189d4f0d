----------------------------- MODULE UnitProofs -----------------------------
(***************************************************************************)
(* Proofs about parts that work on their own, for any values of their      *)
(* constants: what MacroFire takes from the game (Takeover), from the      *)
(* screen's memory (Screen) and from its calls (Hooks), what it draws into *)
(* (Frames), memory (a pool, Dmem; blocks of a partition, Memory; blocks   *)
(* of a heap of user mode, UserHeap), directories (Dirh), the rapid fire   *)
(* engine (Rapidfire), key repeat (Padctrl), the macro editor (Editor) and *)
(* the text of the keyboard (SoskText).  MenuProofs is about the others.   *)
(*                                                                         *)
(* They share nothing, and each has a section of its own; the last section *)
(* puts together what is said of several of them.  What Parts says of a    *)
(* part is said of the behaviours in which it takes the steps.  A theorem  *)
(* here is about all behaviours of the part's own Spec, which those are:   *)
(* MCUnits has the part's Init and its Next.                               *)
(***************************************************************************)
EXTENDS Dmem, Parts, FiniteSetTheorems, SequenceTheorems, NaturalsInduction,
        WellFoundedInduction, TLAPS

-----------------------------------------------------------------------------
\* A set of numbers has a least one.
LEMMA Least ==
  ASSUME NEW Q \in SUBSET Nat, Q # {}
  PROVE  \E n \in Q : \A m \in Q : n <= m
<1> DEFINE Rel == OpToRel(<, Nat)
<1>1. IsWellFoundedOn(Rel, Nat)
  BY NatLessThanWellFounded
<1>2. \A m, n \in Nat : m < n => <<m, n>> \in Rel
  BY DEF OpToRel
<1> HIDE DEF Rel
<1>3. PICK n \in Q : \A m \in Q : <<m, n>> \notin Rel
  BY <1>1, WFMin
<1>4. \A m \in Q : ~(m < n)
  BY <1>2, <1>3
<1>5. \A m \in Q : n <= m
  BY <1>4
<1> QED BY <1>5

-----------------------------------------------------------------------------
(* Takeover: whatever the game does meanwhile. *)

\* A thread has one owner.
Owners == GameThreads \cap System = {} /\ Notifier \notin GameThreads \cup System

\* The threads: a target is a thread of the game, what is suspended is a target or was
\* suspended by the game, and from when the targets are suspended those that ran when they
\* were listed are suspended, by the menu and not by the game.
TargetsInv ==
  /\ sysThreads = System
  /\ stopped \subseteq halted /\ halted \subseteq GameThreads /\ targets \subseteq GameThreads
  /\ halted \subseteq stopped \cup targets
  /\ menuAt \in {"game", "list", "suspend"} => halted \subseteq stopped
  /\ menuAt = "suspend" => /\ early \cap GameThreads \subseteq targets \cap alive
                           /\ early \cap GameThreads \cap halted = {}
  /\ menuAt \in {"take", "init", "shown"} => early \cap GameThreads \subseteq halted \ stopped

\* The rest: it is taken once the targets are suspended.
TakenInv ==
  /\ menuAt \in {"game", "list", "suspend", "take"} => ~muted /\ ~unhooked /\ buffers = "none"
  /\ menuAt = "game" => pools = 0 \/ poolLeft

TakeoverInv == Takeover!TypeOK /\ TargetsInv /\ TakenInv

-----------------------------------------------------------------------------
\* Before the menu is opened for the first time nothing is taken.
LEMMA TakeoverInitInv == Takeover!Init => TakeoverInv
<1> SUFFICES ASSUME Takeover!Init PROVE TakeoverInv
  OBVIOUS
<1>1. pools \in 0 .. 1
  BY DEF Takeover!Init
<1>4. {unhooked, muted, poolLeft} \subseteq BOOLEAN
  BY Zenon DEF Takeover!Init
<1>2. Takeover!TypeOK
  BY <1>1, <1>4 DEF Takeover!Init, Takeover!TypeOK, Takeover!Threads
<1>3. TargetsInv /\ TakenInv
  BY DEF Takeover!Init, TargetsInv, TakenInv
<1> QED BY <1>2, <1>3 DEF TakeoverInv

\* What the game does keeps everything: it suspends and resumes its own threads only.
LEMMA TakeoverGameStep ==
  ASSUME Owners, TakeoverInv, NEW t \in GameThreads, NEW u \in GameThreads,
         Takeover!Born(t) \/ Takeover!Ends(t) \/ Takeover!Stops(t, u) \/ Takeover!Starts(t, u)
  PROVE  TakeoverInv'
<1> USE
    DEF TakeoverInv, Takeover!TypeOK, TargetsInv, TakenInv, Takeover!Threads, Takeover!Runs, Owners
<1>1. CASE Takeover!Born(t)
  BY <1>1 DEF Takeover!Born, Takeover!own
<1>2. CASE Takeover!Ends(t)
  BY <1>2 DEF Takeover!Ends, Takeover!own
<1>3. CASE Takeover!Stops(t, u)
  <2>1. UNCHANGED <<Takeover!own, alive>>
    BY <1>3 DEF Takeover!Stops
  <2>2. Takeover!TypeOK' /\ TakenInv'
    BY <1>3, <2>1 DEF Takeover!Stops, Takeover!own
  <2>3. TargetsInv'
    BY <1>3, <2>1 DEF Takeover!Stops, Takeover!own
  <2> QED BY <2>2, <2>3
<1>4. CASE Takeover!Starts(t, u)
  BY <1>4 DEF Takeover!Starts, Takeover!own
<1> QED BY <1>1, <1>2, <1>3, <1>4

\* The menu opens, lists, suspends, takes, and gives back.
LEMMA TakeoverMenuStep ==
  ASSUME Owners, TakeoverInv,
         Takeover!Open \/ Takeover!List \/ Takeover!Suspend \/ Takeover!Take \/ Takeover!InitMenu
           \/ Takeover!Quit \/ Takeover!Give
  PROVE  TakeoverInv'
<1> USE
    DEF TakeoverInv, Takeover!TypeOK, TargetsInv, TakenInv, Takeover!Threads, Takeover!Runs, Owners
<1>1. CASE Takeover!Open
  <2>1. pools' \in 0 .. 1 /\ menuAt' \in {"game", "list"}
    BY <1>1 DEF Takeover!Open
  <2>2. UNCHANGED <<alive, halted, sysThreads, targets, unhooked, muted, buffers, stopped, early>>
    BY <1>1 DEF Takeover!Open, Takeover!Kept
  <2>3. poolLeft' \in BOOLEAN /\ (menuAt' = "game" => poolLeft')
    BY <1>1, Zenon DEF Takeover!Open
  <2>4. Takeover!TypeOK'
    BY <2>1, <2>2, <2>3
  <2>5. TargetsInv' /\ TakenInv'
    BY <1>1, <2>1, <2>2, <2>3 DEF Takeover!Open
  <2> QED BY <2>4, <2>5
<1>2. CASE Takeover!List
  <2>1. Takeover!TypeOK'
    BY <1>2 DEF Takeover!List, Takeover!Kept, Takeover!Targets
  <2>2. TargetsInv'
    BY <1>2 DEF Takeover!List, Takeover!Kept, Takeover!Targets
  <2>3. TakenInv'
    BY <1>2 DEF Takeover!List, Takeover!Kept
  <2> QED BY <2>1, <2>2, <2>3
<1>3. CASE Takeover!Suspend
  BY <1>3 DEF Takeover!Suspend, Takeover!Kept
<1>4. CASE Takeover!Take
  BY <1>4 DEF Takeover!Take, Takeover!Kept
<1>5. CASE Takeover!InitMenu
  BY <1>5 DEF Takeover!InitMenu, Takeover!Kept
<1>6. CASE Takeover!Quit
  BY <1>6 DEF Takeover!Quit
<1>7. CASE Takeover!Give
  <2>1. pools' \in 0 .. 1 /\ pools' = 0 /\ menuAt' = "game"
    BY <1>7 DEF Takeover!Give
  <2>4. {unhooked', muted', poolLeft'} \subseteq BOOLEAN
    BY <1>7, Zenon DEF Takeover!Give
  <2>2. Takeover!TypeOK'
    BY <1>7, <2>1, <2>4 DEF Takeover!Give, Takeover!Resumed
  <2>3. TargetsInv' /\ TakenInv'
    BY <1>7 DEF Takeover!Give, Takeover!Resumed
  <2> QED BY <2>2, <2>3
<1> QED BY <1>1, <1>2, <1>3, <1>4, <1>5, <1>6, <1>7

\* The invariant, for any threads of the game and of the system.
THEOREM TakeoverInvariant ==
  ASSUME Owners
  PROVE  Takeover!Spec => []TakeoverInv
<1>1. TakeoverInv /\ [Takeover!Next]_(Takeover!vars) => TakeoverInv'
  <2> SUFFICES ASSUME TakeoverInv, [Takeover!Next]_(Takeover!vars) PROVE TakeoverInv'
    OBVIOUS
  <2>1. CASE UNCHANGED Takeover!vars
    BY <2>1 DEF Takeover!vars, TakeoverInv, Takeover!TypeOK, TargetsInv, TakenInv, Takeover!Runs
  <2> QED BY <2>1, TakeoverGameStep, TakeoverMenuStep DEF Takeover!Next
<1> QED BY <1>1, TakeoverInitInv, PTL DEF Takeover!Spec

\* Whatever the game's threads do while they still run, and on every path out of the menu: when
\* it is gone no thread is suspended that the game did not suspend itself, sound, hooks, screen
\* memory and pool are back, and while it is shown no thread of the game runs that was listed.
THEOREM TakeoverGivenBackCorrect ==
  ASSUME Owners
  PROVE  Takeover!Spec => []Takeover!GivenBack
<1>1. TakeoverInv => Takeover!GivenBack
  BY DEF TakeoverInv, TargetsInv, TakenInv, Takeover!GivenBack, Takeover!Runs
<1> QED BY <1>1, TakeoverInvariant, PTL

\* Everything has its type, and what was suspended is there.
THEOREM TakeoverTypeCorrect ==
  ASSUME Owners
  PROVE  Takeover!Spec => []Takeover!TypeOK
<1> QED BY TakeoverInvariant, PTL DEF TakeoverInv

-----------------------------------------------------------------------------
(* Screen: the frames of the menu in the screen memory, with memory for any number of them. *)

\* Games show frames of the screen memory, in two bytes a pixel or in four.
InVram ==
  /\ FramePages \in Nat \ {0} /\ VramEnd \in Nat /\ 4 * FramePages <= VramEnd /\ Nowhere \notin Int
  /\ \A f \in Shows :
       /\ f.at \in Nat /\ f.size \in {FramePages, 2 * FramePages}
       /\ f.at + f.size <= VramEnd

\* The frames that mfmenu_alloc_buffers places with memory for n of them.
FramesOf(n) == [addr |-> Screen!Used(Screen!Placed(shown.at), n), restore |-> Screen!BackedUp(n)]
Restored    == UNION {Screen!Of(fb.addr[f]) : f \in fb.restore}

\* While the menu is shown, what is drawn outside of the game's frame has a backup, or is unsaved.
ScreenInv ==
  /\ Screen!TypeOK
  /\ menuShown  => /\ \E n \in 0 .. 3 : /\ fb = FramesOf(n)
                                       /\ Screen!Unsaved(n) \subseteq unsaved
                   /\ drawn \subseteq Screen!GameFrame \cup Restored \cup unsaved
  /\ ~menuShown => fb = Screen!NoFrames /\ drawn \subseteq Screen!GameFrame \cup unsaved

\* Where the frames are: the first in the game's frame, the others apart from it and from each
\* other, and in the game's frame if they have no backup, but for the second one of four bytes.
LEMMA FramesPlaced ==
  ASSUME InVram, shown \in Shows, NEW n \in 0 .. 3
  PROVE  /\ \A f \in Screen!FrameNames : FramesOf(n).addr[f] \in Nat \cup {Nowhere}
         /\ \A f \in Screen!FrameNames : Screen!Of(FramesOf(n).addr[f]) \subseteq Screen!Memory
         /\ \A f, g \in Screen!FrameNames :
              f # g => Screen!Of(FramesOf(n).addr[f]) \cap Screen!Of(FramesOf(n).addr[g]) = {}
         /\ \A f \in Screen!FrameNames \ FramesOf(n).restore :
              Screen!Of(FramesOf(n).addr[f]) \subseteq Screen!GameFrame \cup Screen!Unsaved(n)
         /\ Screen!Unsaved(n) \subseteq Nat
         /\ FramesOf(n).restore \subseteq Screen!FrameNames
<1> DEFINE a == shown.at
           addr == FramesOf(n).addr
<1>1. /\ a \in Nat /\ shown.size \in {FramePages, 2 * FramePages} /\ a + shown.size <= VramEnd
      /\ Screen!Wide <=> shown.size = 2 * FramePages
      /\ FramePages \in Nat \ {0} /\ VramEnd \in Nat /\ 4 * FramePages <= VramEnd
      /\ Nowhere \notin Int
      /\ Screen!GameFrame = a .. a + shown.size - 1 /\ FramePages <= shown.size
  BY DEF InVram, Screen!Wide, Screen!GameFrame
<1>2. /\ Screen!Placed(a).disp = a
      /\ \/ Screen!Placed(a).draw = 0 /\ Screen!Placed(a).clear = FramePages /\ a >= 2 * FramePages
              /\ (Screen!Wide => a + shown.size = VramEnd)
         \/ Screen!Placed(a).draw = a + FramePages /\ Screen!Placed(a).clear = 0 /\ a >= FramePages
            /\ a + 2 * FramePages < VramEnd
         \/ Screen!Placed(a).draw = a + FramePages /\ Screen!Placed(a).clear = a + 2 * FramePages
            /\ a + 3 * FramePages < VramEnd
  BY <1>1 DEF Screen!Placed
<1>3. /\ addr["disp"] = a
      /\ addr["draw"] = IF n = 0 /\ ~Screen!Wide THEN Nowhere ELSE Screen!Placed(a).draw
      /\ addr["clear"] = IF "clear" \notin Screen!BackedUp(n) THEN Nowhere
           ELSE Screen!Placed(a).clear
  <2>1. /\ Screen!Placed(a)["disp"] = Screen!Placed(a).disp
        /\ Screen!Placed(a)["draw"] = Screen!Placed(a).draw
        /\ Screen!Placed(a)["clear"] = Screen!Placed(a).clear
    OBVIOUS
  <2> QED BY <2>1, <1>2 DEF FramesOf, Screen!Used, Screen!FrameNames
<1>4. /\ FramesOf(n).restore = Screen!BackedUp(n) /\ Screen!BackedUp(n) \subseteq Screen!FrameNames
      /\ "draw" \notin Screen!BackedUp(n) => addr["draw"] = Nowhere \/ Screen!Wide
  BY <1>3 DEF FramesOf, Screen!BackedUp, Screen!FrameNames
<1>5. \A f \in Screen!FrameNames : addr[f] \in Nat \cup {Nowhere}
  <2>1. addr["disp"] \in Nat \cup {Nowhere}
    BY <1>1, <1>3
  <2>2. addr["draw"] \in Nat \cup {Nowhere}
    BY <1>1, <1>2, <1>3
  <2>3. addr["clear"] \in Nat \cup {Nowhere}
    BY <1>1, <1>2, <1>3
  <2> QED BY <2>1, <2>2, <2>3 DEF Screen!FrameNames
<1>6. \A f \in Screen!FrameNames : Screen!Of(addr[f]) \subseteq Screen!Memory
  <2>1. ASSUME NEW p \in Nat \cup {Nowhere}, p # Nowhere => p + FramePages <= VramEnd
        PROVE  Screen!Of(p) \subseteq Screen!Memory
    BY <1>1, <2>1 DEF Screen!Of, Screen!Memory
  <2>2. addr["disp"] # Nowhere => addr["disp"] + FramePages <= VramEnd
    BY <1>1, <1>3
  <2>3. addr["draw"] # Nowhere => addr["draw"] + FramePages <= VramEnd
    BY <1>1, <1>2, <1>3
  <2>4. addr["clear"] # Nowhere => addr["clear"] + FramePages <= VramEnd
    BY <1>1, <1>2, <1>3
  <2> QED BY <1>5, <2>1, <2>2, <2>3, <2>4 DEF Screen!FrameNames
<1>7. \A f, g \in Screen!FrameNames : f # g => Screen!Of(addr[f]) \cap Screen!Of(addr[g]) = {}
  <2>1. Screen!Of(addr["disp"]) \cap Screen!Of(addr["draw"]) = {}
    BY <1>1, <1>2, <1>3 DEF Screen!Of
  <2>2. Screen!Of(addr["disp"]) \cap Screen!Of(addr["clear"]) = {}
    <3>0. \A p, q \in Nat : p + FramePages <= q =>
            (p .. p + FramePages - 1) \cap (q .. q + FramePages - 1) = {}
      BY <1>1
    <3>1. \A p \in Nat : Screen!Of(p) = p .. p + FramePages - 1
      BY <1>1 DEF Screen!Of
    <3>6. \A p, q \in Nat : p + FramePages <= q => Screen!Of(q) \cap Screen!Of(p) = {}
      BY <3>0, <3>1
    <3>7. \A p, q \in Nat : p + FramePages <= q => Screen!Of(p) \cap Screen!Of(q) = {}
      BY <3>0, <3>1
    <3>2. CASE addr["clear"] = Nowhere
      BY <3>2 DEF Screen!Of
    <3>3. CASE addr["clear"] = FramePages /\ a >= 2 * FramePages
      <4>1. FramePages \in Nat /\ FramePages + FramePages <= a
        BY <1>1, <3>3
      <4>2. Screen!Of(a) \cap Screen!Of(FramePages) = {}
        BY ONLY <1>1, <3>6, <4>1
      <4> QED BY <1>3, <3>3, <4>2, Zenon
    <3>4. CASE addr["clear"] = 0 /\ a >= FramePages
      <4>1. 0 \in Nat /\ 0 + FramePages <= a
        BY <1>1, <3>4
      <4>2. Screen!Of(a) \cap Screen!Of(0) = {}
        BY ONLY <1>1, <3>6, <4>1
      <4> QED BY <1>3, <3>4, <4>2, Zenon
    <3>5. CASE addr["clear"] = a + 2 * FramePages
      <4>1. a + 2 * FramePages \in Nat /\ a + FramePages <= a + 2 * FramePages
        BY <1>1
      <4>2. Screen!Of(a) \cap Screen!Of(a + 2 * FramePages) = {}
        BY ONLY <1>1, <3>7, <4>1
      <4> QED BY <1>3, <3>5, <4>2, Zenon
    <3> QED BY <1>2, <1>3, <3>2, <3>3, <3>4, <3>5
  <2>3. Screen!Of(addr["draw"]) \cap Screen!Of(addr["clear"]) = {}
    BY <1>1, <1>2, <1>3 DEF Screen!Of
  <2> QED BY <2>1, <2>2, <2>3 DEF Screen!FrameNames
<1>8. \A f \in Screen!FrameNames \ FramesOf(n).restore :
        Screen!Of(addr[f]) \subseteq Screen!GameFrame \cup Screen!Unsaved(n)
  <2>1. Screen!Of(addr["disp"]) \subseteq Screen!GameFrame
    BY <1>1, <1>3 DEF Screen!Of
  <2>2. ASSUME "draw" \notin FramesOf(n).restore
        PROVE  Screen!Of(addr["draw"]) \subseteq Screen!GameFrame \cup Screen!Unsaved(n)
    <3>1. CASE addr["draw"] = Nowhere
      BY <3>1 DEF Screen!Of
    <3>2. CASE Screen!Wide /\ addr["draw"] = a + FramePages
      BY <1>1, <3>2 DEF Screen!Of
    <3>3. CASE Screen!Wide /\ addr["draw"] = 0 /\ a + shown.size = VramEnd
      <4>1. n < 2
        BY <1>4, <2>2, <3>3 DEF Screen!BackedUp, Screen!FrameNames
      <4> QED BY <3>3, <4>1 DEF Screen!Unsaved
    <3> QED BY <1>2, <1>3, <1>4, <2>2, <3>1, <3>2, <3>3
  <2>3. "clear" \notin FramesOf(n).restore => Screen!Of(addr["clear"]) = {}
    BY <1>3, <1>4 DEF Screen!Of
  <2> QED BY <2>1, <2>2, <2>3 DEF Screen!FrameNames
<1>9. Screen!Unsaved(n) \subseteq Nat
  BY <1>1 DEF Screen!Unsaved, Screen!Of
<1> QED BY <1>4, <1>5, <1>6, <1>7, <1>8, <1>9

\* Before the menu is opened nothing is drawn.
LEMMA ScreenInitInv == InVram /\ Screen!Init => ScreenInv
<1> SUFFICES ASSUME InVram, Screen!Init PROVE ScreenInv
  OBVIOUS
<1> QED BY DEF Screen!Init, ScreenInv, Screen!TypeOK, Screen!NoFrames, Screen!FrameNames, InVram

\* Opening, drawing and closing keep the invariant.
LEMMA ScreenStep ==
  ASSUME InVram, ScreenInv, [Screen!Next]_(Screen!vars)
  PROVE  ScreenInv'
<1> USE DEF ScreenInv
<1>0. /\ shown \in Shows /\ drawn \subseteq Nat /\ unsaved \subseteq Nat
      /\ menuShown \in BOOLEAN
  BY DEF Screen!TypeOK
<1>1. ASSUME NEW n \in 0 .. 3, Screen!Alloc(n) PROVE ScreenInv'
  <2>1. UNCHANGED shown /\ fb' = FramesOf(n) /\ menuShown' = TRUE
    BY <1>1 DEF Screen!Alloc, FramesOf
  <2>2. /\ drawn \subseteq Screen!GameFrame \cup unsaved
        /\ drawn' = drawn \cup Screen!Of(fb'.addr["clear"])
        /\ unsaved' = unsaved \cup Screen!Unsaved(n)
    BY <1>1 DEF Screen!Alloc
  <2>3. /\ FramesOf(n)' = FramesOf(n) /\ Screen!GameFrame' = Screen!GameFrame
        /\ Screen!Unsaved(n)' = Screen!Unsaved(n)
    BY <2>1 DEF FramesOf, Screen!Used, Screen!Wide, Screen!BackedUp, Screen!GameFrame,
                Screen!Unsaved
  <2>4. Screen!Of(fb'.addr["clear"]) \subseteq Screen!GameFrame' \cup Restored' \cup unsaved'
    <3>1. CASE "clear" \in fb'.restore
      BY <3>1 DEF Restored
    <3>2. CASE "clear" \notin fb'.restore
      BY <1>0, <2>1, <2>2, <2>3, <3>2, FramesPlaced DEF Screen!FrameNames
    <3> QED BY <3>1, <3>2
  <2>5. Screen!TypeOK'
    <3>1. drawn' \subseteq Nat /\ unsaved' \subseteq Nat
      <4>1. Screen!Of(FramesOf(n).addr["clear"]) \subseteq Nat
        BY <1>0, FramesPlaced DEF Screen!FrameNames, Screen!Memory
      <4>2. Screen!Unsaved(n) \subseteq Nat
        BY <1>0, FramesPlaced
      <4> QED BY <1>0, <2>1, <2>2, <4>1, <4>2
    <3> QED BY <1>0, <2>1, <3>1, FramesPlaced DEF Screen!TypeOK
  <2>6. drawn' \subseteq Screen!GameFrame' \cup Restored' \cup unsaved'
    BY <2>2, <2>3, <2>4
  <2> QED BY <2>1, <2>2, <2>3, <2>5, <2>6
<1>2. CASE Screen!Draw
  <2>1. UNCHANGED <<shown, fb, unsaved, menuShown>> /\ menuShown
        /\ drawn' = drawn \cup UNION {Screen!Of(fb.addr[f]) : f \in Screen!FrameNames}
    BY <1>2 DEF Screen!Draw
  <2>2. PICK n \in 0 .. 3 : fb = FramesOf(n) /\ Screen!Unsaved(n) \subseteq unsaved
    BY <2>1
  <2>3. \A f \in Screen!FrameNames :
          /\ Screen!Of(fb.addr[f]) \subseteq Screen!GameFrame \cup Restored \cup unsaved
          /\ Screen!Of(fb.addr[f]) \subseteq Nat
    <3>1. \A f \in Screen!FrameNames : Screen!Of(fb.addr[f]) \subseteq Nat
      BY <1>0, <2>2, FramesPlaced DEF Screen!Memory
    <3>2. \A f \in fb.restore : Screen!Of(fb.addr[f]) \subseteq Restored
      BY DEF Restored
    <3>3. \A f \in Screen!FrameNames \ fb.restore :
            Screen!Of(fb.addr[f]) \subseteq Screen!GameFrame \cup Screen!Unsaved(n)
      BY <1>0, <2>2, FramesPlaced
    <3> QED BY <2>2, <3>1, <3>2, <3>3
  <2>4. /\ FramesOf(n)' = FramesOf(n) /\ Screen!GameFrame' = Screen!GameFrame
        /\ Restored' = Restored /\ Screen!Unsaved(n)' = Screen!Unsaved(n)
    BY <2>1 DEF FramesOf, Screen!Used, Screen!Wide, Screen!BackedUp, Screen!GameFrame, Restored,
                Screen!Unsaved
  <2>5. drawn' \subseteq Screen!GameFrame \cup Restored \cup unsaved /\ drawn' \subseteq Nat
    BY <1>0, <2>1, <2>3
  <2> QED BY <2>1, <2>2, <2>4, <2>5 DEF Screen!TypeOK
<1>3. CASE Screen!Free
  <2>0. menuShown /\ ~menuShown' /\ menuShown' \in BOOLEAN
    BY <1>3, Zenon DEF Screen!Free
  <2>1. drawn' = drawn \ (Restored \ unsaved) /\ fb' = Screen!NoFrames
        /\ UNCHANGED <<shown, unsaved>>
    <3>1. drawn' = drawn \ (Restored \ unsaved)
      BY <1>3 DEF Screen!Free, Restored
    <3>2. fb' = Screen!NoFrames /\ UNCHANGED <<shown, unsaved>>
      BY <1>3, Zenon DEF Screen!Free
    <3> QED BY <3>1, <3>2, Zenon
  <2>3. drawn \subseteq Screen!GameFrame \cup Restored \cup unsaved
    BY <2>0
  <2>4. Screen!GameFrame' = Screen!GameFrame
    BY <2>1, Zenon DEF Screen!GameFrame
  <2>5. drawn' \subseteq Screen!GameFrame \cup unsaved
    BY ONLY <2>1, <2>3
  <2>2. drawn' \subseteq Screen!GameFrame' \cup unsaved' /\ drawn' \subseteq Nat
    BY <1>0, <2>1, <2>4, <2>5
  <2> QED BY <1>0, <2>0, <2>1, <2>2 DEF Screen!TypeOK, Screen!NoFrames, Screen!FrameNames
<1>4. CASE Screen!Game
  <2>1. /\ drawn' = drawn \ Screen!GameFrame /\ unsaved' = unsaved \ Screen!GameFrame
        /\ shown' \in Shows /\ UNCHANGED <<fb, menuShown>> /\ ~menuShown
    BY <1>4 DEF Screen!Game
  <2>2. drawn' \subseteq unsaved' /\ drawn' \subseteq Nat /\ unsaved' \subseteq Nat
    BY <1>0, <2>1
  <2> QED BY <1>0, <2>1, <2>2 DEF Screen!TypeOK
<1>5. CASE UNCHANGED Screen!vars
  <2>1. UNCHANGED <<shown, fb, drawn, unsaved, menuShown>>
    BY <1>5 DEF Screen!vars
  <2>2. \A n \in 0 .. 3 : FramesOf(n)' = FramesOf(n) /\ Screen!Unsaved(n)' = Screen!Unsaved(n)
    BY <2>1 DEF FramesOf, Screen!Used, Screen!Wide, Screen!BackedUp, Screen!Unsaved
  <2> QED BY <2>1, <2>2 DEF Screen!TypeOK, Screen!GameFrame, Restored
<1> QED BY <1>1, <1>2, <1>3, <1>4, <1>5 DEF Screen!Next

\* The invariant, for any frames of the screen memory that a game shows and memory for any
\* number of the menu's.
THEOREM ScreenInvariant == ASSUME InVram PROVE Screen!Spec => []ScreenInv
<1> QED BY ScreenInitInv, ScreenStep, PTL DEF Screen!Spec

\* What mfmenu_alloc_buffers takes of the screen memory is the game's again when the menu is gone,
\* wherever in it the game's frame is: the menu's frames lie in the memory and apart, and what the
\* menu drew on outside of the game's frame has a backup that is drawn back, but for the start of
\* the memory in the one case that unsaved tells of (mfMenuMain.c:569).
THEOREM ScreenBackCorrect == ASSUME InVram PROVE Screen!Spec => []Screen!ScreenBack
<1>1. ScreenInv => Screen!ScreenBack
  <2> SUFFICES ASSUME ScreenInv PROVE Screen!ScreenBack
    OBVIOUS
  <2>1. CASE menuShown
    <3>1. PICK n \in 0 .. 3 : fb = FramesOf(n)
      BY <2>1 DEF ScreenInv
    <3>2. shown \in Shows
      BY DEF ScreenInv, Screen!TypeOK
    <3> QED BY <2>1, <3>1, <3>2, FramesPlaced DEF Screen!ScreenBack
  <2>2. CASE ~menuShown
    <3>1. \A f \in Screen!FrameNames : Screen!Of(fb.addr[f]) = {}
      BY <2>2 DEF ScreenInv, Screen!NoFrames, Screen!Of
    <3> QED BY <2>2, <3>1 DEF ScreenInv, Screen!ScreenBack
  <2> QED BY <2>1, <2>2
<1> QED BY <1>1, ScreenInvariant, PTL

-----------------------------------------------------------------------------
(* Rapidfire: packets, calls of the game and the menu in any order, for any buttons and delays. *)

\* The delays are numbers up to the bound on the time since the last change.
Timed ==
  /\ MaxSince \in Nat /\ Gaps \subseteq Nat
  /\ Delays \subseteq (0 .. MaxSince) \X (0 .. MaxSince)

Prefs == [mode : Rapidfire!Modes, press : 0 .. MaxSince, release : 0 .. MaxSince,
          next : 0 .. MaxSince,
          pressed : BOOLEAN, hold : BOOLEAN, real : BOOLEAN]

RapidTyped ==
  /\ pref \in [RapidButtons -> Prefs] /\ since \in 0 .. MaxSince
  /\ raw \subseteq RapidButtons /\ game.pad \subseteq RapidButtons /\ odd \subseteq RapidButtons

\* A button that is to hold, and was not down when it was set, is known as the last packet had
\* it, the game's thread took it like that, and it is held after an odd number of presses.
HoldInv ==
  \A b \in RapidButtons \ unsure :
    pref[b].mode = "hold" =>
      /\ pref[b].real <=> b \in raw
      /\ pref[b].hold <=> b \in odd
      /\ game.taken => (b \in game.pad <=> b \in raw)

\* Rapid buttons that were set with the same time left to wait go on alike, on schedule.
StepInv ==
  inStep =>
    /\ \A b, c \in Rapidfire!Rapid :
         /\ pref[b].next = pref[c].next /\ pref[b].press = pref[c].press
         /\ pref[b].release = pref[c].release /\ pref[b].pressed = pref[c].pressed
    /\ \A b \in Rapidfire!Rapid : due[b] = pref[b].next - since

RapidInv == RapidTyped /\ HoldInv /\ StepInv
-----------------------------------------------------------------------------
\* At first no button has a preference, and nothing was sent.
LEMMA RapidInitInv == ASSUME Timed, Rapidfire!Init PROVE RapidInv
<1>1. Rapidfire!Unset \in Prefs
  BY DEF Timed, Rapidfire!Unset, Prefs, Rapidfire!Modes
<1>2. RapidTyped
  BY <1>1 DEF Rapidfire!Init, RapidTyped, Timed, Rapidfire!Idle
<1>3. \A b \in RapidButtons : pref[b].mode = "normal"
  BY DEF Rapidfire!Init, Rapidfire!Unset
<1>4. HoldInv /\ StepInv
  BY <1>3 DEF HoldInv, StepInv, Rapidfire!Rapid
<1> QED BY <1>2, <1>4 DEF RapidInv

\* One button: its mode and delays stay.
LEMMA RapidExecution ==
  ASSUME Timed, NEW p \in Prefs, NEW renew \in BOOLEAN, NEW delay \in 0 .. MaxSince,
         NEW down \in BOOLEAN
  PROVE  /\ Rapidfire!Executed(p, renew, delay, down) \in Prefs
         /\ Rapidfire!Executed(p, renew, delay, down).mode = p.mode
         /\ Rapidfire!Executed(p, renew, delay, down).press = p.press
         /\ Rapidfire!Executed(p, renew, delay, down).release = p.release
<1>1. CASE p.mode = "hold"
  <2>1. Rapidfire!Executed(p, renew, delay, down) = Rapidfire!Held(p, down)
    BY <1>1 DEF Rapidfire!Executed
  <2>2. (IF down /\ ~p.real THEN ~p.hold ELSE p.hold) \in BOOLEAN
    BY Zenon DEF Prefs
  <2> QED BY <2>1, <2>2 DEF Rapidfire!Held, Prefs
<1>2. CASE p.mode \in {"rapid", "autorapid"} /\ renew /\ delay > p.next
  <2>1. Rapidfire!Executed(p, renew, delay, down) = Rapidfire!Turned(p, delay)
    BY <1>2 DEF Rapidfire!Executed
  <2>2. Rapidfire!Turned(p, delay).next \in 0 .. MaxSince
    BY <1>2 DEF Rapidfire!Turned, Prefs, Timed
  <2>3. (~p.pressed) \in BOOLEAN
    OBVIOUS
  <2> QED BY <2>1, <2>2, <2>3 DEF Rapidfire!Turned, Prefs
<1>3. CASE p.mode # "hold" /\ ~(p.mode \in {"rapid", "autorapid"} /\ renew /\ delay > p.next)
  BY <1>3 DEF Rapidfire!Executed
<1> QED BY <1>1, <1>2, <1>3

\* A button that is to hold changes when it is newly pressed.
LEMMA RapidHolding ==
  ASSUME Timed, NEW p \in Prefs, NEW renew \in BOOLEAN, NEW delay \in 0 .. MaxSince,
         NEW down \in BOOLEAN,
         p.mode = "hold"
  PROVE  /\ Rapidfire!Executed(p, renew, delay, down).real = down
         /\ Rapidfire!Executed(p, renew, delay, down).hold <=>
              IF down /\ ~p.real THEN ~p.hold ELSE p.hold
<1>1. Rapidfire!Executed(p, renew, delay, down) = Rapidfire!Held(p, down)
  BY DEF Rapidfire!Executed
<1>2. Rapidfire!Held(p, down).real = down
  BY DEF Rapidfire!Held, Prefs
<1>3. Rapidfire!Held(p, down).hold = IF down /\ ~p.real THEN ~p.hold ELSE p.hold
  BY DEF Rapidfire!Held, Prefs
<1>4. p.hold \in BOOLEAN /\ p.real \in BOOLEAN
  BY DEF Prefs
<1> QED BY <1>1, <1>2, <1>3, <1>4, Zenon

\* A turn: the next phase is as much shorter as this one was too long.
PhaseOf(p) == IF p.pressed THEN p.release ELSE p.press

\* A button that turns waits its delay, less what the last wait ran over.
LEMMA RapidTurning ==
  ASSUME Timed, NEW p \in Prefs, NEW delay \in Nat
  PROVE  /\ PhaseOf(p) \in Nat
         /\ Rapidfire!Turned(p, delay).next =
              IF PhaseOf(p) > delay - p.next THEN PhaseOf(p) - (delay - p.next) ELSE 0
         /\ Rapidfire!Turned(p, delay).pressed = ~p.pressed
<1>1. PhaseOf(p) \in Nat
  BY DEF PhaseOf, Prefs, Timed
<1>2. Rapidfire!Turned(p, delay).next =
        IF PhaseOf(p) > delay - p.next THEN PhaseOf(p) - (delay - p.next) ELSE 0
  BY DEF Rapidfire!Turned, Prefs, PhaseOf
<1>3. Rapidfire!Turned(p, delay).pressed = ~p.pressed
  BY DEF Rapidfire!Turned, Prefs
<1> QED BY <1>1, <1>2, <1>3

\* All buttons.
LEMMA RapidExecuting ==
  ASSUME Timed, RapidTyped, NEW renew \in BOOLEAN, NEW delay \in 0 .. MaxSince,
         NEW down \in SUBSET RapidButtons,
         Rapidfire!Exec(renew, delay, down)
  PROVE  /\ pref' \in [RapidButtons -> Prefs] /\ since' \in 0 .. MaxSince
         /\ Rapidfire!Rapid' = Rapidfire!Rapid
         /\ \A b \in RapidButtons :
              /\ pref'[b] = Rapidfire!Executed(pref[b], renew, delay, b \in down)
              /\ pref'[b].mode = pref[b].mode /\ pref'[b].press = pref[b].press
              /\ pref'[b].release = pref[b].release
<1>1. \A b \in RapidButtons : pref[b] \in Prefs
  BY DEF RapidTyped
<1>2. \A b \in RapidButtons : pref'[b] = Rapidfire!Executed(pref[b], renew, delay, b \in down)
  BY DEF Rapidfire!Exec
<1>3. \A b \in RapidButtons :
        /\ pref'[b] \in Prefs /\ pref'[b].mode = pref[b].mode
        /\ pref'[b].press = pref[b].press /\ pref'[b].release = pref[b].release
  <2> SUFFICES ASSUME NEW b \in RapidButtons
               PROVE  /\ pref'[b] \in Prefs /\ pref'[b].mode = pref[b].mode
                      /\ pref'[b].press = pref[b].press /\ pref'[b].release = pref[b].release
    OBVIOUS
  <2> DEFINE d == b \in down
  <2>1. d \in BOOLEAN /\ pref[b] \in Prefs
          /\ pref'[b] = Rapidfire!Executed(pref[b], renew, delay, d)
    BY <1>1, <1>2
  <2> HIDE DEF d
  <2> QED BY <2>1, RapidExecution
<1>4. pref' = [b \in RapidButtons |-> pref'[b]]
  BY DEF Rapidfire!Exec
<1>5. since' \in 0 .. MaxSince
  BY DEF Rapidfire!Exec, Timed
<1>6. Rapidfire!Rapid' = Rapidfire!Rapid
  BY <1>3 DEF Rapidfire!Rapid
<1> QED BY <1>2, <1>3, <1>4, <1>5, <1>6

\* A step of the engine keeps the schedule: all rapid buttons turn, or none does.
LEMMA RapidStepKept ==
  ASSUME Timed, RapidTyped, StepInv, NEW renew \in BOOLEAN, NEW delay \in 0 .. MaxSince,
         NEW down \in SUBSET RapidButtons, Rapidfire!Exec(renew, delay, down), UNCHANGED inStep,
         ~renew => delay = since /\ due' = due,
         renew => due' = [b \in RapidButtons |-> Rapidfire!Later(b, delay)]
  PROVE  StepInv'
<1> SUFFICES ASSUME inStep PROVE StepInv'
  BY DEF StepInv
<1>1. /\ pref' \in [RapidButtons -> Prefs] /\ since' \in 0 .. MaxSince
      /\ Rapidfire!Rapid' = Rapidfire!Rapid
      /\ \A b \in RapidButtons :
           /\ pref'[b] = Rapidfire!Executed(pref[b], renew, delay, b \in down)
           /\ pref'[b].press = pref[b].press /\ pref'[b].release = pref[b].release
  BY RapidExecuting
<1>2. /\ \A b, c \in Rapidfire!Rapid :
           /\ pref[b].next = pref[c].next /\ pref[b].press = pref[c].press
           /\ pref[b].release = pref[c].release /\ pref[b].pressed = pref[c].pressed
      /\ \A b \in Rapidfire!Rapid : due[b] = pref[b].next - since
  BY DEF StepInv
<1>3. /\ since \in Nat
      /\ \A b \in Rapidfire!Rapid : /\ b \in RapidButtons /\ pref[b] \in Prefs
                                    /\ pref[b].mode \in {"rapid", "autorapid"}
                                    /\ pref[b].next \in Nat /\ pref[b].press \in Nat
                                    /\ pref[b].release \in Nat
  BY DEF Rapidfire!Rapid, RapidTyped, Prefs, Timed
<1>4. delay \in Nat
  BY DEF Timed
<1>5. CASE renew /\ \E b \in Rapidfire!Rapid : delay > pref[b].next
  <2>1. \A b \in Rapidfire!Rapid : delay > pref[b].next
    BY <1>2, <1>5
  <2>2. \A b \in Rapidfire!Rapid : pref'[b] = Rapidfire!Turned(pref[b], delay)
    BY <1>1, <1>3, <1>5, <2>1 DEF Rapidfire!Executed
  <2>3. since' = 0
    BY <1>5 DEF Rapidfire!Exec
  <2>4. \A b \in Rapidfire!Rapid :
          /\ PhaseOf(pref[b]) \in Nat /\ pref'[b].pressed = ~pref[b].pressed
          /\ pref'[b].next = IF PhaseOf(pref[b]) > delay - pref[b].next
                             THEN PhaseOf(pref[b]) - (delay - pref[b].next) ELSE 0
    BY <1>3, <1>4, <2>2, RapidTurning
  <2>5. \A b, c \in Rapidfire!Rapid : pref'[b].next = pref'[c].next
          /\ pref'[b].pressed = pref'[c].pressed
    <3>1. \A b, c \in Rapidfire!Rapid : PhaseOf(pref[b]) = PhaseOf(pref[c])
      BY <1>2 DEF PhaseOf
    <3> QED BY <1>2, <2>4, <3>1
  <2>6. ASSUME NEW b \in Rapidfire!Rapid PROVE due'[b] = pref'[b].next - since'
    <3>1. due'[b] = Rapidfire!Later(b, delay)
      BY <1>3, <1>5
    <3>2. due[b] - (delay - since) = pref[b].next - delay
      BY <1>2, <1>3, <1>4
    <3>3. pref[b].next - delay < 0
      BY <1>3, <1>4, <2>1
    <3>4. Rapidfire!Later(b, delay) =
            LET whole == (due[b] - (delay - since)) + PhaseOf(pref[b])
            IN  IF b \notin Rapidfire!Rapid THEN 0
                ELSE IF due[b] - (delay - since) >= 0 THEN due[b] - (delay - since)
                ELSE IF whole > 0 THEN whole ELSE 0
      BY Zenon DEF Rapidfire!Later, PhaseOf
    <3>5. Rapidfire!Later(b, delay) = IF (pref[b].next - delay) + PhaseOf(pref[b]) > 0
                            THEN (pref[b].next - delay) + PhaseOf(pref[b]) ELSE 0
      BY <1>3, <1>4, <2>4, <3>2, <3>3, <3>4
    <3> QED BY <1>3, <1>4, <2>3, <2>4, <3>1, <3>5
  <2> QED BY <1>1, <1>2, <1>3, <2>5, <2>6 DEF StepInv
<1>6. CASE ~(renew /\ \E b \in Rapidfire!Rapid : delay > pref[b].next)
  <2>1. \A b \in Rapidfire!Rapid : pref'[b] = pref[b]
    BY <1>1, <1>3, <1>6 DEF Rapidfire!Executed
  <2>2. since' = delay
    BY <1>6 DEF Rapidfire!Exec
  <2>3. ASSUME NEW b \in Rapidfire!Rapid PROVE due'[b] = pref[b].next - delay
    <3>1. CASE ~renew
      BY <1>2, <3>1
    <3>2. CASE renew
      <4>1. due'[b] = Rapidfire!Later(b, delay)
        BY <1>3, <3>2
      <4>2. due[b] - (delay - since) = pref[b].next - delay
        BY <1>2, <1>3, <1>4
      <4>3. pref[b].next - delay >= 0
        BY <1>3, <1>4, <1>6, <3>2
      <4> QED BY <4>1, <4>2, <4>3 DEF Rapidfire!Later
    <3> QED BY <3>1, <3>2
  <2> QED BY <1>1, <1>2, <2>1, <2>2, <2>3 DEF StepInv
<1> QED BY <1>5, <1>6
\* The time since the last tick, which Packet caps, is in its range.
LEMMA RapidDelay ==
  ASSUME Timed, NEW t \in 0 .. MaxSince, NEW ms \in Gaps
  PROVE  (IF t + ms < MaxSince THEN t + ms ELSE MaxSince) \in 0 .. MaxSince
<1>1. t \in Nat /\ ms \in Nat /\ MaxSince \in Nat
  <2>1. MaxSince \in Nat /\ Gaps \subseteq Nat
    BY DEF Timed
  <2> QED BY <2>1
<1> QED BY <1>1

\* A packet.
LEMMA RapidPacketStep == ASSUME Timed, RapidInv, Rapidfire!Packet PROVE RapidInv'
<1>1. PICK ms \in Gaps, down \in SUBSET RapidButtons :
        LET delay == IF since + ms < MaxSince THEN since + ms ELSE MaxSince IN
        /\ Rapidfire!Exec(TRUE, delay, down)
        /\ due' = [b \in RapidButtons |-> Rapidfire!Later(b, delay)]
        /\ odd' = {b \in RapidButtons : (b \in odd) # (pref[b].mode = "hold" /\ b \in down \ raw)}
        /\ raw' = down
  BY DEF Rapidfire!Packet
<1> DEFINE delay == IF since + ms < MaxSince THEN since + ms ELSE MaxSince
<1>2. delay \in 0 .. MaxSince
  <2>1. since \in 0 .. MaxSince
    BY DEF RapidInv, RapidTyped
  <2> QED BY <2>1, RapidDelay
<1>3. /\ Rapidfire!Exec(TRUE, delay, down)
      /\ due' = [b \in RapidButtons |-> Rapidfire!Later(b, delay)]
      /\ odd' = {b \in RapidButtons : (b \in odd) # (pref[b].mode = "hold" /\ b \in down \ raw)}
      /\ raw' = down /\ game' = game /\ inStep' = inStep
      /\ unsure' = unsure \cup
           (IF game.taken THEN Rapidfire!Hold \cap ((raw' \ game.pad) \cup (game.pad \ raw'))
             ELSE {})
  BY <1>1 DEF Rapidfire!Packet
<1> DEFINE renew == TRUE
<1>n. renew \in BOOLEAN
  OBVIOUS
<1>0. renew \in BOOLEAN /\ renew /\ Rapidfire!Exec(renew, delay, down)
  BY <1>3
<1> HIDE DEF delay, renew
<1>4. /\ pref' \in [RapidButtons -> Prefs] /\ since' \in 0 .. MaxSince
      /\ \A b \in RapidButtons : /\ pref'[b] = Rapidfire!Executed(pref[b], renew, delay, b \in down)
                                 /\ pref'[b].mode = pref[b].mode
  BY <1>0, <1>2, RapidExecuting DEF RapidInv
<1>5. RapidTyped'
  BY <1>3, <1>4 DEF RapidInv, RapidTyped
<1>6. StepInv'
  BY <1>0, <1>2, <1>3, RapidStepKept DEF RapidInv
<1>7. HoldInv'
  <2> SUFFICES ASSUME NEW b \in RapidButtons, b \notin unsure', pref'[b].mode = "hold"
               PROVE  /\ pref'[b].real <=> b \in raw'
                      /\ pref'[b].hold <=> b \in odd'
                      /\ game'.taken => (b \in game'.pad <=> b \in raw')
    BY DEF HoldInv
  <2>1. b \notin unsure /\ pref[b].mode = "hold" /\ pref[b] \in Prefs
    BY <1>3, <1>4 DEF RapidInv, RapidTyped
  <2>2. (pref[b].real <=> b \in raw) /\ (pref[b].hold <=> b \in odd)
    BY <2>1 DEF RapidInv, HoldInv
  <2> DEFINE d == b \in down
  <2>3. d \in BOOLEAN /\ pref'[b] = Rapidfire!Executed(pref[b], renew, delay, d)
    BY <1>4
  <2> HIDE DEF d
  <2>4. /\ pref'[b].real = d
        /\ pref'[b].hold <=> IF d /\ ~pref[b].real THEN ~pref[b].hold ELSE pref[b].hold
    BY <1>n, <1>2, <2>1, <2>3, RapidHolding
  <2>5. /\ d <=> b \in raw'
        /\ b \in odd' <=> IF d /\ b \notin raw THEN b \notin odd ELSE b \in odd
    BY <1>3, <2>1 DEF d
  <2>6. game'.taken => (b \in game'.pad <=> b \in raw')
    BY <1>3, <2>1 DEF Rapidfire!Hold
  <2>7. pref[b].hold \in BOOLEAN /\ pref[b].real \in BOOLEAN
    BY <2>1 DEF Prefs
  <2> QED BY <2>2, <2>3, <2>4, <2>5, <2>6, <2>7, Zenon
<1> QED BY <1>5, <1>6, <1>7 DEF RapidInv

\* The two halves of a call of the game.
LEMMA RapidCallStep ==
  ASSUME Timed, RapidInv, NEW renew \in BOOLEAN, Rapidfire!PeekKey(renew)
  PROVE  RapidInv'
<1>1. /\ game.taken /\ Rapidfire!Exec(renew, since, game.pad) /\ game' = Rapidfire!Idle
      /\ UNCHANGED <<raw, odd, unsure, inStep>>
      /\ renew => due' = [b \in RapidButtons |-> Rapidfire!Later(b, since)]
      /\ ~renew => due' = due
  BY DEF Rapidfire!PeekKey
<1>2. game.pad \in SUBSET RapidButtons /\ since \in 0 .. MaxSince
  BY DEF RapidInv, RapidTyped
<1>4. /\ pref' \in [RapidButtons -> Prefs] /\ since' \in 0 .. MaxSince
      /\ \A b \in RapidButtons :
           /\ pref'[b] = Rapidfire!Executed(pref[b], renew, since, b \in game.pad)
           /\ pref'[b].mode = pref[b].mode
  BY <1>1, <1>2, RapidExecuting DEF RapidInv
<1>5. RapidTyped'
  BY <1>1, <1>4 DEF RapidInv, RapidTyped, Rapidfire!Idle
<1>6. StepInv'
  BY <1>1, <1>2, RapidStepKept DEF RapidInv
<1>7. HoldInv'
  <2> SUFFICES ASSUME NEW b \in RapidButtons, b \notin unsure', pref'[b].mode = "hold"
               PROVE  /\ pref'[b].real <=> b \in raw'
                      /\ pref'[b].hold <=> b \in odd'
                      /\ game'.taken => (b \in game'.pad <=> b \in raw')
    BY DEF HoldInv
  <2>1. b \notin unsure /\ pref[b].mode = "hold" /\ pref[b] \in Prefs
    BY <1>1, <1>4 DEF RapidInv, RapidTyped
  <2>2. (pref[b].real <=> b \in raw) /\ (pref[b].hold <=> b \in odd)
    BY <2>1 DEF RapidInv, HoldInv
  <2> DEFINE d == b \in game.pad
  <2>3. d \in BOOLEAN /\ pref'[b] = Rapidfire!Executed(pref[b], renew, since, d)
    BY <1>4
  <2>5. d <=> b \in raw
    BY <1>1, <2>1 DEF RapidInv, HoldInv
  <2> HIDE DEF d
  <2>4. /\ pref'[b].real = d
        /\ pref'[b].hold <=> IF d /\ ~pref[b].real THEN ~pref[b].hold ELSE pref[b].hold
    BY <1>2, <2>1, <2>3, RapidHolding
  <2>6. ~game'.taken /\ raw' = raw /\ odd' = odd
    BY <1>1 DEF Rapidfire!Idle
  <2>7. pref[b].hold \in BOOLEAN /\ pref[b].real \in BOOLEAN
    BY <2>1 DEF Prefs
  <2> QED BY <2>2, <2>3, <2>4, <2>5, <2>6, <2>7, Zenon
<1> QED BY <1>5, <1>6, <1>7 DEF RapidInv

\* The second half of a call of the game: the buttons that it took are those of the last packet.
LEMMA RapidTakeStep == ASSUME Timed, RapidInv, Rapidfire!TakeButtons PROVE RapidInv'
<1>1. /\ game' = [taken |-> TRUE, pad |-> raw]
      /\ UNCHANGED <<pref, since, raw, odd, unsure, due, inStep>>
  BY DEF Rapidfire!TakeButtons
<1>2. RapidTyped'
  BY <1>1 DEF RapidInv, RapidTyped
<1>3. StepInv'
  BY <1>1 DEF RapidInv, StepInv, Rapidfire!Rapid
<1>4. HoldInv'
  BY <1>1 DEF RapidInv, HoldInv
<1> QED BY <1>2, <1>3, <1>4 DEF RapidInv

\* The menu sets the modes.
LEMMA RapidApplyStep == ASSUME Timed, RapidInv, Rapidfire!Apply PROVE RapidInv'
<1>1. PICK modes \in [RapidButtons -> Rapidfire!Modes], d \in Delays :
       pref' = [b \in RapidButtons |->
         LET timed == modes[b] \in {"rapid", "autorapid"} IN
         [Rapidfire!Unset EXCEPT !.mode = modes[b], !.next = pref[b].next,
            !.press = IF timed THEN d[1] ELSE 0, !.release = IF timed THEN d[2] ELSE 0]]
  BY DEF Rapidfire!Apply
<1>2. /\ odd' = {} /\ unsure' = Rapidfire!Hold' \cap (raw \cup game.pad)
      /\ due' = [b \in RapidButtons |-> IF b \in Rapidfire!Rapid' THEN pref'[b].next - since ELSE 0]
      /\ inStep' = \A b, c \in Rapidfire!Rapid' : pref'[b].next = pref'[c].next
      /\ UNCHANGED <<since, raw, game>>
  BY DEF Rapidfire!Apply
<1>3. d[1] \in 0 .. MaxSince /\ d[2] \in 0 .. MaxSince
  BY DEF Timed
<1>4. \A b \in RapidButtons :
        /\ pref'[b] \in Prefs /\ pref'[b].hold = FALSE /\ pref'[b].real = FALSE
        /\ pref'[b].pressed = FALSE /\ pref'[b].mode = modes[b]
        /\ modes[b] \in {"rapid", "autorapid"} => pref'[b].press = d[1] /\ pref'[b].release = d[2]
  <2> SUFFICES ASSUME NEW b \in RapidButtons
               PROVE  /\ pref'[b] \in Prefs /\ pref'[b].hold = FALSE /\ pref'[b].real = FALSE
                      /\ pref'[b].pressed = FALSE /\ pref'[b].mode = modes[b]
                      /\ modes[b] \in {"rapid", "autorapid"} =>
                           pref'[b].press = d[1] /\ pref'[b].release = d[2]
    OBVIOUS
  <2>1. pref[b].next \in 0 .. MaxSince /\ modes[b] \in Rapidfire!Modes /\ 0 \in 0 .. MaxSince
    BY DEF RapidInv, RapidTyped, Prefs, Timed
  <2> QED BY <1>1, <1>3, <2>1 DEF Rapidfire!Unset, Prefs
<1>5. pref' \in [RapidButtons -> Prefs]
  BY <1>1, <1>4
<1>6. RapidTyped'
  BY <1>2, <1>5 DEF RapidInv, RapidTyped
<1>7. \A b \in Rapidfire!Rapid' : b \in RapidButtons /\ modes[b] \in {"rapid", "autorapid"}
  BY <1>4 DEF Rapidfire!Rapid
<1>8. StepInv'
  BY <1>2, <1>4, <1>7 DEF StepInv
<1>9. HoldInv'
  BY <1>2, <1>4 DEF HoldInv, Rapidfire!Hold
<1> QED BY <1>6, <1>8, <1>9 DEF RapidInv

\* Packets, calls and settings keep the invariant.
LEMMA RapidNextInv == ASSUME Timed, RapidInv, [Rapidfire!Next]_(Rapidfire!vars) PROVE RapidInv'
<1>1. CASE UNCHANGED Rapidfire!vars
  <2>1. UNCHANGED <<pref, since, raw, game, odd, unsure, due, inStep>>
    BY <1>1 DEF Rapidfire!vars
  <2> QED BY <2>1 DEF RapidInv, RapidTyped, HoldInv, StepInv, Rapidfire!Rapid
<1> QED BY <1>1, RapidPacketStep, RapidCallStep, RapidTakeStep, RapidApplyStep DEF Rapidfire!Next

\* The invariant, for any buttons and delays.
THEOREM RapidInvariant == ASSUME Timed PROVE Rapidfire!Spec => []RapidInv
<1> QED BY RapidInitInv, RapidNextInv, PTL DEF Rapidfire!Spec

\* Preferences, times and buttons have their types: no wait gets longer than the delays.
THEOREM RapidTypeCorrect == ASSUME Timed PROVE Rapidfire!Spec => []Rapidfire!TypeOK
<1>1. RapidInv => Rapidfire!TypeOK
  BY DEF RapidInv, RapidTyped, Rapidfire!TypeOK, Prefs
<1> QED BY <1>1, RapidInvariant, PTL

\* Time that a frame is too long is not lost: rapid buttons that were set with the same time left
\* to wait turn when the ideal schedule has it, for any delays and any frames.
THEOREM RapidKeepsTimeCorrect == ASSUME Timed PROVE Rapidfire!Spec => []Rapidfire!KeepsTime
<1>1. RapidInv => Rapidfire!KeepsTime
  BY DEF RapidInv, StepInv, Rapidfire!KeepsTime
<1> QED BY <1>1, RapidInvariant, PTL

\* A button that is to hold is shown as pressed after every odd press of it, whatever calls of the
\* game come between packets, for any number of buttons.
THEOREM RapidHoldFollows == ASSUME Timed PROVE Rapidfire!Spec => Rapidfire!HoldFollowsPresses
<1>1. RapidInv /\ RapidInv' /\ [Rapidfire!Next]_(Rapidfire!vars)
        => [Rapidfire!HoldFollowed]_(Rapidfire!vars)
  <2> SUFFICES ASSUME RapidInv, RapidInv', Rapidfire!Packet,
                      NEW b \in RapidButtons \ unsure', pref[b].mode = "hold"
               PROVE  Rapidfire!PressedBy(pref[b], b \in raw)' <=> b \in odd'
    BY DEF Rapidfire!HoldFollowed
  <2>1. pref'[b].mode = "hold"
    <3>1. PICK ms \in Gaps, pad \in SUBSET RapidButtons :
            Rapidfire!Exec(TRUE, IF since + ms < MaxSince THEN since + ms ELSE MaxSince, pad)
      BY DEF Rapidfire!Packet
    <3>2. (IF since + ms < MaxSince THEN since + ms ELSE MaxSince) \in 0 .. MaxSince
      <4>1. since \in 0 .. MaxSince
        BY DEF RapidInv, RapidTyped
      <4> QED BY <4>1, RapidDelay
    <3> QED BY <3>1, <3>2, RapidExecuting DEF RapidInv
  <2>2. pref'[b].hold <=> b \in odd'
    BY <2>1 DEF RapidInv, HoldInv
  <2> QED BY <2>1, <2>2 DEF Rapidfire!PressedBy
<1> QED BY <1>1, RapidInvariant, PTL DEF Rapidfire!Spec, Rapidfire!HoldFollowsPresses

-----------------------------------------------------------------------------
(* Hooks: whatever the order in which MacroFire looks, hooks and unhooks   *)
(* and another plugin hooks, for any modules, any table of system calls    *)
(* and any table of hooks.  Each of the two keeps what a word held when it *)
(* looked: the function itself or a hook of the other that goes to the     *)
(* function, and never one that comes back.                                *)

\* Every module exports a library: hookFindExportAddr follows the last one without a look.
Exporting ==
  /\ \A m \in Hooks!Modules : Len(GameModules[m]) \in Nat \ {0}
  /\ \A m \in Hooks!Modules :
       \A l \in 1 .. Len(GameModules[m]) : Len(GameModules[m][l].functions) \in Nat
  /\ Len(Calls) \in Nat

SystemOf(w) == <<"system", Hooks!Original(w)>>
Mine(w)   == {e \in DOMAIN HookTable : restore[e].addr = w}
Theirs(w) == {h \in other : h.addr = w}

\* A word is a function of words to what they hold, and hooked by the other plugin once.
Shape ==
  /\ word = [w \in Hooks!Words |-> word[w]]
  /\ \A h \in other : h.addr \in Hooks!Words
  /\ \A g, h \in other : g.addr = h.addr => g = h

\* What the other plugin has kept of w, and what MacroFire has kept of it.
TheyKept(w) ==
  \A h \in Theirs(w) :
    h.api = SystemOf(w) \/ \E e \in Mine(w) : h.api = Hooks!Hook(e) /\ restore[e].api = SystemOf(w)
MineKept(w) ==
  \A e \in Mine(w) :
    \/ restore[e].api = SystemOf(w)
    \/ restore[e].api = Hooks!Others(w) /\ \E h \in Theirs(w) : h.api = SystemOf(w)

\* What w holds.
HoldsOne(w) ==
  \/ word[w] = SystemOf(w)
  \/ \E e \in Mine(w) : word[w] = Hooks!Hook(e)
  \/ word[w] = Hooks!Others(w) /\ Theirs(w) # {}

\* All of it, as long as the other plugin was not the second to hook.
Below(w) == IF Theirs(w) = {} THEN SystemOf(w) ELSE Hooks!Others(w)
Unmixed(w) ==
  Mine(w) = {} \/ ~mixed =>
    /\ \A h \in Theirs(w) : h.api = SystemOf(w)
    /\ \A e \in Mine(w) : restore[e].api = Below(w)
    /\ IF Mine(w) # {} /\ patched THEN \E e \in Mine(w) : word[w] = Hooks!Hook(e)
       ELSE word[w] = Below(w)

HooksInv ==
  /\ Shape /\ mixed \in BOOLEAN /\ patched \in BOOLEAN
  /\ \A w \in Hooks!Words : TheyKept(w) /\ MineKept(w) /\ HoldsOne(w) /\ Unmixed(w)

-----------------------------------------------------------------------------
\* At first every word holds its function.
LEMMA HooksInitInv ==
  ASSUME Nowhere \notin Hooks!Words, Hooks!Init
  PROVE  HooksInv
<1>1. \A w \in Hooks!Words : Mine(w) = {} /\ Theirs(w) = {} /\ word[w] = SystemOf(w)
  BY DEF Hooks!Init, Mine, Theirs, SystemOf
<1>2. Shape /\ mixed \in BOOLEAN /\ patched \in BOOLEAN
  BY DEF Hooks!Init, Shape
<1> QED BY <1>1, <1>2 DEF HooksInv, TheyKept, MineKept, HoldsOne, Unmixed, Below

\* Before MacroFire has looked nothing is its own, and what it then keeps is what is there.
LEMMA HooksFindStep ==
  ASSUME Nowhere \notin Hooks!Words, HooksInv, Hooks!Find
  PROVE  HooksInv'
<1>1. \A w \in Hooks!Words : Mine(w) = {}
  BY DEF Hooks!Find, Hooks!Looked, Mine
<1>2. UNCHANGED <<word, patched, other, mixed>> /\ ~patched
  BY DEF Hooks!Find
<1>3. Shape' /\ mixed' \in BOOLEAN /\ patched' \in BOOLEAN
  BY <1>2 DEF HooksInv, Shape
<1>4. ASSUME NEW w \in Hooks!Words PROVE TheyKept(w)' /\ MineKept(w)' /\ HoldsOne(w)' /\ Unmixed(w)'
  <2>1. \A h \in Theirs(w) : h.api = SystemOf(w)
    BY <1>1 DEF HooksInv, Unmixed
  <2>2. word[w] = Below(w)
    BY <1>1 DEF HooksInv, Unmixed
  <2>3. Theirs(w)' = Theirs(w) /\ Below(w)' = Below(w) /\ word'[w] = Below(w)
    BY <1>2, <2>2 DEF Theirs, Below, SystemOf, Hooks!Others
  <2>4. \A e \in Mine(w)' : restore'[e].api = Below(w)
    <3> SUFFICES ASSUME NEW e \in DOMAIN HookTable, restore'[e].addr = w
                 PROVE  restore'[e].api = Below(w)
      BY DEF Mine
    <3> DEFINE export == Hooks!FindExportAddr(HookTable[e].module, HookTable[e].library,
          HookTable[e].function)
               call   == Hooks!FindSyscallAddr(export)
               addr   == IF call = Nowhere THEN export ELSE call
    <3>1. restore'[e] = [addr |-> addr, api |-> IF addr = Nowhere THEN Nowhere ELSE word[addr]]
      BY DEF Hooks!Find
    <3> HIDE DEF addr
    <3>2. addr = w /\ addr # Nowhere
      BY <3>1
    <3> QED BY <2>2, <3>1, <3>2
  <2>5. TheyKept(w)' /\ HoldsOne(w)'
    BY <2>1, <2>3 DEF TheyKept, HoldsOne, Below, SystemOf, Hooks!Others
  <2>6. MineKept(w)'
    BY <2>1, <2>3, <2>4 DEF MineKept, Below, SystemOf, Hooks!Others
  <2>7. Unmixed(w)'
    BY <1>2, <2>1, <2>3, <2>4 DEF Unmixed, SystemOf
  <2> QED BY <2>5, <2>6, <2>7
<1> QED BY <1>3, <1>4 DEF HooksInv

\* What is written where MacroFire has hooks.
LEMMA HooksWriting ==
  ASSUME NEW value, Hooks!Written(value), NEW w \in Hooks!Words
  PROVE  /\ Mine(w) # {} => \E e \in Mine(w) : word'[w] = value[e]
         /\ Mine(w) = {} => word'[w] = word[w]
<1>1. word'[w] = IF \E e \in DOMAIN HookTable : restore[e].addr = w
                 THEN value[CHOOSE e \in DOMAIN HookTable : restore[e].addr = w] ELSE word[w]
  BY DEF Hooks!Written
<1> QED BY <1>1 DEF Mine

\* MacroFire writes its hook, or what it has kept.
LEMMA HooksMfStep ==
  ASSUME HooksInv, Hooks!MfHook \/ Hooks!MfUnhook
  PROVE  HooksInv'
<1>1. /\ UNCHANGED <<restore, other, mixed>> /\ patched' \in BOOLEAN
      /\ word' = [w \in Hooks!Words |-> word'[w]]
  BY DEF Hooks!MfHook, Hooks!MfUnhook, Hooks!Written
<1>2. Shape' /\ mixed' \in BOOLEAN
  BY <1>1 DEF HooksInv, Shape
<1>3. ASSUME NEW w \in Hooks!Words PROVE TheyKept(w)' /\ MineKept(w)' /\ HoldsOne(w)' /\ Unmixed(w)'
  <2>1. /\ Mine(w)' = Mine(w) /\ Theirs(w)' = Theirs(w) /\ Below(w)' = Below(w)
        /\ SystemOf(w)' = SystemOf(w) /\ Hooks!Others(w)' = Hooks!Others(w)
    BY <1>1 DEF Mine, Theirs, Below, SystemOf, Hooks!Others
  <2>2. TheyKept(w)' /\ MineKept(w)'
    BY <1>1, <2>1 DEF HooksInv, TheyKept, MineKept, Hooks!Hook
  <2>3. CASE Mine(w) = {}
    <3>1. word'[w] = word[w]
      BY <2>3, HooksWriting DEF Hooks!MfHook, Hooks!MfUnhook
    <3> QED BY <1>1, <2>1, <2>2, <2>3, <3>1 DEF HooksInv, HoldsOne, Unmixed
  <2>4. CASE Hooks!MfHook /\ Mine(w) # {}
    <3>1. patched' /\ \E e \in Mine(w) : word'[w] = Hooks!Hook(e)
      <4>1. \E e \in Mine(w) : word'[w] = [f \in DOMAIN HookTable |-> Hooks!Hook(f)][e]
        BY <2>4, HooksWriting DEF Hooks!MfHook
      <4> QED BY <2>4, <4>1 DEF Hooks!MfHook, Mine
    <3> QED BY <1>1, <2>1, <2>2, <3>1 DEF HooksInv, HoldsOne, Unmixed, Hooks!Hook
  <2>5. CASE Hooks!MfUnhook /\ Mine(w) # {}
    <3>1. ~patched' /\ \E e \in Mine(w) : word'[w] = restore[e].api
      <4>1. \E e \in Mine(w) : word'[w] = [f \in DOMAIN HookTable |-> restore[f].api][e]
        BY <2>5, HooksWriting DEF Hooks!MfUnhook
      <4> QED BY <2>5, <4>1 DEF Hooks!MfUnhook, Mine
    <3>2. HoldsOne(w)'
      BY <2>1, <3>1 DEF HooksInv, HoldsOne, MineKept
    <3>3. Unmixed(w)'
      BY <1>1, <2>1, <3>1 DEF HooksInv, Unmixed
    <3> QED BY <2>2, <3>2, <3>3
  <2> QED BY <2>3, <2>4, <2>5
<1> QED BY <1>1, <1>2, <1>3 DEF HooksInv

\* Another plugin hooks a word, whatever it holds.
LEMMA HooksOtherStep ==
  ASSUME HooksInv, NEW x \in Hooks!Words, Hooks!OtherHooks(x)
  PROVE  HooksInv'
<1> DEFINE new == [addr |-> x, api |-> word[x]]
<1>1. /\ UNCHANGED <<restore, patched>> /\ Theirs(x) = {} /\ other' = other \cup {new}
      /\ word' = [word EXCEPT ![x] = Hooks!Others(x)]
      /\ mixed' = (mixed \/ Mine(x) # {}) /\ mixed' \in BOOLEAN
  BY DEF Hooks!OtherHooks, Theirs, Mine, HooksInv
<1>2. /\ new.addr = x /\ new.api = word[x]
      /\ word'[x] = Hooks!Others(x) /\ \A w \in Hooks!Words : w # x => word'[w] = word[w]
  BY <1>1 DEF HooksInv, Shape
<1> HIDE DEF new
<1>3. Shape'
  <2>1. word' = [w \in Hooks!Words |-> word'[w]]
    BY <1>1 DEF HooksInv, Shape
  <2> QED BY <1>1, <1>2, <2>1 DEF HooksInv, Shape, Theirs
<1>4. ASSUME NEW w \in Hooks!Words PROVE TheyKept(w)' /\ MineKept(w)' /\ HoldsOne(w)' /\ Unmixed(w)'
  <2>1. Mine(w)' = Mine(w) /\ SystemOf(w)' = SystemOf(w) /\ Hooks!Others(w)' = Hooks!Others(w)
    BY <1>1 DEF Mine, SystemOf, Hooks!Others
  <2>2. CASE w # x
    <3>1. Theirs(w)' = Theirs(w) /\ Below(w)' = Below(w)
      BY <1>1, <1>2, <2>1, <2>2 DEF Theirs, Below
    <3>2. ~mixed' => ~mixed
      BY <1>1 DEF HooksInv
    <3> QED BY <1>1, <1>2, <2>1, <2>2, <3>1, <3>2
            DEF HooksInv, TheyKept, MineKept, HoldsOne, Unmixed, Hooks!Hook
  <2>3. CASE w = x
    <3>1. Theirs(w)' = {new} /\ Below(w)' = Hooks!Others(w)
      BY <1>1, <1>2, <2>1, <2>3 DEF Theirs, Below
    <3>2. \A e \in Mine(w) : restore[e].api = SystemOf(w)
      BY <1>1, <2>3 DEF HooksInv, MineKept
    <3>3. MineKept(w)' /\ HoldsOne(w)'
      BY <1>1, <1>2, <2>1, <2>3, <3>1, <3>2 DEF MineKept, HoldsOne
    <3>4. word[x] = SystemOf(w) \/ \E e \in Mine(w) : word[x] = Hooks!Hook(e)
      BY <1>1, <2>3 DEF HooksInv, HoldsOne
    <3>5. TheyKept(w)'
      BY <1>1, <1>2, <2>1, <2>3, <3>1, <3>2, <3>4 DEF TheyKept, Hooks!Hook
    <3>6. Unmixed(w)'
      <4>1. CASE Mine(w) # {}
        BY <1>1, <2>1, <2>3, <4>1 DEF Unmixed
      <4>2. CASE Mine(w) = {}
        <5>1. word[x] = SystemOf(w)
          BY <3>4, <4>2
        <5> QED BY <1>1, <1>2, <2>1, <2>3, <3>1, <4>2, <5>1 DEF Unmixed
      <4> QED BY <4>1, <4>2
    <3> QED BY <3>3, <3>5, <3>6
  <2> QED BY <2>2, <2>3
<1> QED BY <1>1, <1>3, <1>4 DEF HooksInv

-----------------------------------------------------------------------------
\* Where calls of a word go.
LEMMA HooksArriving ==
  ASSUME HooksInv
  PROVE  Hooks!CallsArrive
<1> SUFFICES ASSUME NEW w \in Hooks!Words
    PROVE  LET path == <<word[w], Hooks!PassedOn(word[w]), Hooks!PassedOn(Hooks!PassedOn(word[w]))>>
               by   == {path[i][1] : i \in 1 .. 3}
               mine == {e \in DOMAIN HookTable : restore[e].addr = w}
           IN  /\ Hooks!PassedOn(path[3]) = <<"system", Hooks!Original(w)>>
               /\ mine # {} /\ ~mixed => ("macrofire" \in by) = patched
               /\ mine = {} => "macrofire" \notin by
               /\ (\E h \in other : h.addr = w) /\ ~mixed => "other" \in by
  BY DEF Hooks!CallsArrive
<1> DEFINE p1 == word[w]
           p2 == Hooks!PassedOn(p1)
           p3 == Hooks!PassedOn(p2)
           by == {p1[1], p2[1], p3[1]}
<1>1. Hooks!PassedOn(SystemOf(w)) = SystemOf(w) /\ SystemOf(w)[1] = "system"
  BY DEF Hooks!PassedOn, SystemOf
<1>2. \A e : Hooks!PassedOn(Hooks!Hook(e)) = restore[e].api /\ Hooks!Hook(e)[1] = "macrofire"
  BY DEF Hooks!PassedOn, Hooks!Hook
<1>3. Hooks!Others(w)[1] = "other" /\ \A h \in Theirs(w) : Hooks!PassedOn(Hooks!Others(w)) = h.api
  BY DEF Hooks!PassedOn, Hooks!Others, Theirs, HooksInv, Shape
<1>4. /\ TheyKept(w) /\ MineKept(w) /\ HoldsOne(w) /\ Unmixed(w)
      /\ mixed \in BOOLEAN /\ patched \in BOOLEAN
  BY DEF HooksInv
<1> HIDE DEF p1, p2, p3
<1>5. Hooks!PassedOn(p3) = SystemOf(w)
  <2>1. CASE p1 = SystemOf(w)
    BY <1>1, <2>1 DEF p2, p3
  <2>2. CASE \E e \in Mine(w) : p1 = Hooks!Hook(e)
    BY <1>1, <1>2, <1>3, <1>4, <2>2 DEF p2, p3, MineKept
  <2>3. CASE p1 = Hooks!Others(w) /\ Theirs(w) # {}
    BY <1>1, <1>2, <1>3, <1>4, <2>3 DEF p2, p3, TheyKept
  <2> QED BY <1>4, <2>1, <2>2, <2>3 DEF HoldsOne, p1
<1>6. Mine(w) = {} => "macrofire" \notin by
  BY <1>1, <1>3, <1>4 DEF p1, p2, p3, Unmixed, Below
<1>7. Mine(w) # {} /\ ~mixed /\ patched => "macrofire" \in by
  BY <1>2, <1>4 DEF p1, p2, p3, Unmixed
<1>8. Mine(w) # {} /\ ~mixed /\ ~patched => "macrofire" \notin by
  BY <1>1, <1>3, <1>4 DEF p1, p2, p3, Unmixed, Below
<1>9. Theirs(w) # {} /\ ~mixed => "other" \in by
  BY <1>1, <1>2, <1>3, <1>4 DEF p1, p2, p3, Unmixed, Below
<1>10. \A path : path = <<p1, p2, p3>> => path[3] = p3 /\ {path[i][1] : i \in 1 .. 3} = by
  OBVIOUS
<1> HIDE DEF by
<1>11. ("macrofire" \in by) = patched \/ Mine(w) = {} \/ mixed
  BY <1>4, <1>7, <1>8
<1> QED BY <1>5, <1>6, <1>9, <1>10, <1>11 DEF Mine, Theirs, SystemOf, p1, p2, p3

\* Every call comes to its function, by way of MacroFire's hook while its hooks are in, and by
\* way of the other plugin's unless that has hooked what MacroFire had looked at.
THEOREM HooksCallsArriveCorrect ==
  ASSUME Nowhere \notin Hooks!Words
  PROVE  Hooks!Spec => []Hooks!CallsArrive
<1>1. HooksInv /\ [Hooks!Next]_(Hooks!vars) => HooksInv'
  <2> SUFFICES ASSUME HooksInv, [Hooks!Next]_(Hooks!vars) PROVE HooksInv'
    OBVIOUS
  <2>1. CASE UNCHANGED Hooks!vars
    BY <2>1
        DEF Hooks!vars, HooksInv, Shape, TheyKept, MineKept, HoldsOne, Unmixed, Below, Mine, Theirs,
                SystemOf, Hooks!Hook, Hooks!Others
  <2> QED BY <2>1, HooksFindStep, HooksMfStep, HooksOtherStep DEF Hooks!Next
<1> QED BY <1>1, HooksInitInv, HooksArriving, PTL DEF Hooks!Spec

-----------------------------------------------------------------------------
\* There is a first one of those that are looked for.
LEMMA HooksFirstOne ==
  ASSUME NEW Q \in SUBSET Nat, Q # {}
  PROVE  Hooks!Min(Q) \in Q
BY Least DEF Hooks!Min

\* hookFindExportAddr finds an export or nothing.
LEMMA HooksExportTyped ==
  ASSUME Exporting, NEW module, NEW library, NEW function
  PROVE  Hooks!FindExportAddr(module, library, function) \in Hooks!Exports \cup {Nowhere}
<1> SUFFICES ASSUME module \in Hooks!Modules
             PROVE  Hooks!FindExportAddr(module, library, function) \in Hooks!Exports \cup {Nowhere}
  BY DEF Hooks!FindExportAddr
<1> DEFINE libs == GameModules[module]
           L    == {k \in 1 .. Len(libs) : libs[k].name = library}
           l0   == IF L # {} THEN Hooks!Min(L) ELSE 0
           l    == IF l0 = 0 THEN Len(libs) ELSE l0
           F    == {k \in 1 .. Len(libs[l].functions) : libs[l].functions[k] = function}
           i    == IF F # {} THEN Hooks!Min(F) ELSE 0
<1>1. Hooks!FindExportAddr(module, library, function) = IF i = 0 THEN Nowhere ELSE <<module, l, i>>
  BY DEF Hooks!FindExportAddr, Hooks!SelectInSeq
<1>2. l \in 1 .. Len(libs)
  <2>1. L \in SUBSET Nat /\ L \subseteq 1 .. Len(libs) /\ Len(libs) \in Nat \ {0}
    BY DEF Exporting
  <2> HIDE DEF L
  <2>2. l0 = 0 \/ l0 \in 1 .. Len(libs)
    BY <2>1, HooksFirstOne
  <2> HIDE DEF l0, libs
  <2> QED BY <2>1, <2>2
<1>3. i # 0 => i \in 1 .. Len(libs[l].functions)
  <2> HIDE DEF l
  <2>1. Len(libs[l].functions) \in Nat
    BY <1>2 DEF Exporting
  <2>2. F \in SUBSET Nat /\ F \subseteq 1 .. Len(libs[l].functions)
    BY <2>1
  <2> HIDE DEF F
  <2>3. F # {} => Hooks!Min(F) \in F
    BY <2>2, HooksFirstOne
  <2> QED BY <2>2, <2>3
<1> HIDE DEF l, i
<1>4. i # 0 => <<module, l, i>> \in Hooks!Exports
  BY <1>2, <1>3 DEF Hooks!Exports
<1> QED BY <1>1, <1>4

\* hookFindSyscallAddr finds a word of the table or nothing.
LEMMA HooksSyscallTyped ==
  ASSUME Exporting, NEW addr
  PROVE  Hooks!FindSyscallAddr(addr) \in Hooks!Words \cup {Nowhere}
<1> DEFINE calls == [n \in 1 .. Len(Calls) |-> <<"call", n>>]
           I     == {k \in 1 .. Len(calls) : word[calls[k]] = word[addr]}
           i     == IF I # {} THEN Hooks!Min(I) ELSE 0
<1>1. Hooks!FindSyscallAddr(addr) = IF addr = Nowhere \/ i = 0 THEN Nowhere ELSE <<"call", i>>
  BY DEF Hooks!FindSyscallAddr, Hooks!SelectInSeq
<1>2. i # 0 => i \in 1 .. Len(Calls)
  <2>1. Len(calls) = Len(Calls) /\ Len(Calls) \in Nat
    BY DEF Exporting
  <2>2. I \in SUBSET Nat /\ I \subseteq 1 .. Len(Calls)
    BY <2>1
  <2> HIDE DEF I
  <2>3. I # {} => Hooks!Min(I) \in I
    BY <2>2, HooksFirstOne
  <2> QED BY <2>2, <2>3
<1> HIDE DEF i
<1> QED BY <1>1, <1>2 DEF Hooks!Words

\* What MacroFire remembers of an entry of its table is a word of the modules or of the table of
\* system calls, or nothing, whatever is looked for and wherever it is found.
THEOREM HooksTypeCorrect ==
  ASSUME Exporting
  PROVE  Hooks!Spec => []Hooks!TypeOK
<1>1. Hooks!Init => Hooks!TypeOK
  <2> SUFFICES ASSUME Hooks!Init PROVE Hooks!TypeOK
    OBVIOUS
  <2>1. DOMAIN word = Hooks!Words /\ DOMAIN restore = DOMAIN HookTable
    BY DEF Hooks!Init
  <2>2. \A e \in DOMAIN HookTable : restore[e].addr \in Hooks!Words \cup {Nowhere}
    BY DEF Hooks!Init
  <2> QED BY <2>1, <2>2 DEF Hooks!Init, Hooks!TypeOK
<1>2. Hooks!TypeOK /\ [Hooks!Next]_(Hooks!vars) => Hooks!TypeOK'
  <2> SUFFICES ASSUME Hooks!TypeOK, [Hooks!Next]_(Hooks!vars) PROVE Hooks!TypeOK'
    OBVIOUS
  <2>1. CASE UNCHANGED Hooks!vars
    BY <2>1 DEF Hooks!vars, Hooks!TypeOK
  <2>2. CASE Hooks!Find
    <3> SUFFICES ASSUME NEW e \in DOMAIN HookTable
  PROVE restore'[e].addr \in Hooks!Words \cup {Nowhere}
      BY <2>2 DEF Hooks!Find, Hooks!TypeOK
    <3> DEFINE export == Hooks!FindExportAddr(HookTable[e].module, HookTable[e].library,
          HookTable[e].function)
               call   == Hooks!FindSyscallAddr(export)
               addr   == IF call = Nowhere THEN export ELSE call
    <3>1. restore'[e].addr = addr
      BY <2>2 DEF Hooks!Find
    <3>2. addr \in Hooks!Words \cup {Nowhere}
      BY HooksExportTyped, HooksSyscallTyped DEF Hooks!Words
    <3> QED BY <3>1, <3>2
  <2>3. CASE Hooks!MfHook \/ Hooks!MfUnhook
    BY <2>3 DEF Hooks!MfHook, Hooks!MfUnhook, Hooks!Written, Hooks!TypeOK
  <2>4. CASE \E w \in Hooks!Words : Hooks!OtherHooks(w)
    BY <2>4 DEF Hooks!OtherHooks, Hooks!TypeOK
  <2> QED BY <2>1, <2>2, <2>3, <2>4 DEF Hooks!Next
<1> QED BY <1>1, <1>2, PTL DEF Hooks!Spec

-----------------------------------------------------------------------------
(* Dirh: the card, the thread and the dialog at any speed, for directories of any size. *)

Running == {"dopen", "count", "fill"}
Entries == [list : BOOLEAN, count : 0 .. MaxEntries,
            filled : 0 .. MaxEntries, pos : 0 .. MaxEntries]
ThreadStates == [at : Dirh!Stages, data : 0 .. 2, left : 0 .. 1]

DirhTyped ==
  /\ handle \in 0 .. 2 /\ size \in 0 .. MaxEntries
  /\ entry \in Entries /\ entry.filled <= entry.count /\ entry.pos <= entry.count
  /\ asker \in {"closed", "open", "chdir", "shown"}
  /\ flag \subseteq {"id", "ok", "exit"}
  /\ thread \in ThreadStates
  /\ stray \in BOOLEAN /\ mishap \subseteq Dirh!Mishaps

\* Who is about: a thread that runs without being waited for writes to a handle that is no more,
\* which takes a timeout; the flag is there as long as the thread.
ThreadInv ==
  /\ asker = "closed" <=> handle = 0
  /\ thread.at = "none" <=> thread.data = 0
  /\ thread.at # "none" => "id" \in flag
  /\ "id" \in flag => thread.at # "none" \/ "thread" \in mishap
  /\ "ok" \in flag <=> thread.at = "done"
  /\ asker = "chdir" => thread.data = handle /\ thread.at # "none" /\ "exit" \notin flag
  /\ asker # "chdir" /\ thread.at # "none" => "exit" \in flag
  /\ asker # "chdir" /\ thread.at \in Running => thread.data # handle /\ "timeout" \in mishap
  /\ "timeout" \notin mishap => ~stray

\* How far the list is.
WholeList(done) ==
  /\ entry.list /\ entry.count <= size
  /\ "card" \notin mishap => entry.count = size /\ (done => entry.filled = size)
ListInv ==
  /\ asker \in {"closed", "open"} => entry = Dirh!NoEntry
  /\ asker = "chdir" /\ thread.at \in {"dopen", "count"} => entry = Dirh!NoEntry
  /\ asker = "chdir" /\ thread.at = "fill" => WholeList(FALSE)
  /\ asker = "chdir" /\ thread.at = "done" /\ thread.left = 0 => WholeList(TRUE)
  /\ asker = "shown" => WholeList(TRUE)

DirhInv == DirhTyped /\ ThreadInv /\ ListInv

\* At first there is no thread and no list.
LEMMA DirhInitInv == ASSUME MaxEntries \in Nat, Dirh!Init PROVE DirhInv
<1>1. Dirh!NoEntry \in Entries
  BY DEF Dirh!NoEntry, Entries
<1>2. DirhTyped
  <2>1. Dirh!NoThread \in ThreadStates
    BY DEF Dirh!NoThread, ThreadStates, Dirh!Stages
  <2>2. entry = Dirh!NoEntry /\ entry.filled <= entry.count /\ entry.pos <= entry.count
    BY DEF Dirh!Init, Dirh!NoEntry
  <2>3. stray \in BOOLEAN /\ mishap = {} /\ flag = {} /\ asker = "closed"
    BY DEF Dirh!Init
  <2> QED BY <1>1, <2>1, <2>2, <2>3 DEF Dirh!Init, DirhTyped
<1>3. ThreadInv /\ ListInv
  BY DEF Dirh!Init, ThreadInv, ListInv, Dirh!NoEntry, Dirh!NoThread, Running
<1> QED BY <1>2, <1>3 DEF DirhInv

\* The dialog closes.
LEMMA DirhClosing ==
  ASSUME MaxEntries \in Nat, DirhInv,
         Dirh!ChdirWrong \/ Dirh!ChdirRunning \/ Dirh!ChdirNoThread \/ Dirh!TimedOut \/ Dirh!Close
  PROVE  DirhInv'
<1>1. handle' = 0 /\ entry' = Dirh!NoEntry /\ asker' = "closed" /\ UNCHANGED <<size, thread, stray>>
  BY DEF Dirh!ChdirWrong, Dirh!ChdirRunning, Dirh!ChdirNoThread, Dirh!TimedOut, Dirh!Close,
          Dirh!Destroyed
<1>2. /\ Dirh!NoEntry \in Entries /\ Dirh!NoEntry.filled <= Dirh!NoEntry.count
      /\ Dirh!NoEntry.pos <= Dirh!NoEntry.count
  BY DEF Dirh!NoEntry, Entries
<1>3. flag' \subseteq {"id", "ok", "exit"} /\ mishap' \subseteq Dirh!Mishaps
  BY DEF Dirh!ChdirWrong, Dirh!ChdirRunning, Dirh!ChdirNoThread, Dirh!TimedOut, Dirh!Close,
          Dirh!Destroyed,
         Dirh!Mishaps, DirhInv, DirhTyped
<1>4. DirhTyped'
  BY <1>1, <1>2, <1>3 DEF DirhInv, DirhTyped
<1>5. ListInv'
  BY <1>1 DEF ListInv
<1>6. ThreadInv'
  <2>1. CASE Dirh!ChdirWrong \/ Dirh!ChdirRunning \/ Dirh!Close
    BY <1>1, <2>1
        DEF Dirh!ChdirWrong, Dirh!ChdirRunning, Dirh!Close, DirhInv, ThreadInv, DirhTyped, Running
  <2>2. CASE Dirh!ChdirNoThread
    BY <1>1, <2>2 DEF Dirh!ChdirNoThread, DirhInv, ThreadInv, DirhTyped, Running
  <2>3. CASE Dirh!TimedOut
    BY <1>1, <2>3 DEF Dirh!TimedOut, DirhInv, ThreadInv, DirhTyped, Running, Dirh!Stages
  <2> QED BY <2>1, <2>2, <2>3
<1> QED BY <1>4, <1>5, <1>6 DEF DirhInv

\* It makes a handle, asks for a directory, gets it and reads it.
LEMMA DirhAsking ==
  ASSUME MaxEntries \in Nat, DirhInv, Dirh!New \/ Dirh!Chdir \/ Dirh!Answered \/ Dirh!Read
  PROVE  DirhInv'
<1>0. /\ Dirh!NoEntry \in Entries /\ Dirh!NoEntry.filled <= Dirh!NoEntry.count
      /\ Dirh!NoEntry.pos <= Dirh!NoEntry.count
      /\ entry.count \in Nat /\ entry.filled \in Nat
  BY DEF Dirh!NoEntry, Entries, DirhInv, DirhTyped
<1>1. CASE Dirh!New
  <2>1. DirhTyped'
    BY <1>0, <1>1 DEF Dirh!New, DirhInv, DirhTyped
  <2>2. ThreadInv'
    BY <1>1 DEF Dirh!New, DirhInv, DirhTyped, ThreadInv, Running
  <2>3. ListInv'
    BY <1>1 DEF Dirh!New, ListInv
  <2> QED BY <2>1, <2>2, <2>3 DEF DirhInv
<1>2. CASE Dirh!Chdir
  <2>1. entry' = Dirh!NoEntry
    BY <1>2 DEF Dirh!Chdir, Dirh!Cleared, DirhInv, ListInv, WholeList
  <2>2. DirhTyped'
    BY <1>0, <1>2, <2>1 DEF Dirh!Chdir, DirhInv, DirhTyped, Dirh!Stages, ThreadStates
  <2>3. ThreadInv'
    BY <1>2 DEF Dirh!Chdir, DirhInv, DirhTyped, ThreadInv, Running
  <2>4. ListInv'
    BY <1>2, <2>1 DEF Dirh!Chdir, ListInv
  <2> QED BY <2>2, <2>3, <2>4 DEF DirhInv
<1>3. CASE Dirh!Answered
  <2>0. thread.at = "done"
    BY <1>3 DEF Dirh!Answered, DirhInv, ThreadInv
  <2>1. DirhTyped'
    BY <1>0, <1>3 DEF Dirh!Answered, DirhInv, DirhTyped, Dirh!Destroyed
  <2>2. ThreadInv'
    BY <1>3, <2>0 DEF Dirh!Answered, DirhInv, DirhTyped, ThreadInv, Running, Dirh!Destroyed
  <2>3. ListInv'
    BY <1>3, <2>0 DEF Dirh!Answered, DirhInv, ListInv, WholeList, Dirh!Destroyed
  <2> QED BY <2>1, <2>2, <2>3 DEF DirhInv
<1>4. CASE Dirh!Read
  <2>1. PICK p \in 0 .. entry.count :
          entry' = [entry EXCEPT !.pos = IF p < entry.count THEN p + 1 ELSE p]
    BY <1>4 DEF Dirh!Read
  <2>2. UNCHANGED <<handle, size, asker, flag, thread, stray, mishap>> /\ asker = "shown"
    BY <1>4 DEF Dirh!Read
  <2>3. /\ entry'.list = entry.list /\ entry'.count = entry.count /\ entry'.filled = entry.filled
        /\ entry' \in Entries /\ entry'.pos <= entry.count
    BY <1>0, <2>1 DEF DirhInv, DirhTyped, Entries
  <2>4. DirhTyped'
    BY <2>2, <2>3 DEF DirhInv, DirhTyped
  <2>5. ThreadInv'
    BY <2>2 DEF DirhInv, ThreadInv
  <2>6. ListInv'
    BY <2>2, <2>3 DEF DirhInv, ListInv, WholeList
  <2> QED BY <2>4, <2>5, <2>6 DEF DirhInv
<1> QED BY <1>1, <1>2, <1>3, <1>4

\* The thread answers.
LEMMA DirhFinishing ==
  ASSUME DirhInv, NEW status \in 0 .. 1, Dirh!Finish(status)
  PROVE  /\ thread' \in ThreadStates /\ thread'.at = "done" /\ thread'.left = status
         /\ thread'.data = thread.data /\ flag' = flag \cup {"ok"}
  BY DEF Dirh!Finish, DirhInv, DirhTyped, ThreadStates, Dirh!Stages

\* It writes to its handle, or astray.
LEMMA DirhPutting ==
  ASSUME DirhInv, NEW e, Dirh!Put(e)
  PROVE  /\ entry' = IF Dirh!Own THEN e ELSE entry
         /\ stray' \in BOOLEAN /\ (stray' <=> stray \/ ~Dirh!Own)
<1>1. stray' = (stray \/ ~Dirh!Own)
  BY DEF Dirh!Put
<1>2. stray' \in BOOLEAN /\ (stray' <=> stray \/ ~Dirh!Own)
  BY <1>1, Zenon
<1> QED BY <1>2 DEF Dirh!Put

\* The thread's steps.
LEMMA DirhReading ==
  ASSUME MaxEntries \in Nat, DirhInv,
         Dirh!Opened \/ Dirh!Counted \/ Dirh!NoMemory \/ Dirh!Filled \/ Dirh!Leave
  PROVE  DirhInv'
<1>0. /\ entry \in Entries /\ entry.count \in Nat /\ entry.filled \in Nat /\ entry.pos \in Nat
      /\ size \in Nat /\ size <= MaxEntries /\ entry.count <= MaxEntries
      /\ thread \in ThreadStates
  BY DEF Entries, DirhInv, DirhTyped
<1>1. CASE Dirh!Opened
  <2>1. UNCHANGED <<handle, entry, size, asker, stray, mishap>> /\ thread.at = "dopen"
    BY <1>1 DEF Dirh!Opened
  <2>2. /\ thread' \in ThreadStates /\ thread'.data = thread.data
        /\ \/ "exit" \in flag /\ flag' = flag \cup {"ok"} /\ thread'.at = "done"
           \/ "exit" \notin flag /\ flag' = flag /\ thread'.at = "count"
    <3>1. CASE "exit" \in flag
      BY <1>1, <3>1, DirhFinishing DEF Dirh!Opened
    <3>2. CASE "exit" \notin flag
      BY <1>0, <1>1, <3>2 DEF Dirh!Opened, ThreadStates, Dirh!Stages
    <3> QED BY <3>1, <3>2
  <2>3. DirhTyped'
    BY <2>1, <2>2 DEF DirhInv, DirhTyped
  <2>4. ThreadInv'
    BY <2>1, <2>2 DEF DirhInv, ThreadInv, Running
  <2>5. ListInv'
    BY <2>1, <2>2 DEF DirhInv, ListInv, ThreadInv, WholeList
  <2> QED BY <2>3, <2>4, <2>5 DEF DirhInv
<1>2. CASE Dirh!Leave
  <2>0. asker # "chdir"
    BY <1>2 DEF Dirh!Leave, DirhInv, ThreadInv
  <2>1. DirhTyped'
    BY <1>2 DEF Dirh!Leave, DirhInv, DirhTyped, Dirh!NoThread, Dirh!Stages, ThreadStates
  <2>2. ThreadInv'
    BY <1>2, <2>0 DEF Dirh!Leave, DirhInv, ThreadInv, Dirh!NoThread, Running
  <2>3. ListInv'
    BY <1>2, <2>0 DEF Dirh!Leave, DirhInv, ListInv, WholeList
  <2> QED BY <2>1, <2>2, <2>3 DEF DirhInv
<1>3. ASSUME Dirh!Counted PROVE DirhInv'
  <2>1. PICK n \in 0 .. size :
          /\ mishap' = IF n < size THEN mishap \cup {"card"} ELSE mishap
          /\ Dirh!Put([entry EXCEPT !.count = @ + n, !.list = TRUE])
    BY <1>3 DEF Dirh!Counted
  <2>2. /\ UNCHANGED <<handle, size, asker, flag>> /\ thread.at = "count"
        /\ thread' \in ThreadStates /\ thread'.at = "fill" /\ thread'.data = thread.data
    BY <1>0, <1>3 DEF Dirh!Counted, ThreadStates, Dirh!Stages
  <2>3. /\ entry' = IF Dirh!Own THEN [entry EXCEPT !.count = @ + n, !.list = TRUE] ELSE entry
        /\ stray' \in BOOLEAN /\ (stray' <=> stray \/ ~Dirh!Own)
    BY <2>1, DirhPutting
  <2>4. /\ mishap' \subseteq Dirh!Mishaps /\ ("timeout" \in mishap' <=> "timeout" \in mishap)
        /\ ("thread" \in mishap' <=> "thread" \in mishap)
        /\ "card" \notin mishap' => n = size /\ "card" \notin mishap
    BY <1>0, <2>1 DEF DirhInv, DirhTyped, Dirh!Mishaps
  <2>5. ThreadInv'
    BY <2>2, <2>3, <2>4 DEF DirhInv, ThreadInv, Running, Dirh!Own
  <2>6. CASE Dirh!Own
    <3>1. asker = "chdir"
      BY <2>2, <2>6 DEF Dirh!Own, DirhInv, ThreadInv, Running
    <3>2. entry = Dirh!NoEntry
      BY <2>2, <3>1 DEF DirhInv, ListInv
    <3>3. entry.count = 0 /\ entry.filled = 0 /\ entry.pos = 0
      BY <3>2 DEF Dirh!NoEntry
    <3>n. entry.count + n = n /\ n \in 0 .. MaxEntries
      BY <1>0, <3>3
    <3>e. entry' = [entry EXCEPT !.count = n, !.list = TRUE]
      BY <2>3, <2>6, <3>n
    <3>4. /\ entry'.list /\ entry'.count = n /\ entry'.filled = 0 /\ entry'.pos = 0
          /\ entry' \in Entries
      BY <1>0, <3>3, <3>e, <3>n DEF Entries
    <3>5. DirhTyped'
      BY <1>0, <2>2, <2>3, <2>4, <3>4 DEF DirhInv, DirhTyped
    <3>6. ListInv'
      BY <1>0, <2>2, <2>4, <3>1, <3>4 DEF ListInv, WholeList
    <3> QED BY <2>5, <3>5, <3>6 DEF DirhInv
  <2>7. CASE ~Dirh!Own
    <3>1. asker # "chdir" /\ entry' = entry
      BY <2>3, <2>7 DEF Dirh!Own, DirhInv, ThreadInv
    <3>2. DirhTyped'
      BY <2>2, <2>3, <2>4, <3>1 DEF DirhInv, DirhTyped
    <3>3. ListInv'
      BY <2>2, <2>4, <3>1 DEF DirhInv, ListInv, WholeList
    <3> QED BY <2>5, <3>2, <3>3 DEF DirhInv
  <2> QED BY <2>6, <2>7
<1>4. ASSUME Dirh!NoMemory PROVE DirhInv'
  <2>1. /\ UNCHANGED <<handle, size, asker>> /\ thread.at = "count"
        /\ Dirh!Put([entry EXCEPT !.count = @ + size]) /\ mishap' = mishap \cup {"memory"}
    BY <1>4 DEF Dirh!NoMemory
  <2>2. /\ thread' \in ThreadStates /\ thread'.at = "done" /\ thread'.data = thread.data
        /\ thread'.left = 1 /\ flag' = flag \cup {"ok"}
    BY <1>4, DirhFinishing DEF Dirh!NoMemory
  <2>3. /\ entry' = IF Dirh!Own THEN [entry EXCEPT !.count = @ + size] ELSE entry
        /\ stray' \in BOOLEAN /\ (stray' <=> stray \/ ~Dirh!Own)
    BY <2>1, DirhPutting
  <2>4. /\ mishap' \subseteq Dirh!Mishaps /\ ("timeout" \in mishap' <=> "timeout" \in mishap)
        /\ ("thread" \in mishap' <=> "thread" \in mishap)
        /\ ("card" \in mishap' <=> "card" \in mishap)
    BY <2>1 DEF DirhInv, DirhTyped, Dirh!Mishaps
  <2>5. ThreadInv'
    BY <2>1, <2>2, <2>3, <2>4 DEF DirhInv, ThreadInv, Running, Dirh!Own
  <2>6. CASE Dirh!Own
    <3>1. asker = "chdir"
      BY <2>1, <2>6 DEF Dirh!Own, DirhInv, ThreadInv, Running
    <3>2. entry = Dirh!NoEntry
      BY <2>1, <3>1 DEF DirhInv, ListInv
    <3>3. entry.count = 0 /\ entry.filled = 0 /\ entry.pos = 0
      BY <3>2 DEF Dirh!NoEntry
    <3>4. /\ entry'.count = size /\ entry'.filled = 0 /\ entry'.pos = 0 /\ entry' \in Entries
      BY <1>0, <2>3, <2>6, <3>3 DEF Entries
    <3>5. DirhTyped'
      BY <1>0, <2>1, <2>2, <2>3, <2>4, <3>4 DEF DirhInv, DirhTyped
    <3>6. ListInv'
      BY <2>1, <2>2, <3>1 DEF ListInv
    <3> QED BY <2>5, <3>5, <3>6 DEF DirhInv
  <2>7. CASE ~Dirh!Own
    <3>1. asker # "chdir" /\ entry' = entry
      BY <2>3, <2>7 DEF Dirh!Own, DirhInv, ThreadInv
    <3>2. DirhTyped'
      BY <2>1, <2>2, <2>3, <2>4, <3>1 DEF DirhInv, DirhTyped
    <3>3. ListInv'
      BY <2>1, <2>4, <3>1 DEF DirhInv, ListInv, WholeList
    <3> QED BY <2>5, <3>2, <3>3 DEF DirhInv
  <2> QED BY <2>6, <2>7
<1>5. ASSUME Dirh!Filled PROVE DirhInv'
  <2>0. PICK n \in 0 .. size :
          /\ mishap' = IF n < size THEN mishap \cup {"card"} ELSE mishap
          /\ Dirh!Put([entry EXCEPT !.filled = IF n < entry.count THEN n ELSE entry.count])
    BY <1>5 DEF Dirh!Filled
  <2>1. UNCHANGED <<handle, size, asker>> /\ thread.at = "fill"
    BY <1>5 DEF Dirh!Filled
  <2>2. /\ thread' \in ThreadStates /\ thread'.at = "done" /\ thread'.data = thread.data
        /\ flag' = flag \cup {"ok"}
    BY <1>5, DirhFinishing DEF Dirh!Filled
  <2>3. /\ entry' = IF Dirh!Own
                    THEN [entry EXCEPT !.filled = IF n < entry.count THEN n ELSE entry.count]
                    ELSE entry
        /\ stray' \in BOOLEAN /\ (stray' <=> stray \/ ~Dirh!Own)
    BY <2>0, DirhPutting
  <2>4. /\ mishap' \subseteq Dirh!Mishaps /\ ("timeout" \in mishap' <=> "timeout" \in mishap)
        /\ ("thread" \in mishap' <=> "thread" \in mishap)
        /\ "card" \notin mishap' => n = size /\ "card" \notin mishap
    BY <1>0, <2>0 DEF DirhInv, DirhTyped, Dirh!Mishaps
  <2>5. ThreadInv'
    BY <2>1, <2>2, <2>3, <2>4 DEF DirhInv, ThreadInv, Running, Dirh!Own
  <2>6. CASE Dirh!Own
    <3>1. asker = "chdir"
      BY <2>1, <2>6 DEF Dirh!Own, DirhInv, ThreadInv, Running
    <3>2. entry.list /\ entry.count <= size /\ ("card" \notin mishap => entry.count = size)
      BY <2>1, <3>1 DEF DirhInv, ListInv, WholeList
    <3>4. /\ entry'.list = entry.list /\ entry'.count = entry.count
          /\ entry'.filled = (IF n < entry.count THEN n ELSE entry.count) /\ entry'.pos = entry.pos
          /\ entry' \in Entries
      BY <1>0, <2>3, <2>6 DEF Entries
    <3>5. entry'.filled <= entry'.count /\ (n = size /\ entry.count = size => entry'.filled = size)
      BY <1>0, <3>4
    <3>6. DirhTyped'
      BY <2>1, <2>2, <2>3, <2>4, <3>4, <3>5 DEF DirhInv, DirhTyped
    <3>7. WholeList(TRUE)'
      BY <2>1, <2>4, <3>2, <3>4, <3>5 DEF WholeList
    <3>8. ListInv'
      BY <2>1, <2>2, <3>1, <3>7 DEF ListInv
    <3> QED BY <2>5, <3>6, <3>8 DEF DirhInv
  <2>7. CASE ~Dirh!Own
    <3>1. asker # "chdir" /\ entry' = entry
      BY <2>3, <2>7 DEF Dirh!Own, DirhInv, ThreadInv
    <3>2. DirhTyped'
      BY <2>1, <2>2, <2>3, <2>4, <3>1 DEF DirhInv, DirhTyped
    <3>3. ListInv'
      BY <2>1, <2>4, <3>1 DEF DirhInv, ListInv, WholeList
    <3> QED BY <2>5, <3>2, <3>3 DEF DirhInv
  <2> QED BY <2>6, <2>7
<1> QED BY <1>1, <1>2, <1>3, <1>4, <1>5

\* Each step of asker and thread keeps the invariant.
LEMMA DirhNextInv == ASSUME MaxEntries \in Nat, DirhInv, [Dirh!Next]_(Dirh!vars) PROVE DirhInv'
<1>1. CASE UNCHANGED Dirh!vars
  BY <1>1 DEF Dirh!vars, DirhInv, DirhTyped, ThreadInv, ListInv, WholeList
<1> QED BY <1>1, DirhClosing, DirhAsking, DirhReading DEF Dirh!Next

\* The invariant, for directories of any size.
THEOREM DirhInvariant == ASSUME MaxEntries \in Nat PROVE Dirh!Spec => []DirhInv
<1> QED BY DirhInitInv, DirhNextInv, PTL DEF Dirh!Spec

\* Places in the list are in the list, and never more is filled than was counted.
THEOREM DirhTypeCorrect == ASSUME MaxEntries \in Nat PROVE Dirh!Spec => []Dirh!TypeOK
<1>1. DirhInv => Dirh!TypeOK
  BY DEF DirhInv, DirhTyped, Dirh!TypeOK, Entries, ThreadStates
<1> QED BY <1>1, DirhInvariant, PTL

\* What the dialog shows is the whole directory unless the card failed: the answer never comes
\* before the list is filled, however slow the card is.
THEOREM DirhListWholeCorrect == ASSUME MaxEntries \in Nat PROVE Dirh!Spec => []Dirh!ListWhole
<1>1. DirhInv => Dirh!ListWhole
  BY DEF DirhInv, ListInv, WholeList, Dirh!ListWhole
<1> QED BY <1>1, DirhInvariant, PTL

\* Without a timeout the thread writes to no other handle than the dialog's, and a flag is there
\* as long as a thread is.
THEOREM DirhThreadAccountedCorrect ==
  ASSUME MaxEntries \in Nat
  PROVE  Dirh!Spec => []Dirh!ThreadAccounted
<1>1. DirhInv => Dirh!ThreadAccounted
  BY DEF DirhInv, ThreadInv, Dirh!ThreadAccounted, DirhTyped, ThreadStates, Dirh!Stages, Running,
          Dirh!Own
<1> QED BY <1>1, DirhInvariant, PTL

-----------------------------------------------------------------------------
(* Editor: dialogs and tables on a list of commands, for a macro of any length. *)

\* Numbers can be what a fresh command has.
EditorSized == MaxLines \in Nat \ {0} /\ HalfPage \in Nat /\ {0, Editor!Neutral} \subseteq Numbers

\* Commands are apart.
Apart(s) == \A i, j \in 1 .. Len(s) : s[i].cmd = s[j].cmd => i = j

\* Lines and cursor.
LinesInv ==
  /\ lines \in Seq(Editor!Commands) /\ Len(lines) \in 1 .. MaxLines /\ Apart(lines)
  /\ numberOfCmd = Len(lines) - 1 /\ line \in 0 .. numberOfCmd

\* What fresh commands have are data.
LEMMA DelayIsData == EditorSized => Editor!DelayZero \in Editor!Data
BY DEF EditorSized, Editor!DelayZero, Editor!Data, Editor!Actions

\* macromgr_command_new makes a command of the list.
LEMMA FreshIsData == ASSUME EditorSized, NEW action \in Editor!Actions
  PROVE Editor!Fresh(action) \in Editor!Data
BY DEF EditorSized, Editor!Fresh, Editor!DelayZero, Editor!Data, Editor!Actions, Editor!Neutral

\* As many numbers as one counts to.
LEMMA Counted == \A n \in Nat : IsFiniteSet(1 .. n) /\ Cardinality(1 .. n) = n
<1> SUFFICES ASSUME NEW n \in Nat PROVE IsFiniteSet(1 .. n) /\ Cardinality(1 .. n) = n
  OBVIOUS
<1>1. IsFiniteSet(1 .. n) /\ Cardinality(1 .. n) = IF 1 > n THEN 0 ELSE n - 1 + 1
  BY FS_Interval
<1> QED BY <1>1

\* What a new command is: at an address of its own.
LEMMA NewIsApart ==
  ASSUME EditorSized, LinesInv, Len(lines) < MaxLines
  PROVE  /\ Editor!NewCommand \in Editor!Commands
         /\ \A i \in 1 .. Len(lines) : lines[i].cmd # Editor!NewCommand.cmd
<1> DEFINE used == {lines[i].cmd : i \in DOMAIN lines}
           free == 1 .. MaxLines \ used
           cmds == [i \in 1 .. Len(lines) |-> lines[i].cmd]
<1>1. Len(lines) \in Nat /\ DOMAIN lines = 1 .. Len(lines) /\ MaxLines \in Nat
  BY DEF LinesInv, EditorSized
<1>2. free # {}
  <2> SUFFICES ASSUME free = {} PROVE FALSE
    OBVIOUS
  <2>1. cmds \in Surjection(1 .. Len(lines), used)
    BY <1>1 DEF Surjection
  <2>2. IsFiniteSet(1 .. Len(lines)) /\ Cardinality(1 .. Len(lines)) = Len(lines)
    BY <1>1, Counted
  <2>3. IsFiniteSet(used) /\ Cardinality(used) <= Len(lines)
    BY <2>1, <2>2, FS_Surjection
  <2>4. 1 .. MaxLines \in SUBSET used
    OBVIOUS
  <2>5. IsFiniteSet(1 .. MaxLines) /\ Cardinality(1 .. MaxLines) = MaxLines
    BY <1>1, Counted
  <2>6. Cardinality(1 .. MaxLines) <= Cardinality(used) /\ Cardinality(used) \in Nat
    BY <2>3, <2>4, FS_Subset, FS_CardinalityType
  <2> QED BY <1>1, <2>3, <2>5, <2>6
<1>3. \E x \in free : \A y \in free : x <= y
  <2>1. free \in SUBSET Nat
    BY <1>1
  <2> HIDE DEF free
  <2> QED BY <1>2, <2>1, Least
<1>4. Editor!Address \in free
  <2> HIDE DEF free
  <2>1. Editor!Address = Editor!Min(free)
    BY DEF Editor!Address, free
  <2> QED BY <1>3, <2>1 DEF Editor!Min
<1>5. Editor!NewCommand.cmd = Editor!Address /\ Editor!NewCommand.data = Editor!DelayZero
  BY DEF Editor!NewCommand
<1>6. Editor!NewCommand \in Editor!Commands
  BY <1>4, DelayIsData DEF Editor!NewCommand, Editor!Commands
<1> QED BY <1>1, <1>4, <1>5, <1>6

\* What a dialog or a table works on is the command at the cursor, and the copy of it is what the
\* user has made of it, but for the number of a field that is still in temp.
Held == tables # "none" \/ message = "WAIT" \/ Editor!ToWrite
CopyInv ==
  /\ message = "WAIT" <=> number # "none"
  /\ number # "none" => tables # "type"
  /\ Editor!ToWrite => tables = "none" /\ number = "none"
  /\ Held => copy.cmd = lines[line + 1].cmd
MadeInv ==
  ~twice =>
    /\ message = "WAIT" /\ tables = "none" => field = "x" /\ copy.data = wanted
    /\ message = "WAIT" /\ tables = "analog" =>
         field = row /\ wanted = [copy.data EXCEPT ![row] = temp]
    /\ (tables # "none" /\ message # "WAIT") \/ Editor!ToWrite => copy.data = wanted

EditorInv == Editor!TypeOK /\ LinesInv /\ CopyInv /\ MadeInv

\* The editor starts with one command, and no dialog.
LEMMA EditorInitInv == EditorSized /\ Editor!Init => EditorInv
<1> SUFFICES ASSUME EditorSized, Editor!Init PROVE EditorInv
  OBVIOUS
<1>1. LinesInv
  BY DelayIsData DEF Editor!Init, LinesInv, Apart, Editor!Commands, EditorSized
<1>2. Editor!TypeOK
  <2>1. /\ number = "none" /\ message = "PROC" /\ tables = "none" /\ row = "x" /\ field = "x"
        /\ update = FALSE /\ twice = FALSE /\ temp = 0 /\ wanted = Editor!DelayZero
        /\ copy = [cmd |-> 0, data |-> Editor!DelayZero]
    BY DEF Editor!Init
  <2>2. copy \in [cmd : 0 .. MaxLines, data : Editor!Data] /\ wanted \in Editor!Data
    BY <2>1, DelayIsData DEF EditorSized
  <2>3. /\ lines \in Seq(Editor!Commands) /\ Len(lines) \in 1 .. MaxLines
        /\ numberOfCmd \in 0 .. MaxLines - 1 /\ line \in 0 .. MaxLines
    BY <1>1 DEF LinesInv, EditorSized
  <2> QED BY <2>1, <2>2, <2>3 DEF Editor!TypeOK, EditorSized, Editor!Fields
<1>3. CopyInv /\ MadeInv
  BY DEF Editor!Init, CopyInv, MadeInv, Held, Editor!ToWrite
<1> QED BY <1>1, <1>2, <1>3 DEF EditorInv

\* Changing a command leaves it where it is.
LEMMA EditedCommand ==
  ASSUME NEW c \in Editor!Commands, NEW d \in Editor!Data
  PROVE  [c EXCEPT !.data = d] \in Editor!Commands /\ [c EXCEPT !.data = d].cmd = c.cmd
BY DEF Editor!Commands

\* Writing the copy back changes no address.
LEMMA WrittenKeeps ==
  ASSUME EditorSized, EditorInv
  PROVE  /\ Editor!Written \in Seq(Editor!Commands) /\ Len(Editor!Written) = Len(lines)
         /\ \A i \in 1 .. Len(lines) : Editor!Written[i].cmd = lines[i].cmd
         /\ Apart(Editor!Written)
<1>1. lines \in Seq(Editor!Commands) /\ DOMAIN lines = 1 .. Len(lines) /\ Apart(lines)
  BY DEF EditorInv, LinesInv
<1>2. copy.data \in Editor!Data
  BY DEF EditorInv, Editor!TypeOK
<1>3. \A i \in 1 .. Len(lines) : Editor!Written[i] \in Editor!Commands
        /\ Editor!Written[i].cmd = lines[i].cmd
  BY <1>1, <1>2, EditedCommand DEF Editor!Written
<1>4. Editor!Written \in Seq(Editor!Commands) /\ Len(Editor!Written) = Len(lines)
  BY <1>1, <1>3 DEF Editor!Written
<1> QED BY <1>1, <1>3, <1>4 DEF Apart

\* The list without a command, and with one more, as sequences.
LEMMA Removed ==
  ASSUME NEW s \in Seq(Editor!Commands), NEW p \in 1 .. Len(s)
  PROVE  /\ Editor!RemoveAt(s, p) \in Seq(Editor!Commands)
         /\ Len(Editor!RemoveAt(s, p)) = Len(s) - 1
         /\ Apart(s) => Apart(Editor!RemoveAt(s, p))
<1> DEFINE front == SubSeq(s, 1, p - 1)
           behind == SubSeq(s, p + 1, Len(s))
<1>1. /\ front \in Seq(Editor!Commands) /\ Len(front) = p - 1
      /\ \A i \in 1 .. p - 1 : front[i] = s[i]
  OBVIOUS
<1>2. /\ behind \in Seq(Editor!Commands) /\ Len(behind) = Len(s) - p
      /\ \A i \in 1 .. Len(s) - p : behind[i] = s[p + i]
  OBVIOUS
<1>3. Editor!RemoveAt(s, p) = front \o behind
  BY DEF Editor!RemoveAt
<1> HIDE DEF front, behind
<1>4. Editor!RemoveAt(s, p) \in Seq(Editor!Commands) /\ Len(Editor!RemoveAt(s, p)) = Len(s) - 1
  <2>1. front \o behind \in Seq(Editor!Commands) /\ Len(front \o behind) = Len(front) + Len(behind)
    BY <1>1, <1>2
  <2>2. (p - 1) + (Len(s) - p) = Len(s) - 1
    OBVIOUS
  <2> QED BY <1>1, <1>2, <1>3, <2>1, <2>2
<1>5. \A i \in 1 .. Len(s) - 1 : Editor!RemoveAt(s, p)[i] = IF i < p THEN s[i] ELSE s[i + 1]
  <2> SUFFICES ASSUME NEW i \in 1 .. Len(s) - 1
               PROVE  Editor!RemoveAt(s, p)[i] = IF i < p THEN s[i] ELSE s[i + 1]
    OBVIOUS
  <2>1. CASE i < p
    <3>1. i \in 1 .. p - 1 /\ i \in 1 .. Len(front)
      BY <1>1, <2>1
    <3>2. (front \o behind)[i] = front[i]
      <4>1. front \in Seq(Editor!Commands) /\ behind \in Seq(Editor!Commands) /\ i \in 1 .. Len(front)
        BY <1>1, <1>2, <3>1
      <4> QED BY ONLY <4>1
    <3>3. front[i] = s[i]
      BY <1>1, <3>1
    <3> QED BY <1>3, <2>1, <3>2, <3>3
  <2>2. CASE i >= p
    <3>1. /\ (i - p) + 1 \in 1 .. Len(s) - p /\ p + ((i - p) + 1) = i + 1
          /\ i \in Len(front) + 1 .. Len(front) + Len(behind) /\ i - Len(front) = (i - p) + 1
      BY <1>1, <1>2, <2>2
    <3>2. (front \o behind)[i] = behind[i - Len(front)]
      BY <1>1, <1>2, <3>1
    <3>3. behind[(i - p) + 1] = s[i + 1]
      <4>1. (i - p) + 1 \in 1 .. Len(s) - p /\ s[p + ((i - p) + 1)] = s[i + 1]
        BY <3>1
      <4> QED BY <1>2, <4>1
    <3>4. Editor!RemoveAt(s, p)[i] = s[i + 1]
      BY <1>3, <3>1, <3>2, <3>3
    <3> QED BY <2>2, <3>4
  <2> QED BY <2>1, <2>2
<1>6. ASSUME Apart(s) PROVE Apart(Editor!RemoveAt(s, p))
  <2> DEFINE t == Editor!RemoveAt(s, p)
             On(i) == IF i < p THEN i ELSE i + 1
  <2>1. Len(t) = Len(s) - 1
    BY <1>4
  <2>2. \A i \in 1 .. Len(s) - 1 : On(i) \in 1 .. Len(s) /\ t[i] = s[On(i)]
    BY <1>5
  <2>3. \A i, j \in 1 .. Len(s) - 1 : On(i) = On(j) => i = j
    OBVIOUS
  <2> HIDE DEF t, On
  <2>4. Apart(t)
    BY <1>6, <2>1, <2>2, <2>3 DEF Apart
  <2> QED BY <2>4 DEF t
<1> QED BY <1>4, <1>6

\* Two sequences together.
LEMMA Joined ==
  ASSUME NEW X, NEW s \in Seq(X), NEW t \in Seq(X)
  PROVE  s \o t \in Seq(X) /\ Len(s \o t) = Len(s) + Len(t)
  OBVIOUS

\* The list with one more, too.
LEMMA Inserted ==
  ASSUME NEW s \in Seq(Editor!Commands), NEW p \in 1 .. Len(s) + 1, NEW c \in Editor!Commands
  PROVE  /\ Editor!InsertAt(s, p, c) \in Seq(Editor!Commands)
         /\ Len(Editor!InsertAt(s, p, c)) = Len(s) + 1
         /\ Apart(s) /\ (\A i \in 1 .. Len(s) : s[i].cmd # c.cmd) => Apart(Editor!InsertAt(s, p, c))
<1> DEFINE front == SubSeq(s, 1, p - 1)
           behind == SubSeq(s, p, Len(s))
           first  == front \o <<c>>
<1>1. /\ front \in Seq(Editor!Commands) /\ Len(front) = p - 1
      /\ \A i \in 1 .. p - 1 : front[i] = s[i]
  OBVIOUS
<1>2. /\ behind \in Seq(Editor!Commands) /\ Len(behind) = (Len(s) - p) + 1
      /\ \A i \in 1 .. (Len(s) - p) + 1 : behind[i] = s[(p + i) - 1]
  OBVIOUS
<1>3. Editor!InsertAt(s, p, c) = first \o behind
  BY DEF Editor!InsertAt
<1> HIDE DEF front, behind
<1>4. /\ first \in Seq(Editor!Commands) /\ Len(first) = p
      /\ \A i \in 1 .. p : first[i] = IF i < p THEN s[i] ELSE c
  BY <1>1
<1> HIDE DEF first
<1>5. Editor!InsertAt(s, p, c) \in Seq(Editor!Commands)
        /\ Len(Editor!InsertAt(s, p, c)) = Len(s) + 1
  <2>1. /\ first \o behind \in Seq(Editor!Commands)
        /\ Len(first \o behind) = Len(first) + Len(behind)
    BY <1>2, <1>4, Joined
  <2>2. Len(first) + Len(behind) = Len(s) + 1
    BY <1>2, <1>4
  <2> QED BY <1>3, <2>1, <2>2
<1>6. \A i \in 1 .. Len(s) + 1 :
        Editor!InsertAt(s, p, c)[i] = IF i < p THEN s[i] ELSE IF i = p THEN c ELSE s[i - 1]
  <2> SUFFICES ASSUME NEW i \in 1 .. Len(s) + 1
               PROVE  Editor!InsertAt(s, p, c)[i] =
                        IF i < p THEN s[i] ELSE IF i = p THEN c ELSE s[i - 1]
    OBVIOUS
  <2>1. CASE i <= p
    <3>1. i \in 1 .. p /\ i \in 1 .. Len(first)
      BY <1>4, <2>1
    <3>2. (first \o behind)[i] = first[i]
      BY <1>2, <1>4, <3>1
    <3> QED BY <1>3, <1>4, <2>1, <3>1, <3>2
  <2>2. CASE i > p
    <3>1. /\ i - p \in 1 .. (Len(s) - p) + 1 /\ (p + (i - p)) - 1 = i - 1
          /\ i \in Len(first) + 1 .. Len(first) + Len(behind) /\ i - Len(first) = i - p
      BY <1>2, <1>4, <2>2
    <3>2. (first \o behind)[i] = behind[i - p]
      BY <1>2, <1>4, <3>1
    <3>3. behind[i - p] = s[i - 1]
      BY <1>2, <3>1
    <3> QED BY <1>3, <2>2, <3>2, <3>3
  <2> QED BY <2>1, <2>2
<1>7. ASSUME Apart(s), \A i \in 1 .. Len(s) : s[i].cmd # c.cmd
      PROVE  Apart(Editor!InsertAt(s, p, c))
  <2> DEFINE t == Editor!InsertAt(s, p, c)
             n == Len(s)
             Back(i) == IF i < p THEN i ELSE i - 1
  <2>1. /\ n \in Nat /\ p \in 1 .. n + 1 /\ Len(t) = n + 1
        /\ \A i \in 1 .. n + 1 : i # p => Back(i) \in 1 .. n /\ t[i] = s[Back(i)]
        /\ t[p] = c
    BY <1>5, <1>6
  <2>2. \A i, j \in 1 .. n + 1 : i # p /\ j # p /\ Back(i) = Back(j) => i = j
    BY <2>1
  <2> HIDE DEF t, n, Back
  <2>3. \A i, j \in 1 .. n : s[i].cmd = s[j].cmd => i = j
    BY <1>7 DEF Apart, n
  <2>4. \A i \in 1 .. n : s[i].cmd # c.cmd
    BY <1>7 DEF n
  <2>5. \A i, j \in 1 .. n + 1 : t[i].cmd = t[j].cmd => i = j
    <3> SUFFICES ASSUME NEW i \in 1 .. n + 1, NEW j \in 1 .. n + 1, t[i].cmd = t[j].cmd
                 PROVE  i = j
      OBVIOUS
    <3>1. CASE i # p /\ j # p
      <4>1. Back(i) \in 1 .. n /\ Back(j) \in 1 .. n /\ t[i] = s[Back(i)] /\ t[j] = s[Back(j)]
        BY <2>1, <3>1
      <4>2. Back(i) = Back(j)
        BY <2>3, <4>1
      <4> QED BY <2>2, <3>1, <4>2
    <3>2. CASE (i = p) # (j = p)
      <4>1. \A k \in 1 .. n + 1 : k # p => t[k].cmd # c.cmd
        BY <2>1, <2>4
      <4> QED BY <2>1, <3>2, <4>1
    <3> QED BY <3>1, <3>2
  <2> QED BY <2>1, <2>5 DEF Apart, t
<1> QED BY <1>5, <1>7

\* What all frames that begin with a line selected have in common: nothing is to be written
\* after them, and no dialog is open.
LEMMA IdleFrame ==
  ASSUME EditorSized, EditorInv, Editor!Idle, Editor!NoDialog, Editor!Turned(FALSE),
         Editor!IdleRest, Editor!Copied,
         LinesInv', UNCHANGED tables
  PROVE  EditorInv'
<1>1. /\ number = "none" /\ number' = "none" /\ field' = "x" /\ message' = "PROC"
      /\ temp' = 0 /\ row' = "x" /\ twice' = FALSE /\ update' = FALSE /\ tables' = "none"
  BY DEF Editor!NoDialog, Editor!Turned, Editor!Idle, Editor!IdleRest
<1>2. Editor!Current \in Editor!Commands
  BY WrittenKeeps DEF Editor!Current, EditorInv, LinesInv
<1>3. /\ copy' \in [cmd : 0 .. MaxLines, data : Editor!Data] /\ wanted' \in Editor!Data
  BY <1>2 DEF Editor!Copied, Editor!Commands, EditorSized
<1>4. Editor!TypeOK'
  <2>1. /\ lines' \in Seq(Editor!Commands) /\ Len(lines') \in 1 .. MaxLines
        /\ numberOfCmd' \in 0 .. MaxLines - 1 /\ line' \in 0 .. MaxLines
    BY DEF LinesInv, EditorSized
  <2> QED BY <1>1, <1>3, <2>1 DEF Editor!TypeOK, EditorSized, Editor!Fields
<1>5. CopyInv' /\ MadeInv'
  BY <1>1 DEF CopyInv, MadeInv, Held, Editor!ToWrite
<1> QED BY <1>4, <1>5 DEF EditorInv

\* Lines that are only written keep their addresses.
LEMMA WrittenLines ==
  ASSUME EditorSized, EditorInv, lines' = Editor!Written, UNCHANGED numberOfCmd,
         line' \in 0 .. numberOfCmd
  PROVE  LinesInv' /\ \A i \in 1 .. Len(lines) : lines'[i].cmd = lines[i].cmd
BY WrittenKeeps DEF EditorInv, LinesInv

\* The cursor moves among the lines that there are.
LEMMA EditorMove ==
  ASSUME EditorSized, EditorInv, Editor!Move
  PROVE  EditorInv'
<1>1. line' \in 0 .. numberOfCmd
  BY DEF Editor!Move, EditorInv, LinesInv, EditorSized
<1>2. LinesInv'
  BY <1>1, WrittenLines DEF Editor!Move
<1> QED BY <1>2, IdleFrame DEF Editor!Move

\* A line goes and the cursor stays on one, as the last is never deleted.
LEMMA EditorDelete ==
  ASSUME EditorSized, EditorInv, Editor!Delete
  PROVE  EditorInv'
<1>0. /\ numberOfCmd = Len(lines) - 1 /\ line \in 0 .. numberOfCmd /\ MaxLines \in Nat
      /\ Len(lines) \in 1 .. MaxLines /\ line + 1 \in 1 .. Len(Editor!Written)
  BY WrittenKeeps DEF EditorInv, LinesInv, EditorSized
<1>1. LinesInv'
  <2>1. CASE numberOfCmd = 0
    <3>1. lines' = [Editor!Written EXCEPT ![line + 1].data = Editor!DelayZero]
          /\ UNCHANGED <<numberOfCmd, line>>
      BY <2>1 DEF Editor!Delete
    <3>2. lines' = [i \in 1 .. Len(lines) |->
                      IF i = line + 1 THEN [Editor!Written[i] EXCEPT !.data = Editor!DelayZero]
                      ELSE Editor!Written[i]]
      <4> DEFINE w == Editor!Written
      <4>1. DOMAIN w = 1 .. Len(lines)
        BY WrittenKeeps
      <4>2. lines' = [w EXCEPT ![line + 1].data = Editor!DelayZero]
        BY <3>1
      <4> HIDE DEF w
      <4>3. lines' = [i \in 1 .. Len(lines) |->
                       IF i = line + 1 THEN [w[i] EXCEPT !.data = Editor!DelayZero] ELSE w[i]]
        BY <4>1, <4>2
      <4> QED BY <4>3 DEF w
    <3>3. \A i \in 1 .. Len(lines) : lines'[i] \in Editor!Commands /\ lines'[i].cmd = lines[i].cmd
      BY <3>2, WrittenKeeps, EditedCommand, DelayIsData
    <3>5. lines' \in Seq(Editor!Commands) /\ Len(lines') = Len(lines)
      <4>1. Len(lines) \in Nat
        BY <1>0
      <4>2. lines' \in [1 .. Len(lines) -> Editor!Commands]
        <5>1. DOMAIN lines' = 1 .. Len(lines) /\ lines' = [i \in DOMAIN lines' |-> lines'[i]]
          BY <3>2
        <5> QED BY <3>3, <5>1
      <4> QED BY <4>1, <4>2
    <3>4. Apart(lines')
      BY <3>3, <3>5 DEF Apart, EditorInv, LinesInv
    <3> QED BY <1>0, <3>1, <3>5, <3>4 DEF LinesInv
  <2>2. CASE numberOfCmd # 0
    <3>1. lines' = Editor!RemoveAt(Editor!Written, line + 1) /\ numberOfCmd' = numberOfCmd - 1
          /\ line' = Editor!InRange(line, numberOfCmd')
      BY <2>2 DEF Editor!Delete
    <3>2. lines' \in Seq(Editor!Commands) /\ Len(lines') = Len(lines) - 1 /\ Apart(lines')
      BY <1>0, <3>1, WrittenKeeps, Removed
    <3>3. line' \in 0 .. numberOfCmd'
      BY <1>0, <2>2, <3>1 DEF Editor!InRange
    <3>4. Len(lines') \in 1 .. MaxLines /\ numberOfCmd' = Len(lines') - 1
      BY <1>0, <2>2, <3>1, <3>2
    <3> QED BY <3>2, <3>3, <3>4 DEF LinesInv
  <2> QED BY <2>1, <2>2
<1> QED BY <1>1, IdleFrame DEF Editor!Delete

\* A new line has an address of its own.
LEMMA EditorInsert ==
  ASSUME EditorSized, EditorInv, Editor!InsertBefore \/ Editor!InsertAfter
  PROVE  EditorInv'
<1>0. /\ numberOfCmd = Len(lines) - 1 /\ line \in 0 .. numberOfCmd /\ MaxLines \in Nat
      /\ Len(lines) \in 1 .. MaxLines /\ Len(lines) < MaxLines /\ numberOfCmd' = numberOfCmd + 1
  BY DEF EditorInv, LinesInv, EditorSized, Editor!InsertBefore, Editor!InsertAfter
<1>1. PICK p \in {line + 1, line + 2} :
        lines' = Editor!InsertAt(Editor!Written, p, Editor!NewCommand) /\ line' \in {line, line + 1}
  BY DEF Editor!InsertBefore, Editor!InsertAfter
<1>2. p \in 1 .. Len(Editor!Written) + 1
  BY <1>0, <1>1, WrittenKeeps
<1>3. Editor!NewCommand \in Editor!Commands
        /\ \A i \in 1 .. Len(lines) : Editor!Written[i].cmd # Editor!NewCommand.cmd
  BY <1>0, NewIsApart, WrittenKeeps DEF EditorInv
<1>4. lines' \in Seq(Editor!Commands) /\ Len(lines') = Len(lines) + 1 /\ Apart(lines')
  BY <1>1, <1>2, <1>3, WrittenKeeps, Inserted
<1>5. LinesInv'
  BY <1>0, <1>1, <1>4 DEF LinesInv
<1> QED BY <1>5, IdleFrame DEF Editor!InsertBefore, Editor!InsertAfter


\* A dialog or a table is opened with a copy of the command at the cursor.
LEMMA EditorEdit ==
  ASSUME EditorSized, EditorInv, Editor!Edit
  PROVE  EditorInv'
<1>1. LinesInv' /\ \A i \in 1 .. Len(lines) : lines'[i].cmd = lines[i].cmd
  BY WrittenLines DEF Editor!Edit, EditorInv, LinesInv
<1>2. CASE Editor!NoDialog /\ Editor!Turned(FALSE) /\ UNCHANGED tables
  BY <1>1, <1>2, IdleFrame DEF Editor!Edit
<1>3. Editor!Current \in Editor!Commands /\ line' = line /\ lines'[line' + 1] = Editor!Current
  BY WrittenKeeps DEF Editor!Current, EditorInv, LinesInv, Editor!Edit
<1>4. /\ copy' = Editor!Current /\ wanted' = copy'.data
      /\ copy' \in [cmd : 0 .. MaxLines, data : Editor!Data] /\ wanted' \in Editor!Data
      /\ copy'.cmd = lines'[line' + 1].cmd
  BY <1>3 DEF Editor!Edit, Editor!Copied, Editor!Commands, EditorSized
<1>5. number = "none" /\ message # "WAIT" /\ tables = "none"
  BY DEF Editor!Edit, Editor!Idle, EditorInv, CopyInv
<1>6. temp' = 0 /\ row' = "x" /\ twice' = FALSE /\ update' = FALSE
  BY DEF Editor!Edit, Editor!IdleRest
<1>7. /\ field' = "x" \/ (field' = field /\ number' = "none")
      /\ \/ number' = "on" /\ message' = "WAIT" /\ tables' = "none" /\ field' = "x"
         \/ number' = "none" /\ message' = "PROC" /\ tables' \in {"none", "type", "analog"}
  BY <1>5 DEF Editor!Edit, Editor!OpenDialog, Editor!NoDialog, Editor!Turned
<1>8. Editor!TypeOK'
  <2>1. /\ lines' \in Seq(Editor!Commands) /\ Len(lines') \in 1 .. MaxLines
        /\ numberOfCmd' \in 0 .. MaxLines - 1 /\ line' \in 0 .. MaxLines
    BY <1>1 DEF LinesInv, EditorSized
  <2>2. field \in Editor!Fields
    BY DEF EditorInv, Editor!TypeOK
  <2> QED BY <1>4, <1>6, <1>7, <2>1, <2>2 DEF Editor!TypeOK, EditorSized, Editor!Fields
<1>9. CopyInv' /\ MadeInv'
  BY <1>4, <1>6, <1>7 DEF CopyInv, MadeInv, Held, Editor!ToWrite
<1> QED BY <1>1, <1>8, <1>9 DEF EditorInv

\* The editor is left, and entered again at the first line.
LEMMA EditorLeave ==
  ASSUME EditorSized, EditorInv, Editor!Leave
  PROVE  EditorInv'
<1>1. /\ lines' = Editor!Written /\ UNCHANGED numberOfCmd /\ line' = 0
  BY WrittenKeeps DEF Editor!Leave, EditorInv, LinesInv
<1>2. LinesInv'
  BY <1>1, WrittenLines DEF EditorInv, LinesInv
<1>3. /\ copy' = [cmd |-> 0, data |-> Editor!DelayZero] /\ wanted' = Editor!DelayZero
      /\ tables' = "none" /\ message' = "PROC" /\ number' = "none" /\ field' = "x"
      /\ temp' = 0 /\ row' = "x" /\ twice' = FALSE /\ update' = FALSE
  BY DEF Editor!Leave, Editor!NoDialog, Editor!IdleRest
<1>4. copy' \in [cmd : 0 .. MaxLines, data : Editor!Data] /\ wanted' \in Editor!Data
  BY <1>3, DelayIsData DEF EditorSized
<1>5. Editor!TypeOK'
  <2>1. /\ lines' \in Seq(Editor!Commands) /\ Len(lines') \in 1 .. MaxLines
        /\ numberOfCmd' \in 0 .. MaxLines - 1 /\ line' \in 0 .. MaxLines
    BY <1>2 DEF LinesInv, EditorSized
  <2> QED BY <1>3, <1>4, <2>1 DEF Editor!TypeOK, EditorSized, Editor!Fields
<1>6. CopyInv' /\ MadeInv'
  BY <1>3 DEF CopyInv, MadeInv, Held, Editor!ToWrite
<1> QED BY <1>2, <1>5, <1>6 DEF EditorInv

\* What frames of a dialog or a table leave alone: the lines' addresses and the cursor.
LEMMA HeldFrame ==
  ASSUME EditorSized, EditorInv, lines' = Editor!Written, UNCHANGED <<numberOfCmd, line>>,
         UNCHANGED copy \/ copy'.cmd = copy.cmd
  PROVE  /\ LinesInv' /\ (Held => copy'.cmd = lines'[line' + 1].cmd)
         /\ lines' \in Seq(Editor!Commands) /\ Len(lines') \in 1 .. MaxLines
         /\ numberOfCmd' \in 0 .. MaxLines - 1 /\ line' \in 0 .. MaxLines
<1>1. line \in 0 .. numberOfCmd /\ numberOfCmd = Len(lines) - 1 /\ Len(lines) \in 1 .. MaxLines
  BY DEF EditorInv, LinesInv
<1>2. LinesInv' /\ \A i \in 1 .. Len(lines) : lines'[i].cmd = lines[i].cmd
  BY <1>1, WrittenLines
<1>3. Held => copy'.cmd = lines'[line' + 1].cmd
  BY <1>1, <1>2 DEF EditorInv, CopyInv
<1> QED BY <1>2, <1>3 DEF LinesInv, EditorSized

\* A frame of the dialog changes its number alone.
LEMMA EditorDialogFrame ==
  ASSUME EditorSized, EditorInv, Editor!DialogFrame
  PROVE  EditorInv'
<1>1. /\ number = "on" /\ message = "WAIT" /\ tables # "type" /\ message' = "WAIT"
      /\ number' \in {"on", "over"} /\ update' = FALSE
      /\ lines' = Editor!Written /\ UNCHANGED <<numberOfCmd, line, tables, row, field, twice>>
  BY DEF Editor!DialogFrame, Editor!Turned, EditorInv, CopyInv
<1>0. /\ copy \in [cmd : 0 .. MaxLines, data : Editor!Data] /\ wanted \in Editor!Data
      /\ temp \in Numbers
      /\ field \in Editor!Fields /\ tables \in {"none", "type", "analog"} /\ row \in Editor!Fields
      /\ twice \in BOOLEAN
  BY DEF EditorInv, Editor!TypeOK
<1>2. \/ UNCHANGED <<copy, temp, wanted>>
      \/ \E v \in Numbers : Editor!Result(v)
  BY DEF Editor!DialogFrame
<1>3. /\ copy' \in [cmd : 0 .. MaxLines, data : Editor!Data] /\ copy'.cmd = copy.cmd
      /\ wanted' \in Editor!Data /\ temp' \in Numbers
  BY <1>0, <1>2 DEF Editor!Result, Editor!Data, Editor!Fields
<1>4. ~twice /\ tables = "none" => field = "x" /\ copy'.data = wanted'
  BY <1>0, <1>1, <1>2 DEF EditorInv, MadeInv, Editor!Result, Editor!Data
<1>5. ~twice /\ tables = "analog" => field = row /\ wanted' = [copy'.data EXCEPT ![row] = temp']
  BY <1>0, <1>1, <1>2 DEF EditorInv, MadeInv, Editor!Result, Editor!Data, Editor!Fields
<1>6. Held
  BY <1>1 DEF Held
<1>7. /\ LinesInv' /\ copy'.cmd = lines'[line' + 1].cmd
      /\ lines' \in Seq(Editor!Commands) /\ Len(lines') \in 1 .. MaxLines
      /\ numberOfCmd' \in 0 .. MaxLines - 1 /\ line' \in 0 .. MaxLines
  BY <1>1, <1>3, <1>6, HeldFrame
<1>8. Editor!TypeOK'
  BY <1>0, <1>1, <1>3, <1>7 DEF Editor!TypeOK
<1>9. CopyInv'
  BY <1>1, <1>7 DEF CopyInv, Editor!ToWrite
<1>10. MadeInv'
  BY <1>1, <1>4, <1>5 DEF MadeInv, Editor!ToWrite
<1> QED BY <1>7, <1>8, <1>9, <1>10 DEF EditorInv

\* The dialog is over, and the copy is written to the command at the cursor.
LEMMA EditorDialogOver ==
  ASSUME EditorSized, EditorInv, Editor!DialogOver
  PROVE  EditorInv'
<1>1. /\ number = "over" /\ message = "WAIT" /\ tables = "none" /\ message' = "CONTINUE"
      /\ number' = "none" /\ update' = FALSE /\ lines' = Editor!Written
      /\ UNCHANGED <<numberOfCmd, line, copy, temp, tables, row, wanted, field, twice>>
  BY DEF Editor!DialogOver, Editor!Turned, EditorInv, CopyInv
<1>2. Held
  BY <1>1 DEF Held
<1>3. /\ LinesInv' /\ copy'.cmd = lines'[line' + 1].cmd
      /\ lines' \in Seq(Editor!Commands) /\ Len(lines') \in 1 .. MaxLines
      /\ numberOfCmd' \in 0 .. MaxLines - 1 /\ line' \in 0 .. MaxLines
  BY <1>1, <1>2, HeldFrame
<1>4. Editor!TypeOK'
  BY <1>1, <1>3 DEF Editor!TypeOK, EditorInv
<1>5. CopyInv'
  BY <1>1, <1>3 DEF CopyInv, Editor!ToWrite
<1>6. MadeInv'
  BY <1>1 DEF MadeInv, Editor!ToWrite, EditorInv
<1> QED BY <1>3, <1>4, <1>5, <1>6 DEF EditorInv

\* The table of types makes the command another one.
LEMMA EditorSetType ==
  ASSUME EditorSized, EditorInv, Editor!SetType
  PROVE  EditorInv'
<1>1. /\ number = "none" /\ tables = "type" /\ tables' = "none" /\ message' = "PROC"
      /\ lines' = Editor!Written
      /\ UNCHANGED <<numberOfCmd, line, temp, row, number, field, twice>>
  BY DEF Editor!SetType, Editor!InTable, Editor!TurnedBack
<1>2. PICK action \in Editor!Actions :
        IF action # copy.data.action
        THEN /\ copy' = [copy EXCEPT !.data = Editor!Fresh(action)] /\ update' = TRUE
             /\ wanted' = Editor!Fresh(action)
        ELSE UNCHANGED <<copy, wanted>> /\ update' = FALSE
  BY DEF Editor!SetType
<1>3. copy \in [cmd : 0 .. MaxLines, data : Editor!Data] /\ wanted \in Editor!Data
  BY DEF EditorInv, Editor!TypeOK
<1>4. Editor!Fresh(action) \in Editor!Data
  BY FreshIsData
<1>5. /\ copy' \in [cmd : 0 .. MaxLines, data : Editor!Data] /\ copy'.cmd = copy.cmd
      /\ wanted' \in Editor!Data /\ update' \in BOOLEAN /\ (update' => copy'.data = wanted')
  <2>1. CASE action # copy.data.action
    BY <1>2, <1>3, <1>4, <2>1
  <2>2. CASE action = copy.data.action
    BY <1>2, <1>3, <2>2
  <2> QED BY <2>1, <2>2
<1>6. Held
  BY <1>1 DEF Held
<1>7. /\ LinesInv' /\ copy'.cmd = lines'[line' + 1].cmd
      /\ lines' \in Seq(Editor!Commands) /\ Len(lines') \in 1 .. MaxLines
      /\ numberOfCmd' \in 0 .. MaxLines - 1 /\ line' \in 0 .. MaxLines
  BY <1>1, <1>5, <1>6, HeldFrame
<1>8. Editor!TypeOK'
  BY <1>1, <1>5, <1>7 DEF Editor!TypeOK, EditorInv
<1>9. CopyInv' /\ MadeInv'
  BY <1>1, <1>5, <1>7 DEF CopyInv, MadeInv, Editor!ToWrite
<1> QED BY <1>7, <1>8, <1>9 DEF EditorInv

\* A table opens the dialog for one of its numbers.
LEMMA EditorEditField ==
  ASSUME EditorSized, EditorInv, Editor!EditField
  PROVE  EditorInv'
<1>1. /\ tables = "analog" /\ number = "none" /\ message # "WAIT" /\ update' = FALSE
      /\ lines' = Editor!Written /\ UNCHANGED <<numberOfCmd, line, copy, wanted>>
      /\ temp' = copy.data[row]
  BY DEF Editor!EditField, Editor!InTable, Editor!OpenDialog, EditorInv, CopyInv
<1>2. \/ number' = "on" /\ field' = row /\ message' = "WAIT"
      \/ number' = "none" /\ field' = field /\ message' = "PROC"
  BY <1>1 DEF Editor!EditField, Editor!OpenDialog, Editor!Turned
<1>3. \/ UNCHANGED <<row, tables, twice>>
      \/ row' \in Editor!Fields /\ twice' = TRUE /\ tables' \in {"analog", "none"}
  BY <1>1 DEF Editor!EditField, EditorInv, Editor!TypeOK
<1>4. /\ copy \in [cmd : 0 .. MaxLines, data : Editor!Data] /\ wanted \in Editor!Data
      /\ field \in Editor!Fields /\ row \in Editor!Fields /\ twice \in BOOLEAN
  BY DEF EditorInv, Editor!TypeOK
<1>5. temp' \in Numbers /\ [copy.data EXCEPT ![row] = temp'] = copy.data
  BY <1>1, <1>4 DEF Editor!Data, Editor!Fields
<1>6. ~twice => copy.data = wanted
  BY <1>1 DEF EditorInv, MadeInv
<1>7. Held
  BY <1>1 DEF Held
<1>8. /\ LinesInv' /\ copy'.cmd = lines'[line' + 1].cmd
      /\ lines' \in Seq(Editor!Commands) /\ Len(lines') \in 1 .. MaxLines
      /\ numberOfCmd' \in 0 .. MaxLines - 1 /\ line' \in 0 .. MaxLines
  BY <1>1, <1>7, HeldFrame
<1>9. Editor!TypeOK'
  BY <1>1, <1>2, <1>3, <1>4, <1>5, <1>8 DEF Editor!TypeOK
<1>10. CopyInv'
  BY <1>1, <1>2, <1>3, <1>8 DEF CopyInv, Editor!ToWrite
<1>11. MadeInv'
  BY <1>1, <1>2, <1>3, <1>5, <1>6 DEF MadeInv, Editor!ToWrite
<1> QED BY <1>8, <1>9, <1>10, <1>11 DEF EditorInv

\* The dialog is over, and its number is put into the copy.
LEMMA EditorFieldDone ==
  ASSUME EditorSized, EditorInv, Editor!FieldDone
  PROVE  EditorInv'
<1>1. /\ tables = "analog" /\ number = "over" /\ message = "WAIT" /\ update' = TRUE
      /\ lines' = Editor!Written /\ copy' = [copy EXCEPT !.data[row] = temp]
      /\ number' = "none" /\ tables' = "none" /\ message' = "PROC"
      /\ UNCHANGED <<numberOfCmd, line, temp, row, wanted, field, twice>>
  BY DEF Editor!FieldDone, Editor!InTable, Editor!TurnedBack, EditorInv, CopyInv
<1>2. /\ copy \in [cmd : 0 .. MaxLines, data : Editor!Data] /\ row \in Editor!Fields
      /\ temp \in Numbers
  BY DEF EditorInv, Editor!TypeOK
<1>3. /\ copy' \in [cmd : 0 .. MaxLines, data : Editor!Data] /\ copy'.cmd = copy.cmd
      /\ copy'.data = [copy.data EXCEPT ![row] = temp]
  BY <1>1, <1>2 DEF Editor!Data, Editor!Fields
<1>4. ~twice => wanted = [copy.data EXCEPT ![row] = temp]
  BY <1>1 DEF EditorInv, MadeInv
<1>5. Held
  BY <1>1 DEF Held
<1>6. /\ LinesInv' /\ copy'.cmd = lines'[line' + 1].cmd
      /\ lines' \in Seq(Editor!Commands) /\ Len(lines') \in 1 .. MaxLines
      /\ numberOfCmd' \in 0 .. MaxLines - 1 /\ line' \in 0 .. MaxLines
  BY <1>1, <1>3, <1>5, HeldFrame
<1>7. Editor!TypeOK'
  BY <1>1, <1>3, <1>6 DEF Editor!TypeOK, EditorInv
<1>8. CopyInv' /\ MadeInv'
  BY <1>1, <1>3, <1>4, <1>6 DEF CopyInv, MadeInv, Editor!ToWrite
<1> QED BY <1>6, <1>7, <1>8 DEF EditorInv

\* Another row of the table is chosen, or the table is left.
LEMMA EditorTableMove ==
  ASSUME EditorSized, EditorInv, Editor!TableMove
  PROVE  EditorInv'
<1>1. /\ tables # "none" /\ number = "none" /\ number' = "none" /\ message # "WAIT"
      /\ message' = "PROC" /\ update' = FALSE /\ field' = "x" /\ lines' = Editor!Written
      /\ UNCHANGED <<numberOfCmd, line, copy, temp, wanted, twice>>
  BY DEF Editor!TableMove, Editor!NoDialog, Editor!Turned, EditorInv, CopyInv
<1>2. row' \in Editor!Fields /\ tables' \in {tables, "none"}
  BY DEF Editor!TableMove, EditorInv, Editor!TypeOK
<1>3. ~twice => copy.data = wanted
  BY <1>1 DEF EditorInv, MadeInv
<1>4. Held
  BY <1>1 DEF Held
<1>5. /\ LinesInv' /\ copy'.cmd = lines'[line' + 1].cmd
      /\ lines' \in Seq(Editor!Commands) /\ Len(lines') \in 1 .. MaxLines
      /\ numberOfCmd' \in 0 .. MaxLines - 1 /\ line' \in 0 .. MaxLines
  BY <1>1, <1>4, HeldFrame
<1>6. Editor!TypeOK'
  BY <1>1, <1>2, <1>5 DEF Editor!TypeOK, EditorInv, Editor!Fields
<1>7. CopyInv' /\ MadeInv'
  BY <1>1, <1>2, <1>3, <1>5 DEF CopyInv, MadeInv, Editor!ToWrite
<1> QED BY <1>5, <1>6, <1>7 DEF EditorInv

\* The invariant, for macros of any length.
THEOREM EditorInvariant == ASSUME EditorSized PROVE Editor!Spec => []EditorInv
<1>1. EditorInv /\ [Editor!Next]_(Editor!vars) => EditorInv'
  <2> SUFFICES ASSUME EditorInv, [Editor!Next]_(Editor!vars) PROVE EditorInv'
    OBVIOUS
  <2>1. CASE UNCHANGED Editor!vars
    <3>1. UNCHANGED <<lines, numberOfCmd, line, copy, temp, tables, row, message, update, number,
                      wanted, field, twice>>
      BY <2>1 DEF Editor!vars
    <3> QED BY <3>1
            DEF EditorInv, LinesInv, Apart, CopyInv, MadeInv, Held, Editor!ToWrite, Editor!TypeOK
  <2> QED BY <2>1, EditorMove, EditorEdit, EditorDelete, EditorInsert, EditorLeave,
             EditorDialogFrame, EditorDialogOver, EditorSetType, EditorEditField,
             EditorFieldDone, EditorTableMove DEF Editor!Next
<1> QED BY <1>1, EditorInitInv, PTL DEF Editor!Spec

\* The cursor, the copy of a command and the number in the dialog have their types, and the list
\* never grows beyond its bound.
THEOREM EditorTypeCorrect == ASSUME EditorSized PROVE Editor!Spec => []Editor!TypeOK
<1> QED BY EditorInvariant, PTL DEF EditorInv

\* What macroeditor.c's dialogs and tables change is the command under the cursor, as the user had
\* it, and no other one, for a list of any length with half pages of any size: the copy that is
\* written back is of the command that it is written to.
THEOREM EditLandsCorrect == ASSUME EditorSized PROVE Editor!Spec => []EditLands
<1>1. EditorInv => EditLands
  BY DEF EditorInv, LinesInv, CopyInv, MadeInv, Held, Editor!EditLands, EditLands
<1> QED BY <1>1, EditorInvariant, PTL

-----------------------------------------------------------------------------
(* Padctrl: key repeat, for any buttons and delays. *)

\* No button is of both kinds, and there is some time between repetitions.
Repeating ==
  NormalButtons \cap Toggles = {} /\ StartDelay \in Nat \ {0} /\ NextDelay \in Nat \ {0}

\* The time since the last report goes with the time since what is pressed changed, up to the
\* second repetition.
InTime ==
  /\ ~doRepeat => idle = steady /\ steady < StartDelay
  /\ doRepeat => /\ StartDelay <= steady
                 /\ steady < Padctrl!Long => idle = steady - StartDelay

\* Until the normal buttons change after a reset they are those of the reset, which were not
\* reported; from then on what is pressed was reported when it changed.
PadInv ==
  /\ Padctrl!TypeOK
  /\ ~blank => pressedNow # {}
  /\ ~blank /\ fresh => /\ prePressed = pressedNow \cap NormalButtons
                        /\ lastPad \cap NormalButtons \in {pressedNow \cap NormalButtons, {}}
  /\ ~blank /\ ~fresh => /\ prePressed = {} /\ lastPad = pressedNow
                         /\ pressedNow \cap NormalButtons # {} => InTime

\* The first reading is a reset.
LEMMA PadInitInv == Repeating /\ Padctrl!Init => PadInv
<1> SUFFICES ASSUME Repeating, Padctrl!Init PROVE PadInv
  OBVIOUS
<1>1. Padctrl!Long \in Nat /\ idle = Padctrl!Long + 1 /\ steady = 0
  BY DEF Repeating, Padctrl!Long, Padctrl!Init
<1>2. /\ doRepeat = FALSE /\ fresh = TRUE /\ blank = (pressedNow = {}) /\ reported = {}
      /\ pressedNow \in SUBSET Padctrl!Buttons /\ before = pressedNow /\ lastPad = pressedNow
      /\ prePressed = pressedNow \cap NormalButtons
  BY DEF Padctrl!Init
<1>3. blank \in BOOLEAN
  BY <1>2, Zenon
<1>4. idle \in 0 .. Padctrl!Long + 1 /\ steady \in 0 .. Padctrl!Long + 1
  BY <1>1
<1>5. Padctrl!TypeOK
  BY <1>2, <1>3, <1>4, Zenon DEF Padctrl!TypeOK
<1> QED BY <1>2, <1>5 DEF PadInv

\* What a frame's reading does, by what is pressed.
LEMMA PadReads ==
  ASSUME Repeating, PadInv, NEW real \in SUBSET Padctrl!Buttons, Padctrl!Peek(real)
  PROVE  LET pad   == Padctrl!Unpressed(real)
             delay == IF doRepeat THEN NextDelay ELSE StartDelay
             spent == Padctrl!Capped(idle)
         IN  /\ prePressed' = IF prePressed = real \cap NormalButtons THEN prePressed ELSE {}
             /\ \/ /\ pad = {} /\ reported' = {} /\ idle' = spent
                   /\ UNCHANGED <<lastPad, doRepeat>>
                \/ /\ pad # {} /\ pad # lastPad /\ reported' = pad /\ idle' = 0 /\ lastPad' = pad
                   /\ doRepeat' = FALSE
                \/ /\ pad # {} /\ pad = lastPad /\ spent >= delay /\ reported' = pad \cap Repeat
                   /\ idle' = 0 /\ doRepeat' = TRUE /\ UNCHANGED lastPad
                \/ /\ pad # {} /\ pad = lastPad /\ ~(spent >= delay)
                   /\ reported' = pad \cap Toggles /\ idle' = spent
                   /\ UNCHANGED <<lastPad, doRepeat>>
BY DEF Padctrl!Peek, Padctrl!Proc

\* The counts of frames, which stop one beyond the second repetition.
LEMMA PadTimes ==
  ASSUME Repeating, PadInv, NEW real \in SUBSET Padctrl!Buttons, Padctrl!Peek(real)
  PROVE  /\ Padctrl!Long = StartDelay + NextDelay /\ Padctrl!Long \in Nat
         /\ idle \in 0 .. Padctrl!Long + 1 /\ steady \in 0 .. Padctrl!Long + 1
         /\ Padctrl!Capped(idle) = IF idle <= Padctrl!Long THEN idle + 1 ELSE idle
         /\ steady' = IF real = pressedNow THEN Padctrl!Capped(steady) ELSE 0
         /\ Padctrl!Capped(steady) = IF steady <= Padctrl!Long THEN steady + 1 ELSE steady
         /\ idle' \in 0 .. Padctrl!Long + 1 /\ steady' \in 0 .. Padctrl!Long + 1
<1>1. Padctrl!Long = StartDelay + NextDelay /\ Padctrl!Long \in Nat
  BY DEF Repeating, Padctrl!Long
<1>2. idle \in 0 .. Padctrl!Long + 1 /\ steady \in 0 .. Padctrl!Long + 1
  BY DEF PadInv, Padctrl!TypeOK
<1>3. /\ Padctrl!Capped(idle) = IF idle <= Padctrl!Long THEN idle + 1 ELSE idle
      /\ Padctrl!Capped(steady) = IF steady <= Padctrl!Long THEN steady + 1 ELSE steady
  BY DEF Padctrl!Capped
<1>4. idle' = Padctrl!Capped(idle) \/ idle' = 0
  BY PadReads
<1>5. steady' = IF real = pressedNow THEN Padctrl!Capped(steady) ELSE 0
  BY DEF Padctrl!Peek
<1> QED BY <1>1, <1>2, <1>3, <1>4, <1>5

\* What a reading of the pad leaves behind is typed, and the history is of this reading.
LEMMA PadTyped ==
  ASSUME Repeating, PadInv, NEW real \in SUBSET Padctrl!Buttons, Padctrl!Peek(real)
  PROVE  /\ Padctrl!TypeOK' /\ pressedNow' = real
         /\ fresh' = (fresh /\ real \cap NormalButtons = pressedNow \cap NormalButtons)
         /\ blank' = (blank \/ real = {})
<1>1. /\ pressedNow' = real /\ before' = pressedNow
      /\ fresh' = (fresh /\ real \cap NormalButtons = pressedNow \cap NormalButtons)
      /\ blank' = (blank \/ real = {})
  BY DEF Padctrl!Peek
<1>2. idle' \in 0 .. Padctrl!Long + 1 /\ steady' \in 0 .. Padctrl!Long + 1
  BY PadTimes
<1>3. /\ lastPad \subseteq Padctrl!Buttons /\ prePressed \subseteq NormalButtons
      /\ doRepeat \in BOOLEAN
      /\ fresh \in BOOLEAN /\ blank \in BOOLEAN /\ pressedNow \subseteq Padctrl!Buttons
  BY DEF PadInv, Padctrl!TypeOK
<1>4. Padctrl!Unpressed(real) \subseteq real
  BY DEF Padctrl!Unpressed
<1>5. /\ lastPad' \subseteq Padctrl!Buttons /\ prePressed' \subseteq NormalButtons
      /\ reported' \subseteq Padctrl!Buttons
  BY <1>3, <1>4, PadReads, Zenon
<1>6. doRepeat' \in BOOLEAN
  BY <1>3, PadReads, Zenon
<1>7. fresh' \in BOOLEAN /\ blank' \in BOOLEAN
  BY <1>1, Zenon
<1> QED BY <1>1, <1>2, <1>3, <1>5, <1>6, <1>7 DEF Padctrl!TypeOK

\* A frame after a reset with the buttons of the reset: none of them is reported.
LEMMA PadFreshFrame ==
  ASSUME Repeating, PadInv, NEW real \in SUBSET Padctrl!Buttons, Padctrl!Peek(real), ~blank,
         real # {}, fresh, real \cap NormalButtons = pressedNow \cap NormalButtons
  PROVE  /\ prePressed' = real \cap NormalButtons
         /\ lastPad' \cap NormalButtons \in {real \cap NormalButtons, {}}
         /\ reported' \cap NormalButtons = {}
<1>1. /\ prePressed = real \cap NormalButtons
      /\ lastPad \cap NormalButtons \in {real \cap NormalButtons, {}}
  BY DEF PadInv
<1>2. Padctrl!Unpressed(real) \cap NormalButtons = {}
  BY <1>1 DEF Padctrl!Unpressed
<1>3. prePressed' = real \cap NormalButtons
  BY <1>1, PadReads
<1>4. lastPad' = lastPad \/ lastPad' = Padctrl!Unpressed(real)
  BY PadReads
<1>5. reported' \subseteq Padctrl!Unpressed(real)
  BY PadReads
<1> QED BY <1>1, <1>2, <1>3, <1>4, <1>5

\* The frame in which they change first, and the frames after it.
LEMMA PadChangedFrame ==
  ASSUME Repeating, PadInv, NEW real \in SUBSET Padctrl!Buttons, Padctrl!Peek(real), ~blank,
         real # {},
         ~fresh \/ real \cap NormalButtons # pressedNow \cap NormalButtons
  PROVE  /\ prePressed' = {} /\ lastPad' = real
         /\ real \cap NormalButtons # {} => InTime'
         /\ (real \cap NormalButtons) \ pressedNow \subseteq reported'
<1>1. fresh \in BOOLEAN /\ doRepeat \in BOOLEAN
  BY DEF PadInv, Padctrl!TypeOK
<1>2. Padctrl!Unpressed(real) = real /\ prePressed' = {}
  BY <1>1, PadReads DEF PadInv, Padctrl!Unpressed
<1>3. lastPad' = real
  BY <1>2, PadReads
<1>4. CASE real # lastPad
  <2>1. reported' = real /\ idle' = 0 /\ doRepeat' = FALSE
    BY <1>2, <1>4, PadReads
  <2>2. real # pressedNow \/ real \cap NormalButtons = {}
    BY <1>1, <1>4 DEF PadInv
  <2>3. real \cap NormalButtons # {} => steady' = 0
    BY <2>2, PadTimes
  <2>4. real \cap NormalButtons # {} => InTime'
    BY <2>1, <2>3 DEF InTime, Repeating
  <2> QED BY <1>2, <1>3, <2>1, <2>4
<1>5. CASE real = lastPad
  <2>1. real \cap NormalButtons = {} \/ (~fresh /\ real = pressedNow)
    BY <1>1, <1>5 DEF PadInv
  <2>2. CASE real \cap NormalButtons = {}
    BY <1>2, <1>3, <2>2
  <2>3. CASE ~fresh /\ real = pressedNow /\ real \cap NormalButtons # {}
    <3>1. InTime
      BY <2>3 DEF PadInv
    <3>2. \/ /\ Padctrl!Capped(idle) >= (IF doRepeat THEN NextDelay ELSE StartDelay)
             /\ idle' = 0 /\ doRepeat' = TRUE
          \/ /\ ~(Padctrl!Capped(idle) >= (IF doRepeat THEN NextDelay ELSE StartDelay))
             /\ idle' = Padctrl!Capped(idle) /\ doRepeat' = doRepeat
      BY <1>2, <1>5, PadReads
    <3>3. CASE doRepeat
      <4>1. StartDelay <= steady /\ (steady < Padctrl!Long => idle = steady - StartDelay)
        BY <3>1, <3>3 DEF InTime
      <4>2. /\ doRepeat'
            /\ \/ idle' = 0 /\ Padctrl!Capped(idle) >= NextDelay
               \/ idle' = Padctrl!Capped(idle) /\ ~(Padctrl!Capped(idle) >= NextDelay)
        BY <3>2, <3>3
      <4>3. StartDelay <= steady' /\ (steady' < Padctrl!Long => idle' = steady' - StartDelay)
        BY <4>1, <4>2, <2>3, PadTimes DEF Repeating
      <4>4. Padctrl!Long' = Padctrl!Long
        BY DEF Padctrl!Long
      <4> QED BY <1>2, <1>3, <2>3, <4>2, <4>3, <4>4 DEF InTime
    <3>4. CASE ~doRepeat
      <4>1. idle = steady /\ steady < StartDelay
        BY <3>1, <3>4 DEF InTime
      <4>2. \/ idle' = 0 /\ doRepeat' = TRUE /\ Padctrl!Capped(idle) >= StartDelay
            \/ idle' = Padctrl!Capped(idle) /\ ~doRepeat' /\ Padctrl!Capped(idle) < StartDelay
        BY <3>2, <3>4, PadTimes DEF Repeating
      <4>3. Padctrl!Capped(idle) = steady + 1 /\ steady' = steady + 1
        BY <4>1, <2>3, PadTimes DEF Repeating
      <4>4. Padctrl!Long' = Padctrl!Long
        BY DEF Padctrl!Long
      <4>5. CASE idle' = 0 /\ doRepeat' = TRUE /\ Padctrl!Capped(idle) >= StartDelay
        <5>1. steady' = StartDelay
          BY <4>1, <4>3, <4>5, PadTimes DEF Repeating
        <5>2. InTime'
          BY <4>4, <4>5, <5>1 DEF InTime, Repeating
        <5> QED BY <1>2, <1>3, <2>3, <5>2
      <4>6. CASE idle' = Padctrl!Capped(idle) /\ ~doRepeat' /\ Padctrl!Capped(idle) < StartDelay
        <5>2. InTime'
          BY <4>3, <4>6 DEF InTime
        <5> QED BY <1>2, <1>3, <2>3, <5>2
      <4> QED BY <4>2, <4>5, <4>6
    <3> QED BY <1>1, <3>3, <3>4
  <2> QED BY <2>1, <2>2, <2>3
<1> QED BY <1>4, <1>5

\* Readings and resets keep the invariant.
LEMMA PadStep ==
  ASSUME Repeating, PadInv, [Padctrl!Next]_(Padctrl!vars)
  PROVE  PadInv'
<1>1. ASSUME NEW real \in SUBSET Padctrl!Buttons, Padctrl!Peek(real) PROVE PadInv'
  <2>1. /\ Padctrl!TypeOK' /\ pressedNow' = real
        /\ fresh' = (fresh /\ real \cap NormalButtons = pressedNow \cap NormalButtons)
        /\ blank' = (blank \/ real = {})
    BY <1>1, PadTyped
  <2>2. ~blank' => ~blank /\ real # {}
    BY <2>1
  <2>3. ~blank' /\ fresh' => fresh /\ real \cap NormalButtons = pressedNow \cap NormalButtons
    BY <2>1
  <2>4. ~blank' /\ ~fresh' => ~fresh \/ real \cap NormalButtons # pressedNow \cap NormalButtons
    BY <2>1
  <2>5. ~blank' /\ fresh' => /\ prePressed' = real \cap NormalButtons
                             /\ lastPad' \cap NormalButtons \in {real \cap NormalButtons, {}}
    BY <1>1, <2>2, <2>3, PadFreshFrame
  <2>6. ~blank' /\ ~fresh' => /\ prePressed' = {} /\ lastPad' = real
                              /\ real \cap NormalButtons # {} => InTime'
    BY <1>1, <2>2, <2>4, PadChangedFrame
  <2> QED BY <2>1, <2>2, <2>5, <2>6 DEF PadInv
<1>2. CASE Padctrl!ResetRepeat
  <2>1. /\ idle' = Padctrl!Long + 1 /\ lastPad' = pressedNow
        /\ prePressed' = pressedNow \cap NormalButtons
        /\ doRepeat' = FALSE /\ fresh' = TRUE /\ reported' = {} /\ steady' = 0
        /\ blank' = (pressedNow = {}) /\ UNCHANGED <<pressedNow, before>>
    BY <1>2 DEF Padctrl!ResetRepeat, Padctrl!Reset
  <2>2. Padctrl!Long \in Nat /\ Padctrl!Long' = Padctrl!Long
    BY DEF Padctrl!Long, Repeating
  <2>3. blank' \in BOOLEAN
    BY <2>1, Zenon
  <2>5. idle' \in 0 .. Padctrl!Long' + 1 /\ steady' \in 0 .. Padctrl!Long' + 1
    BY <2>1, <2>2
  <2>6. /\ pressedNow' \subseteq Padctrl!Buttons' /\ before' \subseteq Padctrl!Buttons'
        /\ prePressed' \subseteq NormalButtons /\ reported' \subseteq Padctrl!Buttons'
        /\ doRepeat' \in BOOLEAN /\ fresh' \in BOOLEAN
    BY <2>1 DEF PadInv, Padctrl!TypeOK, Padctrl!Buttons
  <2>4. Padctrl!TypeOK'
    BY <2>1, <2>3, <2>5, <2>6, Zenon DEF Padctrl!TypeOK
  <2> QED BY <2>1, <2>4 DEF PadInv
<1>3. CASE UNCHANGED Padctrl!vars
  BY <1>3 DEF Padctrl!vars, PadInv, Padctrl!TypeOK, InTime
<1> QED BY <1>1, <1>2, <1>3 DEF Padctrl!Next

\* The invariant, for any buttons and delays.
THEOREM PadInvariant == ASSUME Repeating PROVE Padctrl!Spec => []PadInv
<1> QED BY PadInitInv, PadStep, PTL DEF Padctrl!Spec

\* The time that padctrl counts never runs over its bound, and only buttons are reported.
THEOREM PadTypeCorrect == ASSUME Repeating PROVE Padctrl!Spec => []Padctrl!TypeOK
<1> QED BY PadInvariant, PTL DEF PadInv

\* padctrlPeekBuffer reports a button when it is pressed, not again before the first delay, then
\* when that is over and when the second one is, and only buttons that repeat; after a reset
\* nothing that was down by then.
THEOREM PadRepeatsFollow == ASSUME Repeating PROVE Padctrl!Spec => Padctrl!RepeatsFollow
<1>1. ASSUME PadInv, [Padctrl!Next]_(Padctrl!vars) PROVE [Padctrl!Follows]_(Padctrl!vars)
  <2> SUFFICES ASSUME NEW real \in SUBSET Padctrl!Buttons, Padctrl!Peek(real), ~blank'
               PROVE  LET down == pressedNow' \cap NormalButtons IN
                      /\ (down \ pressedNow) \subseteq reported'
                      /\ pressedNow' = pressedNow /\ fresh => reported' \cap NormalButtons = {}
                      /\ pressedNow' = pressedNow /\ ~fresh =>
                           /\ reported' \cap NormalButtons \subseteq Repeat
                           /\ steady' < StartDelay => reported' \cap NormalButtons = {}
                           /\ steady' = StartDelay => down \cap Repeat \subseteq reported'
                           /\ steady' = Padctrl!Long => down \cap Repeat \subseteq reported'
    BY DEF Padctrl!Follows, Padctrl!Long
  <2>1. pressedNow' = real /\ ~blank /\ real # {}
    BY <1>1, PadTyped
  <2>2. fresh \in BOOLEAN /\ doRepeat \in BOOLEAN
    BY <1>1 DEF PadInv, Padctrl!TypeOK
  <2>3. (real \cap NormalButtons) \ pressedNow \subseteq reported'
    BY <1>1, <2>1, PadChangedFrame
  <2>4. real = pressedNow /\ fresh => reported' \cap NormalButtons = {}
    BY <1>1, <2>1, PadFreshFrame
  <2>5. ASSUME real = pressedNow, ~fresh
        PROVE  /\ reported' \cap NormalButtons \subseteq Repeat
               /\ steady' < StartDelay => reported' \cap NormalButtons = {}
               /\ steady' = StartDelay => real \cap NormalButtons \cap Repeat \subseteq reported'
               /\ steady' = Padctrl!Long => real \cap NormalButtons \cap Repeat \subseteq reported'
    <3>1. Padctrl!Unpressed(real) = real /\ lastPad = real /\ (real \cap NormalButtons # {}
            => InTime)
      BY <1>1, <2>1, <2>5 DEF PadInv, Padctrl!Unpressed
    <3>2. \/ /\ Padctrl!Capped(idle) >= (IF doRepeat THEN NextDelay ELSE StartDelay)
             /\ reported' = real \cap Repeat
          \/ /\ ~(Padctrl!Capped(idle) >= (IF doRepeat THEN NextDelay ELSE StartDelay))
             /\ reported' = real \cap Toggles
      BY <1>1, <2>1, <3>1, PadReads
    <3>3. CASE real \cap NormalButtons = {}
      BY <3>2, <3>3 DEF Repeating
    <3>4. CASE real \cap NormalButtons # {} /\ doRepeat
      <4>1. StartDelay <= steady /\ (steady < Padctrl!Long => idle = steady - StartDelay)
        BY <3>1, <3>4 DEF InTime
      <4>2. /\ ~(steady' < StartDelay) /\ steady' # StartDelay
            /\ steady' = Padctrl!Long => Padctrl!Capped(idle) >= NextDelay
        BY <1>1, <2>5, <4>1, PadTimes DEF Repeating
      <4> QED BY <3>2, <3>4, <4>2 DEF Repeating
    <3>5. CASE real \cap NormalButtons # {} /\ ~doRepeat
      <4>1. idle = steady /\ steady < StartDelay
        BY <3>1, <3>5 DEF InTime
      <4>2. /\ Padctrl!Capped(idle) = steady' /\ steady' <= StartDelay /\ steady' # Padctrl!Long
        BY <1>1, <2>5, <4>1, PadTimes DEF Repeating
      <4>3. steady' < StartDelay => ~(Padctrl!Capped(idle) >= StartDelay)
        BY <1>1, <4>2, PadTimes DEF Repeating
      <4>4. steady' = StartDelay => Padctrl!Capped(idle) >= StartDelay
        BY <4>2 DEF Repeating
      <4> QED BY <3>2, <3>5, <4>2, <4>3, <4>4 DEF Repeating
    <3> QED BY <2>2, <3>3, <3>4, <3>5
  <2> QED BY <2>1, <2>3, <2>4, <2>5
<1> QED BY <1>1, PadInvariant, PTL DEF Padctrl!Spec, Padctrl!RepeatsFollow

-----------------------------------------------------------------------------
(* SoskText: the text of the on-screen keyboard, for any characters, a     *)
(* buffer of any size and an input area of any width.  The code moves      *)
(* bytes in a buffer whose end is a NUL, and has two cases for each key,   *)
(* at the NUL and in front of it.  What both come to is said in terms of   *)
(* where the text ends (Ends), which is what Strlen finds.                 *)

\* NUL is no character of a text, and something is shown of it.
TextSized == TextMax \in Nat /\ Width \in Nat \ {0} /\ NUL \notin Chars

\* A text of n characters is in b.
Ends(b, n) == n \in SoskText!Cells /\ b[n] = NUL /\ \A i \in 0 .. n - 1 : b[i] \in Chars
TextOf(b, n) == [i \in 1 .. n |-> b[i - 1]]

\* How many characters are before the cursor.
Place == offset + cursorPos

Buffers == [SoskText!Cells -> Chars \cup {NUL}]

\* The buffer always ends, the length is that of its text, and the cursor is in the input area
\* and not beyond the text.
TextInv ==
  /\ buf \in Buffers /\ length \in Nat \ {0} /\ Ends(buf, length - 1)
  /\ offset \in Nat /\ cursorPos \in 0 .. Width - 1 /\ Place < length

-----------------------------------------------------------------------------
(* Where a text ends. *)

\* strlen finds the first NUL.
LEMMA StrlenIsEnd ==
  ASSUME TextSized, NEW b, NEW n, Ends(b, n)
  PROVE  SoskText!Strlen(b) = n
<1> DEFINE S == {i \in SoskText!Cells : b[i] = NUL} \cup {TextMax}
<1>1. n \in S /\ \A i \in S : i \in Int /\ n <= i
  BY DEF Ends, SoskText!Cells, TextSized
<1>2. n \in Int
  BY DEF Ends, SoskText!Cells, TextSized
<1> HIDE DEF S
<1>3. \A x \in S : (\A y \in S : x <= y) => x = n
  BY <1>1, <1>2
<1>4. (CHOOSE x \in S : \A y \in S : x <= y) = n
  BY <1>1, <1>3
<1> QED BY <1>4 DEF SoskText!Strlen, SoskText!Min, S

\* A buffer with a NUL in it has a first one.
LEMMA Ending ==
  ASSUME TextSized, NEW b \in Buffers, \E i \in SoskText!Cells : b[i] = NUL
  PROVE  Ends(b, SoskText!Strlen(b))
<1> DEFINE R == OpToRel(<, Nat)
           S == {i \in SoskText!Cells : b[i] = NUL}
<1>1. IsWellFoundedOn(R, Nat)
  BY NatLessThanWellFounded
<1>2. \A m, n \in Nat : m < n => <<m, n>> \in R
  BY DEF OpToRel
<1>3. S \subseteq Nat /\ S # {} /\ SoskText!Cells \subseteq Nat
  BY DEF SoskText!Cells, TextSized
<1> HIDE DEF R, S
<1>4. PICK n \in S : \A m \in S : <<m, n>> \notin R
  BY <1>1, <1>3, WFMin
<1>5. \A m \in S : ~(m < n)
  BY <1>2, <1>3, <1>4
<1>6. Ends(b, n)
  <2>1. n \in SoskText!Cells /\ b[n] = NUL
    BY <1>4 DEF S
  <2>2. ASSUME NEW i \in 0 .. n - 1 PROVE b[i] \in Chars
    <3>1. i \in SoskText!Cells /\ i < n
      BY <2>1 DEF SoskText!Cells, TextSized
    <3>2. i \notin S
      BY <1>5, <3>1
    <3> QED BY <3>1, <3>2 DEF S, Buffers
  <2> QED BY <2>1, <2>2 DEF Ends
<1> QED BY <1>6, StrlenIsEnd

\* The text before the NUL is a sequence of characters.
LEMMA TextIsSeq ==
  ASSUME TextSized, NEW b \in Buffers, NEW n, Ends(b, n)
  PROVE  /\ TextOf(b, n) \in Seq(Chars) /\ Len(TextOf(b, n)) = n /\ n \in Nat /\ n < TextMax
         /\ TextOf(b, n) \in [1 .. n -> Chars]
<1>1. n \in Nat /\ n < TextMax
  BY DEF Ends, SoskText!Cells, TextSized
<1>2. \A i \in 1 .. n : b[i - 1] \in Chars
  <2> SUFFICES ASSUME NEW i \in 1 .. n PROVE b[i - 1] \in Chars
    OBVIOUS
  <2>1. i - 1 \in 0 .. n - 1
    BY <1>1
  <2> QED BY <2>1 DEF Ends
<1>3. TextOf(b, n) \in [1 .. n -> Chars]
  BY <1>2 DEF TextOf
<1> QED BY <1>1, <1>3

-----------------------------------------------------------------------------
(* A character goes in or out. *)

\* A sequence in which all from one place on has moved up by one is the old one with a character
\* inserted.
LEMMA InsertText ==
  ASSUME NEW s \in Seq(Chars), NEW t \in Seq(Chars), NEW at \in 0 .. Len(s), NEW c \in Chars,
         Len(t) = Len(s) + 1,
         \A i \in 1 .. at : t[i] = s[i], t[at + 1] = c,
         \A i \in at + 1 .. Len(s) : t[i + 1] = s[i]
  PROVE  t = SubSeq(s, 1, at) \o <<c>> \o SubSeq(s, at + 1, Len(s))
<1> DEFINE a == SubSeq(s, 1, at)
           z == SubSeq(s, at + 1, Len(s))
           m == a \o <<c>>
           u == m \o z
<1>1. Len(s) \in Nat /\ \A i \in 1 .. Len(s) : s[i] \in Chars
  OBVIOUS
<1>2. a \in Seq(Chars) /\ Len(a) = at /\ \A i \in 1 .. at : a[i] = s[i]
  <2>1. \A i \in 1 .. at : s[i] \in Chars
    BY <1>1
  <2> QED BY <1>1, <2>1, SubSeqProperties
<1>3. z \in Seq(Chars) /\ Len(z) = Len(s) - at /\ \A i \in 1 .. Len(s) - at : z[i] = s[at + i]
  <2>1. \A i \in at + 1 .. Len(s) : s[i] \in Chars
    BY <1>1
  <2>2. /\ z \in Seq(Chars) /\ Len(z) = IF at + 1 <= Len(s) THEN Len(s) - (at + 1) + 1 ELSE 0
        /\ \A i \in 1 .. Len(s) - (at + 1) + 1 : z[i] = s[at + 1 + i - 1]
    BY <1>1, <2>1, SubSeqProperties
  <2>3. \A i \in 1 .. Len(s) - at : at + 1 + i - 1 = at + i /\ i \in 1 .. Len(s) - (at + 1) + 1
    BY <1>1
  <2>4. Len(z) = Len(s) - at
    BY <1>1, <2>2
  <2> QED BY <2>2, <2>3, <2>4
<1>4. <<c>> \in Seq(Chars) /\ Len(<<c>>) = 1 /\ <<c>>[1] = c
  OBVIOUS
<1> HIDE DEF a, z
<1>5. /\ m \in Seq(Chars) /\ Len(m) = at + 1
      /\ \A i \in 1 .. at : m[i] = a[i]
      /\ m[at + 1] = c
  BY <1>2, <1>4, ConcatProperties
<1> HIDE DEF m
<1>6. /\ u \in Seq(Chars) /\ Len(u) = Len(s) + 1
      /\ \A i \in 1 .. at + 1 : u[i] = m[i]
      /\ \A i \in at + 2 .. Len(s) + 1 : u[i] = z[i - (at + 1)]
  BY <1>1, <1>3, <1>5, ConcatProperties
<1> HIDE DEF u
<1>7. ASSUME NEW i \in 1 .. Len(t) PROVE t[i] = u[i]
  <2>1. CASE i <= at
    <3>1. i \in 1 .. at /\ i \in 1 .. at + 1
      BY <2>1
    <3> QED BY <1>2, <1>5, <1>6, <3>1
  <2>2. CASE i = at + 1
    BY <1>5, <1>6, <2>2
  <2>3. CASE i > at + 1
    <3>1. i - 1 \in at + 1 .. Len(s) /\ i - (at + 1) \in 1 .. Len(s) - at
      BY <1>1, <2>3
    <3>2. i - 1 + 1 = i /\ at + (i - (at + 1)) = i - 1
      OBVIOUS
    <3>3. t[i - 1 + 1] = s[i - 1]
      BY <3>1
    <3>4. z[i - (at + 1)] = s[at + (i - (at + 1))]
      BY <1>3, <3>1
    <3>5. u[i] = z[i - (at + 1)]
      BY <1>1, <1>6, <2>3
    <3> QED BY <3>2, <3>3, <3>4, <3>5
  <2> QED BY <2>1, <2>2, <2>3
<1>8. t = u
  BY <1>6, <1>7, SeqEqual
<1> QED BY <1>8 DEF u, m, a, z

\* A sequence in which all behind one place has moved down by one is the old one without a
\* character.
LEMMA DeleteText ==
  ASSUME NEW s \in Seq(Chars), NEW t \in Seq(Chars), NEW at \in 1 .. Len(s),
         Len(t) = Len(s) - 1,
         \A i \in 1 .. at - 1 : t[i] = s[i],
         \A i \in at .. Len(s) - 1 : t[i] = s[i + 1]
  PROVE  t = SubSeq(s, 1, at - 1) \o SubSeq(s, at + 1, Len(s))
<1> DEFINE a == SubSeq(s, 1, at - 1)
           z == SubSeq(s, at + 1, Len(s))
           u == a \o z
<1>1. Len(s) \in Nat /\ \A i \in 1 .. Len(s) : s[i] \in Chars
  OBVIOUS
<1>2. a \in Seq(Chars) /\ Len(a) = at - 1 /\ \A i \in 1 .. at - 1 : a[i] = s[i]
  <2>1. \A i \in 1 .. at - 1 : s[i] \in Chars
    BY <1>1
  <2> QED BY <1>1, <2>1, SubSeqProperties
<1>3. z \in Seq(Chars) /\ Len(z) = Len(s) - at /\ \A i \in 1 .. Len(s) - at : z[i] = s[at + i]
  <2>1. \A i \in at + 1 .. Len(s) : s[i] \in Chars
    BY <1>1
  <2>2. /\ z \in Seq(Chars) /\ Len(z) = IF at + 1 <= Len(s) THEN Len(s) - (at + 1) + 1 ELSE 0
        /\ \A i \in 1 .. Len(s) - (at + 1) + 1 : z[i] = s[at + 1 + i - 1]
    BY <1>1, <2>1, SubSeqProperties
  <2>3. \A i \in 1 .. Len(s) - at : at + 1 + i - 1 = at + i /\ i \in 1 .. Len(s) - (at + 1) + 1
    BY <1>1
  <2>4. Len(z) = Len(s) - at
    BY <1>1, <2>2
  <2> QED BY <2>2, <2>3, <2>4
<1> HIDE DEF a, z
<1>4. /\ u \in Seq(Chars) /\ Len(u) = Len(s) - 1
      /\ \A i \in 1 .. at - 1 : u[i] = a[i]
      /\ \A i \in at .. Len(s) - 1 : u[i] = z[i - (at - 1)]
  <2>1. /\ u \in Seq(Chars) /\ Len(u) = Len(a) + Len(z)
        /\ \A i \in 1 .. Len(a) + Len(z) : u[i] = IF i <= Len(a) THEN a[i] ELSE z[i - Len(a)]
    BY <1>2, <1>3, ConcatProperties
  <2>2. Len(a) + Len(z) = Len(s) - 1 /\ at \in Nat
    BY <1>1, <1>2, <1>3
  <2> HIDE DEF u
  <2>3. ASSUME NEW i \in 1 .. Len(s) - 1
        PROVE  u[i] = IF i <= at - 1 THEN a[i] ELSE z[i - (at - 1)]
    <3>1. i \in 1 .. Len(a) + Len(z)
      BY <2>2
    <3> QED BY <1>2, <2>1, <3>1
  <2>4. /\ \A i \in 1 .. at - 1 : i \in 1 .. Len(s) - 1 /\ i <= at - 1
        /\ \A i \in at .. Len(s) - 1 : i \in 1 .. Len(s) - 1 /\ ~(i <= at - 1)
    BY <1>1
  <2> QED BY <2>1, <2>2, <2>3, <2>4
<1> HIDE DEF u
<1>5. ASSUME NEW i \in 1 .. Len(t) PROVE t[i] = u[i]
  <2>1. CASE i < at
    BY <1>2, <1>4, <2>1
  <2>2. CASE i >= at
    <3>1. i - (at - 1) \in 1 .. Len(s) - at /\ at + (i - (at - 1)) = i + 1
      BY <1>1, <2>2
    <3> QED BY <1>1, <1>3, <1>4, <2>2, <3>1
  <2> QED BY <2>1, <2>2
<1>6. t = u
  BY <1>4, <1>5, SeqEqual
<1> QED BY <1>6 DEF u, a, z
-----------------------------------------------------------------------------
(* What each key does to the buffer. *)

\* The keyboard is opened with a text that ends in the buffer.
LEMMA TextInitInv ==
  ASSUME TextSized, SoskText!Init
  PROVE  TextInv /\ SoskText!Line!Init
<1>1. PICK b \in Buffers : b = buf /\ \E i \in SoskText!Cells : b[i] = NUL
  BY DEF SoskText!Init, Buffers
<1>2. Ends(buf, length - 1) /\ length = SoskText!Strlen(buf) + 1 /\ SoskText!Strlen(buf) \in Nat
  <2>1. Ends(buf, SoskText!Strlen(buf))
    BY <1>1, Ending
  <2>2. SoskText!Strlen(buf) \in Nat
    BY <1>1, <2>1, TextIsSeq
  <2> QED BY <2>1, <2>2 DEF SoskText!Init
<1>3. offset \in Nat /\ cursorPos \in 0 .. Width - 1 /\ offset + cursorPos = length - 1
  BY <1>2 DEF SoskText!Init, TextSized
<1>4. TextInv
  <2>1. Place = length - 1
    BY <1>3, Zenon DEF Place
  <2>2. length \in Nat \ {0} /\ Place < length
    BY <1>2, <2>1
  <2> QED BY <1>1, <1>2, <1>3, <2>2 DEF TextInv
<1>5. /\ TextOf(buf, SoskText!Strlen(buf)) \in [1 .. SoskText!Strlen(buf) -> Chars]
      /\ SoskText!Strlen(buf) \in 0 .. TextMax - 1
      /\ Len(TextOf(buf, SoskText!Strlen(buf))) = SoskText!Strlen(buf)
  <2>1. Ends(buf, SoskText!Strlen(buf))
    BY <1>2
  <2> QED BY <1>1, <2>1, TextIsSeq DEF TextSized
<1>6. SoskText!Line!Init
  BY <1>2, <1>3, <1>5 DEF SoskText!Line!Init, TextOf
<1> QED BY <1>4, <1>6

\* The keyboard's line in a state of it.
LEMMA LineText ==
  ASSUME TextSized, TextInv
  PROVE  /\ SoskText!Strlen(buf) = length - 1
         /\ TextOf(buf, length - 1) \in Seq(Chars) /\ Len(TextOf(buf, length - 1)) = length - 1
         /\ length \in Nat \ {0} /\ length <= TextMax
<1>1. Ends(buf, length - 1) /\ buf \in Buffers /\ length \in Nat \ {0}
  BY DEF TextInv
<1> QED BY <1>1, StrlenIsEnd, TextIsSeq DEF TextSized

\* The cursor has a place in the text.
LEMMA PlaceTyped ==
  ASSUME TextSized, TextInv
  PROVE  Place \in Nat
  BY DEF TextInv, TextSized, Place

\* The cursor moves one character, if it can, whether the text moves or the cursor.
LEMMA ForwardOne ==
  ASSUME TextSized, TextInv, NEW len \in Nat, length <= len, SoskText!Forward(len)
  PROVE  /\ offset' \in Nat /\ cursorPos' \in 0 .. Width - 1
         /\ Place' = IF Place < len - 1 THEN Place + 1 ELSE Place
<1>1. offset \in Nat /\ cursorPos \in 0 .. Width - 1 /\ Width \in Nat \ {0}
  BY DEF TextInv, TextSized
<1> USE DEF Place
<1>2. CASE offset + cursorPos >= len - 1
  BY <1>1, <1>2 DEF SoskText!Forward
<1>3. CASE offset + cursorPos < len - 1 /\ cursorPos >= Width - 4 /\ offset + Width <= len - 1
  BY <1>1, <1>3 DEF SoskText!Forward
<1>4. CASE offset + cursorPos < len - 1 /\ ~(cursorPos >= Width - 4 /\ offset + Width <= len - 1)
  <2>1. cursorPos' = cursorPos + 1 /\ offset' = offset
    BY <1>1, <1>4 DEF SoskText!Forward
  <2>2. cursorPos + 1 <= Width - 1
    BY <1>1, <1>4
  <2> QED BY <1>1, <1>4, <2>1, <2>2
<1> QED BY <1>1, <1>2, <1>3, <1>4

\* The cursor moves back by one character, or stays at the first.
LEMMA BackOne ==
  ASSUME TextSized, TextInv, SoskText!Back
  PROVE  /\ offset' \in Nat /\ cursorPos' \in 0 .. Width - 1
         /\ Place' = IF Place > 0 THEN Place - 1 ELSE 0
<1>1. offset \in Nat /\ cursorPos \in 0 .. Width - 1 /\ Width \in Nat \ {0}
  BY DEF TextInv, TextSized
<1> USE DEF Place
<1>2. CASE offset + cursorPos = 0
  BY <1>1, <1>2 DEF SoskText!Back
<1>3. CASE offset + cursorPos > 0 /\ cursorPos <= 3 /\ offset > 0
  BY <1>1, <1>3 DEF SoskText!Back
<1>4. CASE offset + cursorPos > 0 /\ ~(cursorPos <= 3 /\ offset > 0)
  BY <1>1, <1>4 DEF SoskText!Back
<1> QED BY <1>1, <1>2, <1>3, <1>4

\* In front of the NUL the rest with the NUL moves up by one, at the NUL a new one is written.
LEMMA InputBuf ==
  ASSUME TextSized, TextInv, NEW c \in Chars, SoskText!InputChar(c)
  PROVE  LET n == length - 1  at == Place
         IN  /\ buf' \in Buffers /\ Ends(buf', n + 1) /\ length' = length + 1
             /\ at \in 0 .. n
             /\ \A i \in 0 .. at - 1 : buf'[i] = buf[i]
             /\ buf'[at] = c
             /\ \A i \in at .. n - 1 : buf'[i + 1] = buf[i]
<1> DEFINE n == length - 1
           at == Place
<1>1. /\ n \in Nat /\ at \in 0 .. n /\ n + 1 \in SoskText!Cells /\ Ends(buf, n) /\ buf \in Buffers
      /\ length' = n + 2 /\ TextMax \in Nat
  BY PlaceTyped DEF TextInv, SoskText!InputChar, SoskText!Cells, TextSized
<1>2. buf' = [SoskText!Opened(buf, at) EXCEPT ![at] = c]
  BY DEF SoskText!InputChar, Place
<1>3. length = n + 1 /\ length - at = n + 1 - at
  BY PlaceTyped DEF TextInv
<1> HIDE DEF n, at
<1>4. at \in SoskText!Cells /\ 0 .. n + 1 \subseteq SoskText!Cells /\ c # NUL
  BY <1>1 DEF SoskText!Cells, TextSized
<1>5. CASE buf[at] = NUL
  <2>1. at = n
    BY <1>1, <1>5 DEF Ends, TextSized
  <2>2. buf' = [[buf EXCEPT ![at + 1] = NUL] EXCEPT ![at] = c]
    BY <1>2, <1>5 DEF SoskText!Opened
  <2>3. buf' \in Buffers
    BY <1>1, <1>4, <2>2 DEF Buffers
  <2>4. buf'[n + 1] = NUL /\ buf'[at] = c /\ \A i \in 0 .. n - 1 : buf'[i] = buf[i]
    <3>1. buf \in [SoskText!Cells -> Chars \cup {NUL}] /\ n # n + 1 /\ n + 1 \in SoskText!Cells
            /\ n \in SoskText!Cells
      BY <1>1, <1>4, <2>1 DEF Buffers
    <3>2. \A i \in 0 .. n - 1 : i \in SoskText!Cells /\ i # n /\ i # n + 1
      BY <1>1, <1>4
    <3> QED BY <2>1, <2>2, <3>1, <3>2
  <2>5. Ends(buf', n + 1)
    BY <1>1, <2>1, <2>4 DEF Ends
  <2>6. length' = length + 1 /\ \A i \in at .. n - 1 : buf'[i + 1] = buf[i]
    BY <1>1, <1>3, <2>1
  <2>7. \A i \in 0 .. at - 1 : buf'[i] = buf[i]
    BY <2>1, <2>4
  <2> QED BY <1>1, <2>3, <2>4, <2>5, <2>6, <2>7 DEF n, at
<1>6. CASE buf[at] # NUL
  <2>1. buf' = [SoskText!Moved(buf, at + 1, at, n + 1 - at) EXCEPT ![at] = c]
    BY <1>2, <1>3, <1>6 DEF SoskText!Opened
  <2>2. ASSUME NEW i \in SoskText!Cells
        PROVE  buf'[i] = IF i = at THEN c ELSE IF i \in at + 1 .. n + 1 THEN buf[i - 1] ELSE buf[i]
    <3>1. at + 1 + (n + 1 - at) - 1 = n + 1 /\ i - (at + 1) + at = i - 1
      BY <1>1 DEF SoskText!Cells
    <3>2. SoskText!Moved(buf, at + 1, at, n + 1 - at)[i] = IF i \in at + 1 .. n + 1 THEN buf[i - 1]
            ELSE buf[i]
      BY <3>1 DEF SoskText!Moved
    <3> QED BY <1>4, <2>1, <3>2 DEF SoskText!Moved
  <2>3. buf' \in Buffers
    <3>1. DOMAIN buf' = SoskText!Cells /\ buf' = [i \in SoskText!Cells |-> buf'[i]]
      BY <2>1 DEF SoskText!Moved
    <3>2. \A i \in SoskText!Cells : i \in at + 1 .. n + 1 => i - 1 \in SoskText!Cells
      BY <1>1 DEF SoskText!Cells
    <3>3. \A i \in SoskText!Cells : buf'[i] \in Chars \cup {NUL}
      BY <1>1, <2>2, <3>2 DEF Buffers
    <3> QED BY <3>1, <3>3 DEF Buffers
  <2>4. \A i \in 0 .. at - 1 : buf'[i] = buf[i]
    <3>1. \A i \in 0 .. at - 1 : i \in SoskText!Cells /\ i # at /\ i \notin at + 1 .. n + 1
      BY <1>1, <1>4
    <3> QED BY <2>2, <3>1
  <2>5. \A i \in at .. n : buf'[i + 1] = buf[i]
    <3> SUFFICES ASSUME NEW i \in at .. n PROVE buf'[i + 1] = buf[i]
      OBVIOUS
    <3>1. i + 1 \in SoskText!Cells /\ i + 1 # at /\ i + 1 \in at + 1 .. n + 1 /\ i + 1 - 1 = i
      BY <1>1, <1>4
    <3> QED BY <2>2, <3>1
  <2>6. buf'[at] = c
    BY <1>4, <2>2
  <2>7. Ends(buf', n + 1)
    <3>1. buf'[n + 1] = NUL
      <4>1. n \in at .. n
        BY <1>1
      <4> QED BY <1>1, <2>5, <4>1 DEF Ends
    <3>2. ASSUME NEW i \in 0 .. n + 1 - 1 PROVE buf'[i] \in Chars
      <4>1. CASE i < at
        <5>1. i \in 0 .. at - 1 /\ i \in 0 .. n - 1
          BY <1>1, <4>1
        <5> QED BY <1>1, <2>4, <5>1 DEF Ends
      <4>2. CASE i = at
        BY <2>6, <4>2
      <4>3. CASE i > at
        <5>1. i - 1 \in at .. n /\ i - 1 \in 0 .. n - 1 /\ i - 1 + 1 = i
          BY <1>1, <4>3
        <5>2. buf'[i - 1 + 1] = buf[i - 1]
          BY <2>5, <5>1
        <5> QED BY <1>1, <5>1, <5>2 DEF Ends
      <4> QED BY <1>1, <4>1, <4>2, <4>3
    <3> QED BY <1>1, <3>1, <3>2 DEF Ends
  <2>8. \A i \in at .. n - 1 : buf'[i + 1] = buf[i]
    BY <1>1, <2>5
  <2> QED BY <1>1, <1>3, <2>3, <2>4, <2>6, <2>7, <2>8 DEF n, at
<1> QED BY <1>5, <1>6

\* In front of the NUL the rest with the NUL moves down by one, at the NUL the last one goes.
LEMMA BackBuf ==
  ASSUME TextSized, TextInv, SoskText!InputBs
  PROVE  LET n == length - 1  at == Place
         IN  /\ buf' \in Buffers /\ Ends(buf', n - 1) /\ length' = length - 1
             /\ at \in 1 .. n
             /\ \A i \in 0 .. at - 2 : buf'[i] = buf[i]
             /\ \A i \in at - 1 .. n - 2 : buf'[i] = buf[i + 1]
<1> DEFINE n == length - 1
           at == Place
<1>1. /\ n \in Nat /\ at \in 1 .. n /\ n \in SoskText!Cells /\ Ends(buf, n) /\ buf \in Buffers
      /\ length' = n /\ TextMax \in Nat
  <2>1. length' = n /\ Place > 0
    BY DEF SoskText!InputBs, Place
  <2>2. n \in Nat /\ Place <= n
    BY PlaceTyped DEF TextInv
  <2>3. n \in SoskText!Cells /\ Ends(buf, n) /\ buf \in Buffers /\ TextMax \in Nat
    BY DEF TextInv, Ends, TextSized
  <2> HIDE DEF n
  <2> QED BY <2>1, <2>2, <2>3, PlaceTyped
<1>2. buf' = SoskText!Closed(buf, at)
  BY DEF SoskText!InputBs, Place
<1>3. length = n + 1 /\ length - at = n + 1 - at
  BY PlaceTyped DEF TextInv
<1> HIDE DEF n, at
<1>4. at \in SoskText!Cells /\ 0 .. n \subseteq SoskText!Cells
  BY <1>1 DEF SoskText!Cells
<1>5. CASE buf[at] = NUL
  <2>1. at = n
    BY <1>1, <1>5 DEF Ends, TextSized
  <2>2. buf' = [buf EXCEPT ![n - 1] = NUL]
    BY <1>2, <1>5, <2>1 DEF SoskText!Closed
  <2>3. buf' \in Buffers
    BY <1>1, <2>2 DEF Buffers
  <2>4. buf'[n - 1] = NUL /\ \A i \in 0 .. n - 2 : buf'[i] = buf[i]
    <3>1. buf \in [SoskText!Cells -> Chars \cup {NUL}] /\ n - 1 \in SoskText!Cells
      BY <1>1, <1>4, <2>1 DEF Buffers
    <3>2. \A i \in 0 .. n - 2 : i \in SoskText!Cells /\ i # n - 1
      BY <1>1, <1>4
    <3> QED BY <2>1, <2>2, <3>1, <3>2
  <2>5. Ends(buf', n - 1)
    <3>1. n - 1 \in SoskText!Cells /\ \A i \in 0 .. n - 1 - 1 : i \in 0 .. n - 2 /\ i \in 0 .. n - 1
      BY <1>1, <1>4
    <3> QED BY <1>1, <2>4, <3>1 DEF Ends
  <2>6. \A i \in at - 1 .. n - 2 : buf'[i] = buf[i + 1]
    BY <1>1, <2>1
  <2>7. length' = length - 1 /\ \A i \in 0 .. at - 2 : buf'[i] = buf[i]
    BY <1>1, <1>3, <2>1, <2>4
  <2> QED BY <1>1, <2>3, <2>5, <2>6, <2>7 DEF n, at
<1>6. CASE buf[at] # NUL
  <2>0. at < n
    BY <1>1, <1>6 DEF Ends
  <2>1. buf' = SoskText!Moved(buf, at - 1, at, n + 1 - at)
    BY <1>2, <1>3, <1>6 DEF SoskText!Closed
  <2>2. ASSUME NEW i \in SoskText!Cells
        PROVE  buf'[i] = IF i \in at - 1 .. n - 1 THEN buf[i + 1] ELSE buf[i]
    <3>1. at - 1 + (n + 1 - at) - 1 = n - 1 /\ i - (at - 1) + at = i + 1
      BY <1>1 DEF SoskText!Cells
    <3> QED BY <2>1, <3>1 DEF SoskText!Moved
  <2>3. buf' \in Buffers
    <3>1. DOMAIN buf' = SoskText!Cells /\ buf' = [i \in SoskText!Cells |-> buf'[i]]
      BY <2>1 DEF SoskText!Moved
    <3>2. \A i \in SoskText!Cells : i \in at - 1 .. n - 1 => i + 1 \in SoskText!Cells
      BY <1>1, <1>4 DEF SoskText!Cells
    <3>3. \A i \in SoskText!Cells : buf'[i] \in Chars \cup {NUL}
      BY <1>1, <2>2, <3>2 DEF Buffers
    <3> QED BY <3>1, <3>3 DEF Buffers
  <2>4. \A i \in 0 .. at - 2 : buf'[i] = buf[i]
    <3>1. \A i \in 0 .. at - 2 : i \in SoskText!Cells /\ i \notin at - 1 .. n - 1
      BY <1>1, <1>4
    <3> QED BY <2>2, <3>1
  <2>5. \A i \in at - 1 .. n - 1 : buf'[i] = buf[i + 1]
    <3>1. \A i \in at - 1 .. n - 1 : i \in SoskText!Cells
      BY <1>1, <1>4
    <3> QED BY <2>2, <3>1
  <2>6. Ends(buf', n - 1)
    <3>1. n - 1 \in SoskText!Cells /\ n - 1 \in at - 1 .. n - 1 /\ n - 1 + 1 = n
      BY <1>1, <1>4
    <3>2. buf'[n - 1] = NUL
      BY <1>1, <2>5, <3>1 DEF Ends
    <3>3. ASSUME NEW i \in 0 .. n - 1 - 1 PROVE buf'[i] \in Chars
      <4>1. CASE i < at - 1
        <5>1. i \in 0 .. at - 2 /\ i \in 0 .. n - 1
          BY <1>1, <4>1
        <5> QED BY <1>1, <2>4, <5>1 DEF Ends
      <4>2. CASE i >= at - 1
        <5>1. i \in at - 1 .. n - 1 /\ i + 1 \in 0 .. n - 1
          BY <1>1, <4>2
        <5> QED BY <1>1, <2>5, <5>1 DEF Ends
      <4> QED BY <1>1, <4>1, <4>2
    <3> QED BY <3>1, <3>2, <3>3 DEF Ends
  <2>7. \A i \in at - 1 .. n - 2 : buf'[i] = buf[i + 1]
    BY <1>1, <2>5
  <2> QED BY <1>1, <1>3, <2>3, <2>4, <2>6, <2>7 DEF n, at
<1> QED BY <1>5, <1>6
-----------------------------------------------------------------------------
(* Each key is a step of the line, or none. *)

\* The line in the next state, from where the text then ends.
LEMMA TextNextLine ==
  ASSUME TextSized, NEW n, buf' \in Buffers, Ends(buf', n)
  PROVE  /\ SoskText!Strlen(buf') = n /\ n \in Nat
         /\ TextOf(buf', n) \in Seq(Chars) /\ Len(TextOf(buf', n)) = n
  BY StrlenIsEnd, TextIsSeq

\* A character is inserted at the cursor, if there is room.
LEMMA TextInsertStep ==
  ASSUME TextSized, TextInv, NEW c \in Chars, SoskText!InputChar(c)
  PROVE  TextInv' /\ SoskText!Line!Insert(c)
<1> DEFINE n  == length - 1
           at == Place
           s  == TextOf(buf, n)
           t  == TextOf(buf', n + 1)
<1>0. at \in Nat
  BY PlaceTyped
<1>1. /\ buf' \in Buffers /\ Ends(buf', n + 1) /\ length' = length + 1
      /\ at \in 0 .. n
      /\ \A i \in 0 .. at - 1 : buf'[i] = buf[i]
      /\ buf'[at] = c
      /\ \A i \in at .. n - 1 : buf'[i + 1] = buf[i]
  BY InputBuf
<1>2. /\ s \in Seq(Chars) /\ Len(s) = n /\ n \in Nat /\ SoskText!Strlen(buf) = n
      /\ length = n + 1 /\ length \in Nat
  BY LineText
<1>n. /\ length' = length + 1 /\ at \in 0 .. n /\ n \in Nat /\ length = n + 1
      /\ at = Place
  BY <1>1, <1>2
<1>3. t \in Seq(Chars) /\ Len(t) = n + 1 /\ SoskText!Strlen(buf') = n + 1
  BY <1>1, <1>2, TextNextLine
<1>4. /\ offset' \in Nat /\ cursorPos' \in 0 .. Width - 1 /\ Place' = at + 1
  <2> HIDE DEF n, at
  <2>1. SoskText!Forward(length + 1) /\ length + 1 \in Nat
    BY <1>n DEF SoskText!InputChar
  <2>2. Place < length + 1 - 1 /\ length <= length + 1
    BY <1>0, <1>n
  <2> QED BY <1>0, <1>n, <2>1, <2>2, ForwardOne
<1>5. length + 1 <= TextMax
  BY DEF SoskText!InputChar
<1>6. \A i \in 1 .. n : s[i] = buf[i - 1]
  BY DEF TextOf
<1>7. \A i \in 1 .. n + 1 : t[i] = buf'[i - 1]
  BY DEF TextOf
<1>8. TextInv'
  <2>1. length' \in Nat \ {0} /\ length' - 1 = n + 1 /\ Place' < length'
    <3> HIDE DEF n, at, s, t
    <3> QED BY <1>0, <1>n, <1>4
  <2> QED BY <1>1, <1>4, <2>1 DEF TextInv, Buffers, SoskText!Cells, Ends
<1> HIDE DEF n, at, s, t
<1>9. t = SubSeq(s, 1, at) \o <<c>> \o SubSeq(s, at + 1, Len(s))
  <2>1. \A i \in 1 .. at : t[i] = s[i]
    <3>1. \A i \in 1 .. at : i \in 1 .. n /\ i \in 1 .. n + 1 /\ i - 1 \in 0 .. at - 1
      BY <1>1, <1>2
    <3> QED BY <1>1, <1>6, <1>7, <3>1
  <2>2. t[at + 1] = c
    <3>1. at + 1 \in 1 .. n + 1 /\ at + 1 - 1 = at
      BY <1>1, <1>2
    <3> QED BY <1>1, <1>7, <3>1
  <2>3. ASSUME NEW i \in at + 1 .. Len(s) PROVE t[i + 1] = s[i]
    <3>1. /\ i \in 1 .. n /\ i + 1 \in 1 .. n + 1 /\ i - 1 \in at .. n - 1
          /\ i + 1 - 1 = i /\ i - 1 + 1 = i
      BY <1>1, <1>2
    <3>2. buf'[i - 1 + 1] = buf[i - 1]
      BY <1>1, <3>1
    <3> QED BY <1>6, <1>7, <3>1, <3>2
  <2>4. at \in 0 .. Len(s) /\ Len(t) = Len(s) + 1
    BY <1>1, <1>2, <1>3
  <2>5. s \in Seq(Chars) /\ t \in Seq(Chars)
    BY <1>2, <1>3
  <2> QED BY <2>1, <2>2, <2>3, <2>4, <2>5, InsertText
<1>10. Len(s) < TextMax - 1
  BY <1>2, <1>5 DEF TextSized
<1>11. TextOf(buf, SoskText!Strlen(buf)) = s /\ TextOf(buf', SoskText!Strlen(buf')) = t
  BY <1>2, <1>3 DEF s, t
<1>12. SoskText!Line!Insert(c)
  <2>1. SoskText!Line!Before = SubSeq(s, 1, at) /\ SoskText!Line!After = SubSeq(s, at + 1, Len(s))
    BY <1>11 DEF SoskText!Line!Before, SoskText!Line!After, TextOf, at, Place
  <2>2. offset' + cursorPos' = offset + cursorPos + 1
    BY <1>4 DEF at, Place
  <2> QED BY <1>9, <1>10, <1>11, <2>1, <2>2 DEF SoskText!Line!Insert, TextOf
<1> QED BY <1>8, <1>12

\* A character is deleted, before the cursor or at it.
LEMMA TextDeleteStep ==
  ASSUME TextSized, TextInv, SoskText!InputBs
  PROVE  TextInv' /\ SoskText!Line!Delete
<1> DEFINE n  == length - 1
           at == Place
           s  == TextOf(buf, n)
           t  == TextOf(buf', n - 1)
<1>0. at \in Nat
  BY PlaceTyped
<1>1. /\ buf' \in Buffers /\ Ends(buf', n - 1) /\ length' = length - 1
      /\ at \in 1 .. n
      /\ \A i \in 0 .. at - 2 : buf'[i] = buf[i]
      /\ \A i \in at - 1 .. n - 2 : buf'[i] = buf[i + 1]
  BY BackBuf
<1>2. /\ s \in Seq(Chars) /\ Len(s) = n /\ n \in Nat /\ SoskText!Strlen(buf) = n
      /\ length = n + 1 /\ length \in Nat
  BY LineText
<1>n. /\ length' = length - 1 /\ at \in 1 .. n /\ n \in Nat /\ length = n + 1
      /\ at = Place
  BY <1>1, <1>2
<1>3. t \in Seq(Chars) /\ Len(t) = n - 1 /\ SoskText!Strlen(buf') = n - 1 /\ n - 1 \in Nat
  BY <1>1, <1>2, TextNextLine
<1>4. /\ offset' \in Nat /\ cursorPos' \in 0 .. Width - 1 /\ Place' = at - 1
  <2> HIDE DEF n, at
  <2>1. SoskText!Back
    BY DEF SoskText!InputBs
  <2>2. Place > 0
    BY <1>0, <1>n
  <2> QED BY <1>n, <2>1, <2>2, BackOne
<1>6. \A i \in 1 .. n : s[i] = buf[i - 1]
  BY DEF TextOf
<1>7. \A i \in 1 .. n - 1 : t[i] = buf'[i - 1]
  BY DEF TextOf
<1>8. TextInv'
  <2>1. length' \in Nat \ {0} /\ length' - 1 = n - 1 /\ Place' < length'
    <3> HIDE DEF n, at, s, t
    <3> QED BY <1>0, <1>n, <1>4
  <2> QED BY <1>1, <1>4, <2>1 DEF TextInv, Buffers, SoskText!Cells, Ends
<1> HIDE DEF n, at, s, t
<1>9. t = SubSeq(s, 1, at - 1) \o SubSeq(s, at + 1, Len(s))
  <2>1. \A i \in 1 .. at - 1 : t[i] = s[i]
    <3>1. \A i \in 1 .. at - 1 : i \in 1 .. n /\ i \in 1 .. n - 1 /\ i - 1 \in 0 .. at - 2
      BY <1>1, <1>2
    <3> QED BY <1>1, <1>6, <1>7, <3>1
  <2>2. ASSUME NEW i \in at .. Len(s) - 1 PROVE t[i] = s[i + 1]
    <3>1. /\ i \in 1 .. n - 1 /\ i + 1 \in 1 .. n /\ i - 1 \in at - 1 .. n - 2
          /\ i + 1 - 1 = i /\ i - 1 + 1 = i
      BY <1>1, <1>2
    <3>2. buf'[i - 1] = buf[i - 1 + 1]
      BY <1>1, <3>1
    <3> QED BY <1>6, <1>7, <3>1, <3>2
  <2>3. at \in 1 .. Len(s) /\ Len(t) = Len(s) - 1
    BY <1>1, <1>2, <1>3
  <2>4. s \in Seq(Chars) /\ t \in Seq(Chars)
    BY <1>2, <1>3
  <2> QED BY <2>1, <2>2, <2>3, <2>4, DeleteText
<1>10. TextOf(buf, SoskText!Strlen(buf)) = s /\ TextOf(buf', SoskText!Strlen(buf')) = t
  BY <1>2, <1>3 DEF s, t
<1>11. SoskText!Line!Delete
  <2>1. SoskText!Line!After = SubSeq(s, at + 1, Len(s))
    BY <1>10 DEF SoskText!Line!After, TextOf, at, Place
  <2>2. Place' = Place - 1 /\ Place > 0
    BY <1>0, <1>n, <1>4
  <2>3. offset' + cursorPos' = (offset + cursorPos) - 1 /\ offset + cursorPos > 0
    <3>0. at = offset + cursorPos /\ Place' = offset' + cursorPos'
      BY DEF at, Place
    <3>1. offset' + cursorPos' = (offset + cursorPos) - 1
      BY <1>4, <3>0
    <3>2. offset + cursorPos > 0
      BY <2>2, Zenon DEF Place
    <3> QED BY <3>1, <3>2
  <2>4. SubSeq(s, 1, at - 1)
          = SubSeq(TextOf(buf, SoskText!Strlen(buf)), 1, (offset + cursorPos) - 1)
    <3>1. at = offset + cursorPos
      BY DEF at, Place
    <3>2. at - 1 = (offset + cursorPos) - 1
      BY <3>1
    <3> QED BY <1>10, <3>2
  <2> QED BY <1>9, <1>10, <2>1, <2>3, <2>4 DEF SoskText!Line!Delete, TextOf
<1> QED BY <1>8, <1>11

\* Keys that move the cursor leave the text as it is.
LEMMA TextCursorStep ==
  ASSUME TextSized, TextInv, SoskText!CursorForward \/ SoskText!CursorBack
  PROVE  TextInv' /\ [SoskText!Line!Next]_(SoskText!Line!vars)
<1>0. Place \in Nat
  BY PlaceTyped
<1>1. UNCHANGED <<buf, length>> /\ SoskText!Strlen(buf') = SoskText!Strlen(buf)
  BY DEF SoskText!CursorForward, SoskText!CursorBack
<1>2. /\ SoskText!Strlen(buf) = length - 1 /\ length \in Nat \ {0} /\ Place < length
      /\ Len(TextOf(buf, SoskText!Strlen(buf))) = length - 1
  BY LineText DEF TextInv
<1>3. ASSUME offset' \in Nat, cursorPos' \in 0 .. Width - 1, Place' \in Nat, Place' < length
      PROVE  TextInv'
  BY <1>1, <1>3 DEF TextInv, Ends, Buffers, SoskText!Cells
<1>4. CASE SoskText!CursorForward
  <2>1. /\ offset' \in Nat /\ cursorPos' \in 0 .. Width - 1
        /\ Place' = IF Place < length - 1 THEN Place + 1 ELSE Place
    BY <1>2, <1>4, ForwardOne DEF SoskText!CursorForward
  <2>2. TextInv'
    BY <1>0, <1>2, <1>3, <2>1
  <2>3. CASE Place < length - 1
    <3>1. Place' = Place + 1 /\ Place < Len(TextOf(buf, SoskText!Strlen(buf)))
      BY <1>2, <2>1, <2>3
    <3>2. SoskText!Line!Right
      BY <1>1, <3>1 DEF SoskText!Line!Right, Place, TextOf
    <3> QED BY <2>2, <3>2 DEF SoskText!Line!Next
  <2>4. CASE ~(Place < length - 1)
    <3>1. Place' = Place
      BY <2>1, <2>4
    <3> QED BY <1>1, <2>2, <3>1 DEF SoskText!Line!vars, Place
  <2> QED BY <2>3, <2>4
<1>5. CASE SoskText!CursorBack
  <2>1. /\ offset' \in Nat /\ cursorPos' \in 0 .. Width - 1
        /\ Place' = IF Place > 0 THEN Place - 1 ELSE 0
    BY <1>5, BackOne DEF SoskText!CursorBack
  <2>2. TextInv'
    BY <1>0, <1>2, <1>3, <2>1
  <2>3. CASE Place > 0
    <3>1. Place' = Place - 1
      BY <2>1, <2>3
    <3>2. SoskText!Line!Left
      BY <1>1, <2>3, <3>1 DEF SoskText!Line!Left, Place, TextOf
    <3> QED BY <2>2, <3>2 DEF SoskText!Line!Next
  <2>4. CASE Place = 0
    <3>1. Place' = Place
      BY <2>1, <2>4
    <3> QED BY <1>1, <2>2, <3>1 DEF SoskText!Line!vars, Place
  <2> QED BY <1>0, <2>3, <2>4
<1> QED BY <1>4, <1>5

\* Every key leaves a text that ends, with its length, and is a step of the line or none.
LEMMA TextNextStep ==
  ASSUME TextSized
  PROVE  TextInv /\ [SoskText!Next]_(SoskText!textVars)
           => TextInv' /\ [SoskText!Line!Next]_(SoskText!Line!vars)
<1> SUFFICES ASSUME TextInv, [SoskText!Next]_(SoskText!textVars)
  PROVE TextInv' /\ [SoskText!Line!Next]_(SoskText!Line!vars)
  OBVIOUS
<1>1. ASSUME NEW c \in Chars, SoskText!InputChar(c)
  PROVE TextInv' /\ [SoskText!Line!Next]_(SoskText!Line!vars)
  BY <1>1, TextInsertStep DEF SoskText!Line!Next
<1>2. CASE SoskText!InputBs
  BY <1>2, TextDeleteStep DEF SoskText!Line!Next
<1>3. CASE SoskText!CursorForward \/ SoskText!CursorBack
  BY <1>3, TextCursorStep
<1>4. CASE UNCHANGED SoskText!textVars
  BY <1>4 DEF SoskText!textVars, TextInv, Ends, Buffers, SoskText!Cells, SoskText!Line!vars,
          SoskText!Strlen, Place
<1> QED BY <1>1, <1>2, <1>3, <1>4 DEF SoskText!Next

\* The buffer's text ends inside of it, its length is kept right, and the cursor stays in the
\* input area and not beyond the text (cdialog/sosk.c), whatever the sizes.
THEOREM TextTypeCorrect ==
  ASSUME TextSized
  PROVE  SoskText!Spec => []SoskText!TypeOK
<1>1. SoskText!Init => TextInv
  BY TextInitInv
<1>2. TextInv => SoskText!TypeOK
  <2> SUFFICES ASSUME TextInv PROVE SoskText!TypeOK
    OBVIOUS
  <2>1. length = SoskText!Strlen(buf) + 1
    BY LineText DEF TextInv
  <2> QED BY <2>1 DEF TextInv, SoskText!TypeOK, Buffers, Place
<1> QED BY <1>1, <1>2, TextNextStep, PTL DEF SoskText!Spec

\* The keyboard is a line editor: characters go in and out where the cursor is and none is lost
\* or doubled, at the NUL as in front of it, and whichever part of the text is shown.
THEOREM TextLineRefines ==
  ASSUME TextSized
  PROVE  SoskText!Spec => SoskText!ImplementsLine
<1>1. SoskText!Init => TextInv /\ SoskText!Line!Init
  BY TextInitInv
<1> QED BY <1>1, TextNextStep, PTL DEF SoskText!Spec, SoskText!ImplementsLine, SoskText!Line!Spec

-----------------------------------------------------------------------------
(* Frames: what the menu and the messages are drawn into. *)

\* Frames have one of the formats and an address of their own.
Framed ==
  /\ FramesOfGame \subseteq [addr : {f.addr : f \in FramesOfGame}, format : Frames!Formats, width : Nat]
  /\ \A f \in FramesOfGame : f.addr \notin {Nowhere, "behind", "third"}
  /\ Nowhere \notin {"behind", "third"}
  /\ MenuScreen.format \in Frames!Formats /\ MenuScreen.width \in Nat

Addresses == {f.addr : f \in FramesOfGame} \cup {"behind", "third"}
PbFrames ==
  [format : Frames!Formats \cup {0}, addr : Addresses \cup {Nowhere}, width : Nat, cached : BOOLEAN,
   pixelSize : Nat, lineSize : Nat, colorConv : {Nowhere} \cup ({"as it is", "blend"} \X Frames!Formats)]
PbParams ==
  [frame : [{0, 1} -> PbFrames], display : {0, 1}, draw : {0, 1}, options : SUBSET Frames!Options]
Typed(p) == p \in PbParams /\ p.draw = 1 - p.display

\* A frame that is to be drawn into by a screen's format, and one that is set up to be.
Given(f, screen, addr) == f.format = screen.format /\ f.width = screen.width /\ f.addr = addr
SetUp(f, screen, addr) ==
  /\ f.addr = addr /\ ~f.cached /\ f.colorConv = <<"blend", screen.format>>
  /\ f.lineSize = screen.width * Frames!PixelDataSize(screen.format)

\* pbApply gives a frame the functions and the line of its own format.
LEMMA Configured ==
  ASSUME NEW f \in PbFrames, NEW opt, NEW screen, NEW addr,
         Given(f, screen, addr), screen.format \in Frames!Formats, screen.width \in Nat,
         "BLEND" \in opt, "NO_CACHE" \in opt
  PROVE  Frames!FramebufConf(f, opt) \in PbFrames /\ SetUp(Frames!FramebufConf(f, opt), screen, addr)
         /\ Frames!FramebufConf(f, opt).addr = f.addr
<1> DEFINE bytes == Frames!PixelDataSize(f.format)
           across == f.width * bytes
           g == Frames!FramebufConf(f, opt)
<1>1. bytes \in Nat /\ f.width \in Nat /\ f.format \in Frames!Formats
  BY DEF Frames!PixelDataSize, PbFrames, Given
<1>2. across \in Nat
  <2>1. \A a, b \in Nat : a * b \in Nat
    OBVIOUS
  <2> HIDE DEF bytes
  <2> QED BY <1>1, <2>1
<1>3. across = screen.width * Frames!PixelDataSize(screen.format)
  BY DEF Given
<1>4. Frames!Blender(f.format) = <<"blend", f.format>>
  BY <1>1 DEF Frames!Blender
<1>5. g = [f EXCEPT !.pixelSize = bytes, !.lineSize = across, !.cached = ("NO_CACHE" \notin opt),
                    !.colorConv = <<"blend", f.format>>]
  BY <1>4 DEF Frames!FramebufConf
<1> HIDE DEF g, across, bytes
<1>6. g = [format |-> f.format, addr |-> f.addr, width |-> f.width, cached |-> FALSE,
           pixelSize |-> bytes, lineSize |-> across, colorConv |-> <<"blend", f.format>>]
  BY <1>5 DEF PbFrames
<1>7. g \in PbFrames
  BY <1>1, <1>2, <1>6 DEF PbFrames
<1>8. SetUp(g, screen, addr)
  BY <1>3, <1>6 DEF SetUp, Given
<1> QED BY <1>6, <1>7, <1>8 DEF g

\* The two frames after a change of one of them.
Same(q, p) == q.display = p.display /\ q.draw = p.draw

\* One of the two frames is set, and the rest stays.
LEMMA FrameSet ==
  ASSUME NEW p \in PbParams, NEW n \in {0, 1}, NEW f \in PbFrames
  PROVE  LET q == [p EXCEPT !.frame[n] = f]
         IN  /\ q \in PbParams /\ Same(q, p) /\ q.options = p.options
             /\ q.frame[n] = f /\ \A m \in {0, 1} : m # n => q.frame[m] = p.frame[m]
BY DEF PbParams, Same

GivenTo(p, n, screen, addr) ==
  [p EXCEPT !.frame[n].format = screen.format, !.frame[n].addr = addr, !.frame[n].width = screen.width]

\* One of the two frames gets its address, format and width, and the rest stays.
LEMMA FrameGiven ==
  ASSUME NEW p \in PbParams, NEW n \in {0, 1}, NEW screen, NEW addr \in Addresses,
         screen.format \in Frames!Formats, screen.width \in Nat
  PROVE  LET q == GivenTo(p, n, screen, addr)
         IN  /\ q \in PbParams /\ Same(q, p) /\ q.options = p.options
             /\ Given(q.frame[n], screen, addr)
             /\ \A m \in {0, 1} : m # n => q.frame[m] = p.frame[m]
<1> DEFINE a == [p EXCEPT !.frame[n].format = screen.format]
           b == [a EXCEPT !.frame[n].addr = addr]
           c == [b EXCEPT !.frame[n].width = screen.width]
           f == [p.frame[n] EXCEPT !.format = screen.format]
           g == [f EXCEPT !.addr = addr]
           h == [g EXCEPT !.width = screen.width]
<1>1. f \in PbFrames /\ f.format = screen.format
  BY DEF PbParams, PbFrames
<1>2. g \in PbFrames /\ g.format = f.format /\ g.addr = addr
  <2> HIDE DEF f
  <2> QED BY <1>1 DEF PbFrames
<1>3. h \in PbFrames /\ h.format = g.format /\ h.addr = g.addr /\ h.width = screen.width
  <2> HIDE DEF g
  <2> QED BY <1>2 DEF PbFrames
<1>4. a = [p EXCEPT !.frame[n] = f]
  BY DEF PbParams
<1>5. a \in PbParams /\ Same(a, p) /\ a.options = p.options /\ a.frame[n] = f
      /\ \A m \in {0, 1} : m # n => a.frame[m] = p.frame[m]
  <2> HIDE DEF a, f
  <2> QED BY <1>1, <1>4, FrameSet
<1>6. b = [a EXCEPT !.frame[n] = g]
  <2> HIDE DEF a, f
  <2> QED BY <1>5 DEF PbParams
<1>7. b \in PbParams /\ Same(b, a) /\ b.options = a.options /\ b.frame[n] = g
      /\ \A m \in {0, 1} : m # n => b.frame[m] = a.frame[m]
  <2> HIDE DEF a, b, g
  <2> QED BY <1>2, <1>5, <1>6, FrameSet
<1>8. c = [b EXCEPT !.frame[n] = h]
  <2> HIDE DEF b, g
  <2> QED BY <1>7 DEF PbParams
<1>9. c \in PbParams /\ Same(c, b) /\ c.options = b.options /\ c.frame[n] = h
      /\ \A m \in {0, 1} : m # n => c.frame[m] = b.frame[m]
  <2> HIDE DEF b, c, h
  <2> QED BY <1>3, <1>7, <1>8, FrameSet
<1> HIDE DEF a, b, c, f, g, h
<1>10. c \in PbParams /\ Same(c, p) /\ c.options = p.options /\ Given(c.frame[n], screen, addr)
       /\ \A m \in {0, 1} : m # n => c.frame[m] = p.frame[m]
  BY <1>1, <1>2, <1>3, <1>5, <1>7, <1>9 DEF Same, Given
<1> QED BY <1>10 DEF a, b, c, GivenTo

\* What pbApply makes of the frame that is shown, and of the one that is drawn into.
LEMMA Applied ==
  ASSUME NEW p, Typed(p), NEW screen, NEW addr \in Addresses, Nowhere \notin Addresses,
         screen.format \in Frames!Formats, screen.width \in Nat,
         Given(p.frame[p.display], screen, addr), "BLEND" \in p.options, "NO_CACHE" \in p.options,
         NEW behindAt \in Addresses,
         "DOUBLE_BUFFER" \in p.options => Given(p.frame[p.draw], screen, behindAt)
  PROVE  LET q == Frames!Apply(p)
         IN  /\ Typed(q) /\ Same(q, p) /\ q.options = p.options
             /\ SetUp(q.frame[q.display], screen, addr)
             /\ "DOUBLE_BUFFER" \notin p.options => q.frame[q.draw] = q.frame[q.display]
             /\ "DOUBLE_BUFFER" \in p.options => SetUp(q.frame[q.draw], screen, behindAt)
<1> DEFINE n == p.display
           m == p.draw
           conf == Frames!FramebufConf(p.frame[n], p.options)
           onto == Frames!FramebufConf(p.frame[m], p.options)
           r == [p EXCEPT !.frame[n] = conf]
           q == Frames!Apply(p)
<1>1. /\ p \in PbParams /\ n \in {0, 1} /\ m = 1 - n
      /\ p.frame \in [{0, 1} -> PbFrames] /\ m \in {0, 1} /\ m # n
  <2>1. p \in PbParams /\ n \in {0, 1} /\ m = 1 - n /\ p.frame \in [{0, 1} -> PbFrames]
    BY DEF Typed, PbParams
  <2> HIDE DEF n, m
  <2> QED BY <2>1
<1>2. conf \in PbFrames /\ SetUp(conf, screen, addr)
  <2> HIDE DEF n
  <2> QED BY <1>1, Configured DEF n
<1>3. p.frame[n].addr # Nowhere
  BY DEF Given
<1>6. /\ r \in PbParams /\ Same(r, p) /\ r.options = p.options /\ r.frame[n] = conf
      /\ \A k \in {0, 1} : k # n => r.frame[k] = p.frame[k]
  <2> HIDE DEF conf, n, m
  <2> QED BY <1>1, <1>2, FrameSet
<1>4. CASE "DOUBLE_BUFFER" \notin p.options
  <2>1. q = [r EXCEPT !.frame[m] = conf]
    BY <1>3, <1>4 DEF Frames!Apply, Frames!CurrentDisplay, Frames!IsEnabled
  <2>2. /\ q \in PbParams /\ Same(q, r) /\ q.options = r.options /\ q.frame[m] = conf
        /\ q.frame[n] = r.frame[n]
    <3> HIDE DEF q, r, conf, n, m
    <3> QED BY <1>1, <1>2, <1>6, <2>1, FrameSet
  <2> HIDE DEF q, r, conf, n, m
  <2>3. q.display = n /\ q.draw = m /\ Same(q, p) /\ q.options = p.options
    BY <1>6, <2>2 DEF Same, n, m
  <2>4. q.frame[q.display] = conf /\ q.frame[q.draw] = conf /\ Typed(q)
    BY <1>1, <1>6, <2>2, <2>3 DEF Typed
  <2>5. /\ Typed(q) /\ Same(q, p) /\ q.options = p.options
        /\ SetUp(q.frame[q.display], screen, addr) /\ q.frame[q.draw] = q.frame[q.display]
    BY <1>2, <2>3, <2>4
  <2> QED BY <1>4, <2>5 DEF q
<1>5. CASE "DOUBLE_BUFFER" \in p.options
  <2>1. onto \in PbFrames /\ SetUp(onto, screen, behindAt)
    <3> HIDE DEF m
    <3> QED BY <1>1, <1>5, Configured DEF m
  <2>4. q = [r EXCEPT !.frame[m] = onto]
    BY <1>3, <1>5 DEF Frames!Apply, Frames!CurrentDisplay, Frames!IsEnabled
  <2>5. /\ q \in PbParams /\ Same(q, r) /\ q.options = r.options /\ q.frame[m] = onto
        /\ q.frame[n] = r.frame[n]
    <3> HIDE DEF q, r, conf, onto, n, m
    <3> QED BY <1>1, <1>6, <2>1, <2>4, FrameSet
  <2> HIDE DEF q, r, conf, onto, n, m
  <2>6. q.display = n /\ q.draw = m /\ Same(q, p) /\ q.options = p.options
    BY <1>6, <2>5 DEF Same, n, m
  <2>7. q.frame[q.display] = conf /\ q.frame[q.draw] = onto /\ Typed(q)
    BY <1>1, <1>6, <2>5, <2>6 DEF Typed
  <2>8. /\ Typed(q) /\ Same(q, p) /\ q.options = p.options
        /\ SetUp(q.frame[q.display], screen, addr) /\ SetUp(q.frame[q.draw], screen, behindAt)
    BY <1>2, <2>1, <2>6, <2>7
  <2> QED BY <1>5, <2>8 DEF q
<1> QED BY <1>4, <1>5

\* What the library is when it has just been taken up, and given more options.
LEMMA MoreEnabled ==
  ASSUME NEW p, Typed(p), NEW opt \in SUBSET Frames!Options
  PROVE  /\ Typed(Frames!Enable(p, opt)) /\ Same(Frames!Enable(p, opt), p)
         /\ Frames!Enable(p, opt).frame = p.frame
         /\ Frames!Enable(p, opt).options = p.options \cup opt
  BY DEF Typed, PbParams, Same, Frames!Enable

\* What pbInit leaves is typed.
LEMMA Begun ==
  Typed(Frames!PbInit) /\ Frames!PbInit.options = {}
<1>1. Frames!NoFrame \in PbFrames
  BY DEF Frames!NoFrame, PbFrames
<1>2. Frames!PbInit \in PbParams
  BY <1>1 DEF Frames!PbInit, PbParams
<1> QED BY <1>2 DEF Typed, Frames!PbInit

\* pbSetDisplayBuffer gives the frame that is shown its parameters.
LEMMA Displaying ==
  ASSUME NEW p, Typed(p), NEW screen, NEW addr \in Addresses,
         screen.format \in Frames!Formats, screen.width \in Nat
  PROVE  LET q == Frames!SetDisplayBuffer(p, screen, addr)
         IN  /\ Typed(q) /\ Same(q, p) /\ q.options = p.options
             /\ Given(q.frame[q.display], screen, addr) /\ q.frame[q.draw] = p.frame[p.draw]
<1> DEFINE n == p.display
           q == Frames!SetDisplayBuffer(p, screen, addr)
<1>1. p \in PbParams /\ n \in {0, 1} /\ p.draw \in {0, 1} /\ p.draw # n
  BY DEF Typed, PbParams
<1>2. q = GivenTo(p, n, screen, addr)
  BY DEF Frames!SetDisplayBuffer, GivenTo
<1> HIDE DEF q
<1>3. /\ q \in PbParams /\ Same(q, p) /\ q.options = p.options /\ Given(q.frame[n], screen, addr)
      /\ \A m \in {0, 1} : m # n => q.frame[m] = p.frame[m]
  <2> HIDE DEF n
  <2> QED BY <1>1, <1>2, FrameGiven
<1>4. q.display = n /\ q.draw = p.draw
  BY <1>3 DEF Same
<1>5. Typed(q) /\ Given(q.frame[q.display], screen, addr) /\ q.frame[q.draw] = p.frame[p.draw]
  <2> HIDE DEF n
  <2> QED BY <1>1, <1>3, <1>4 DEF Typed, n
<1> QED BY <1>3, <1>5 DEF q

\* pbSetDrawBuffer gives the frame that is drawn into its parameters.
LEMMA DrawingInto ==
  ASSUME NEW p, Typed(p), NEW screen, NEW addr \in Addresses,
         screen.format \in Frames!Formats, screen.width \in Nat
  PROVE  LET q == Frames!SetDrawBuffer(p, screen, addr)
         IN  Typed(q) /\ Same(q, p) /\ q.options = p.options /\ Given(q.frame[q.draw], screen, addr)
<1> DEFINE n == p.draw
           q == Frames!SetDrawBuffer(p, screen, addr)
<1>1. p \in PbParams /\ n \in {0, 1}
  BY DEF Typed, PbParams
<1>2. q = GivenTo(p, n, screen, addr)
  BY DEF Frames!SetDrawBuffer, GivenTo
<1> HIDE DEF q
<1>3. /\ q \in PbParams /\ Same(q, p) /\ q.options = p.options /\ Given(q.frame[n], screen, addr)
  <2> HIDE DEF n
  <2> QED BY <1>1, <1>2, FrameGiven
<1>4. q.draw = n
  BY <1>3 DEF Same
<1>5. Typed(q) /\ Given(q.frame[q.draw], screen, addr)
  BY <1>3, <1>4 DEF Typed, Same
<1> QED BY <1>3, <1>5 DEF q

\* The menu's frames, set up.
MenuOptions == {"NO_CACHE", "BLEND", "STEAL_DISPLAY"}
Ready(q, frames) ==
  /\ Typed(q) /\ "STEAL_DISPLAY" \in q.options /\ "NO_DRAW" \notin q.options
  /\ SetUp(q.frame[q.display], MenuScreen, gameFrame.addr)
  /\ frames.draw = Nowhere => q.frame[q.draw] = q.frame[q.display]
  /\ frames.draw # Nowhere => SetUp(q.frame[q.draw], MenuScreen, "behind")

\* When the menu has set up the library, both frames are of its format.
LEMMA GraphicsReady ==
  ASSUME Framed, gameFrame \in FramesOfGame, NEW frames \in Frames!MenuFrames
  PROVE  Ready(Frames!InitGraphics(frames), frames)
<1>1. /\ MenuScreen.format \in Frames!Formats /\ MenuScreen.width \in Nat /\ Nowhere \notin Addresses
      /\ gameFrame.addr \in Addresses /\ "third" \in Addresses /\ "behind" \in Addresses
      /\ frames.clear \in {"third", Nowhere} /\ frames.draw \in {"behind", Nowhere}
  BY DEF Framed, Addresses, Frames!MenuFrames
<1> DEFINE newly == Frames!Enable(Frames!PbInit, MenuOptions)
           third == Frames!SetDisplayBuffer(newly, MenuScreen, "third")
           begun == Frames!WithClear(newly, frames)
           behind == Frames!SetDrawBuffer(begun, MenuScreen, "behind")
           double == Frames!Enable(behind, {"DOUBLE_BUFFER"})
           two == IF frames.draw = Nowhere THEN begun ELSE double
           full == Frames!SetDisplayBuffer(two, MenuScreen, gameFrame.addr)
<1>2. Typed(newly) /\ newly.options = MenuOptions
  BY Begun, MoreEnabled DEF MenuOptions, Frames!Options
<1>3. Typed(begun) /\ begun.options = MenuOptions
  <2> HIDE DEF newly
  <2>1. CASE frames.clear = Nowhere
    BY <1>2, <2>1 DEF Frames!WithClear
  <2>2. CASE frames.clear = "third"
    <3>1. /\ Typed(third) /\ third.options = MenuOptions
          /\ Given(third.frame[third.display], MenuScreen, "third")
      BY <1>1, <1>2, Displaying
    <3>2. begun = Frames!Apply(third)
      BY <1>1, <2>2 DEF Frames!WithClear, Addresses
    <3> HIDE DEF third, begun
    <3>3. Typed(Frames!Apply(third)) /\ Frames!Apply(third).options = third.options
      BY <1>1, <3>1, Applied DEF MenuOptions
    <3> QED BY <3>1, <3>2, <3>3
  <2> QED BY <1>1, <2>1, <2>2
<1> HIDE DEF newly, begun
<1>4. /\ Typed(two) /\ (frames.draw = Nowhere => two.options = MenuOptions)
      /\ frames.draw # Nowhere =>
           /\ two.options = MenuOptions \cup {"DOUBLE_BUFFER"}
           /\ Given(two.frame[two.draw], MenuScreen, "behind")
  <2>1. /\ Typed(behind) /\ behind.options = MenuOptions
        /\ Given(behind.frame[behind.draw], MenuScreen, "behind")
    BY <1>1, <1>3, DrawingInto
  <2> HIDE DEF behind
  <2>2. /\ Typed(double) /\ Same(double, behind) /\ double.frame = behind.frame
        /\ double.options = behind.options \cup {"DOUBLE_BUFFER"}
    BY <2>1, MoreEnabled DEF Frames!Options
  <2> HIDE DEF double
  <2> QED BY <1>3, <2>1, <2>2 DEF Same
<1> HIDE DEF two
<1>5. /\ Typed(full) /\ full.options = two.options
      /\ Given(full.frame[full.display], MenuScreen, gameFrame.addr)
      /\ full.frame[full.draw] = two.frame[two.draw]
  BY <1>1, <1>4, Displaying
<1>6. Frames!InitGraphics(frames) = Frames!Apply(full)
  <2>1. CASE frames.draw = Nowhere
    BY <2>1 DEF Frames!InitGraphics, newly, begun, two, MenuOptions
  <2>2. CASE frames.draw = "behind"
    BY <1>1, <2>2 DEF Frames!InitGraphics, newly, begun, two, MenuOptions, Addresses
  <2> QED BY <1>1, <2>1, <2>2
<1> HIDE DEF full
<1> DEFINE q == Frames!Apply(full)
<1>7. /\ "BLEND" \in full.options /\ "NO_CACHE" \in full.options /\ "STEAL_DISPLAY" \in full.options
      /\ "NO_DRAW" \notin full.options /\ ("DOUBLE_BUFFER" \in full.options <=> frames.draw # Nowhere)
  BY <1>4, <1>5 DEF MenuOptions
<1>8. "DOUBLE_BUFFER" \in full.options => Given(full.frame[full.draw], MenuScreen, "behind")
  BY <1>4, <1>5, <1>7
<1>9. /\ Typed(q) /\ q.options = full.options /\ SetUp(q.frame[q.display], MenuScreen, gameFrame.addr)
      /\ "DOUBLE_BUFFER" \notin full.options => q.frame[q.draw] = q.frame[q.display]
      /\ "DOUBLE_BUFFER" \in full.options => SetUp(q.frame[q.draw], MenuScreen, "behind")
  BY <1>1, <1>5, <1>7, <1>8, Applied
<1> HIDE DEF q
<1>10. Ready(q, frames)
  BY <1>7, <1>9 DEF Ready
<1> QED BY <1>6, <1>10 DEF q

\* When the notifier has set up the library, it draws in the format of the frame that it has asked
\* for.
LEMMA MessageReady ==
  ASSUME Framed, gameFrame \in FramesOfGame
  PROVE  LET q == Frames!Apply(Frames!SetDisplayBuffer(
                    Frames!Enable(Frames!PbInit, {"NO_CACHE", "BLEND"}), gameFrame, gameFrame.addr))
         IN  Typed(q) /\ "NO_DRAW" \notin q.options /\ SetUp(q.frame[q.draw], gameFrame, gameFrame.addr)
<1> DEFINE newly == Frames!Enable(Frames!PbInit, {"NO_CACHE", "BLEND"})
           onScreen == Frames!SetDisplayBuffer(newly, gameFrame, gameFrame.addr)
           q == Frames!Apply(onScreen)
<1>1. /\ gameFrame.format \in Frames!Formats /\ gameFrame.width \in Nat /\ Nowhere \notin Addresses
      /\ gameFrame.addr \in Addresses
  BY DEF Framed, Addresses
<1>2. Typed(newly) /\ newly.options = {"NO_CACHE", "BLEND"}
  BY Begun, MoreEnabled DEF Frames!Options
<1> HIDE DEF newly
<1>3. /\ Typed(onScreen) /\ onScreen.options = {"NO_CACHE", "BLEND"}
      /\ Given(onScreen.frame[onScreen.display], gameFrame, gameFrame.addr)
  BY <1>1, <1>2, Displaying
<1> HIDE DEF onScreen
<1>4. /\ Typed(q) /\ q.options = onScreen.options /\ SetUp(q.frame[q.display], gameFrame, gameFrame.addr)
      /\ q.frame[q.draw] = q.frame[q.display]
  BY <1>1, <1>3, Applied
<1> HIDE DEF q
<1>5. Typed(q) /\ "NO_DRAW" \notin q.options /\ SetUp(q.frame[q.draw], gameFrame, gameFrame.addr)
  BY <1>3, <1>4
<1> QED BY <1>5 DEF q, onScreen, newly

\* The frames of whoever is drawing, and the frame that is shown instead of the game's.
FramesInv ==
  /\ Typed(pb) /\ gameFrame \in FramesOfGame /\ askedFrame \in FramesOfGame
  /\ drawer \in {"none", "message", "menu"}
  /\ drawer # "menu" => panel = Nowhere
  /\ drawer = "message" =>
       "NO_DRAW" \notin pb.options /\ SetUp(pb.frame[pb.draw], askedFrame, askedFrame.addr)
  /\ drawer = "menu" => "STEAL_DISPLAY" \in pb.options /\ panel = pb.frame[pb.display].addr

TwoInv ==
  drawer = "menu" =>
    \E shownAt, drawnAt \in Addresses :
      /\ SetUp(pb.frame[pb.display], MenuScreen, shownAt)
      /\ SetUp(pb.frame[pb.draw], MenuScreen, drawnAt)
      /\ menuFrames.draw = Nowhere => drawnAt = shownAt
      /\ menuFrames.draw # Nowhere => drawnAt # shownAt /\ "NO_DRAW" \notin pb.options

DrawnInv ==
  put # Nowhere =>
    LET f     == put.frame
        meant == IF put.by = "menu" THEN MenuScreen ELSE put.asked
    IN  /\ SetUp(f, meant, f.addr)
        /\ put.by = "message" => f.addr = put.asked.addr /\ put.shown = Nowhere
        /\ put.by = "menu" => put.two = (f.addr # put.shown)

\* A drawing that is in its format stays, or is followed by one.
LEMMA DrawnStep ==
  ASSUME Framed, FramesInv, TwoInv, DrawnInv, Frames!Next \/ UNCHANGED Frames!vars PROVE DrawnInv'
<1>1. CASE UNCHANGED put
  BY <1>1 DEF DrawnInv
<1>2. CASE Frames!MessageDraw
  <2>1. put' = [frame |-> pb.frame[pb.draw], by |-> "message", asked |-> askedFrame, shown |-> Nowhere,
                two |-> menuFrames.draw # Nowhere]
    BY <1>2 DEF Frames!MessageDraw, Frames!Drawing, Frames!IsEnabled, FramesInv
  <2>2. SetUp(pb.frame[pb.draw], askedFrame, askedFrame.addr)
    BY <1>2 DEF Frames!MessageDraw, FramesInv
  <2>3. pb.frame[pb.draw].addr = askedFrame.addr
    BY <2>2 DEF SetUp
  <2> QED BY <2>1, <2>2, <2>3 DEF DrawnInv
<1>3. ASSUME NEW redraw \in BOOLEAN, Frames!MenuFrame(redraw) PROVE DrawnInv'
  <2>1. PICK shownAt, drawnAt \in Addresses :
          /\ SetUp(pb.frame[pb.display], MenuScreen, shownAt)
          /\ SetUp(pb.frame[pb.draw], MenuScreen, drawnAt)
          /\ menuFrames.draw = Nowhere => drawnAt = shownAt
          /\ menuFrames.draw # Nowhere => drawnAt # shownAt
    BY <1>3 DEF Frames!MenuFrame, TwoInv
  <2>2. \/ UNCHANGED put
        \/ put' = [frame |-> pb.frame[pb.draw], by |-> "menu", asked |-> askedFrame, shown |-> panel,
                   two |-> menuFrames.draw # Nowhere]
    BY <1>3 DEF Frames!MenuFrame, Frames!Drawing, Frames!Enable, Frames!Disable, FramesInv, Typed,
                PbParams
  <2>3. CASE put' = [frame |-> pb.frame[pb.draw], by |-> "menu", asked |-> askedFrame, shown |-> panel,
                     two |-> menuFrames.draw # Nowhere]
    <3>1. panel = shownAt /\ pb.frame[pb.draw].addr = drawnAt
      BY <1>3, <2>1 DEF Frames!MenuFrame, FramesInv, SetUp
    <3>2. (menuFrames.draw # Nowhere) = (drawnAt # shownAt)
      BY <2>1
    <3>3. /\ put'.frame = pb.frame[pb.draw] /\ put'.by = "menu" /\ put'.shown = shownAt
          /\ put'.two = (drawnAt # shownAt)
      BY <2>3, <3>1, <3>2
    <3> QED BY <2>1, <3>1, <3>3 DEF DrawnInv
  <2> QED BY <1>1, <2>2, <2>3
<1> QED BY <1>1, <1>2, <1>3
        DEF Frames!Next, Frames!vars, Frames!GameShows, Frames!MessageBegin, Frames!MenuBegin,
            Frames!MenuFails, Frames!MenuEnd

\* Messages, frames of the menu, opening and closing keep the invariant.
LEMMA FramesStep ==
  ASSUME Framed, FramesInv, TwoInv, Frames!Next \/ UNCHANGED Frames!vars PROVE FramesInv' /\ TwoInv'
<1>1. CASE UNCHANGED Frames!vars
  BY <1>1 DEF Frames!vars, FramesInv, TwoInv
<1>2. CASE Frames!GameShows
  BY <1>2 DEF Frames!GameShows, FramesInv, TwoInv
<1>3. CASE Frames!MessageBegin
  <2>1. /\ Typed(pb') /\ "NO_DRAW" \notin pb'.options
        /\ SetUp(pb'.frame[pb'.draw], gameFrame, gameFrame.addr)
    BY <1>3, MessageReady DEF Frames!MessageBegin, FramesInv
  <2>2. /\ drawer = "none" /\ drawer' = "message" /\ askedFrame' = gameFrame
        /\ UNCHANGED <<panel, gameFrame>>
    BY <1>3 DEF Frames!MessageBegin
  <2> QED BY <2>1, <2>2 DEF FramesInv, TwoInv
<1>4. CASE Frames!MessageDraw
  BY <1>4 DEF Frames!MessageDraw, FramesInv, TwoInv
<1>5. CASE Frames!MenuBegin
  <2>1. PICK frames \in Frames!MenuFrames :
          menuFrames' = frames /\ pb' = Frames!InitGraphics(frames)
    BY <1>5 DEF Frames!MenuBegin
  <2>2. Ready(pb', frames)
    BY <2>1, GraphicsReady DEF FramesInv
  <2>3. drawer' = "menu" /\ panel' = pb'.frame[pb'.display].addr /\ UNCHANGED <<gameFrame, askedFrame>>
    BY <1>5 DEF Frames!MenuBegin, Frames!CurrentDisplay
  <2>4. FramesInv'
    BY <2>2, <2>3 DEF FramesInv, Ready
  <2>5. gameFrame.addr \in Addresses /\ "behind" \in Addresses /\ gameFrame.addr # "behind"
    BY DEF Addresses, FramesInv, Framed
  <2> DEFINE shownAt == gameFrame.addr
             drawnAt == IF frames.draw = Nowhere THEN gameFrame.addr ELSE "behind"
  <2>6. SetUp(pb'.frame[pb'.display], MenuScreen, shownAt) /\ "NO_DRAW" \notin pb'.options
    BY <2>2 DEF Ready
  <2>7. SetUp(pb'.frame[pb'.draw], MenuScreen, drawnAt)
    BY <2>2 DEF Ready
  <2>8. /\ shownAt \in Addresses /\ drawnAt \in Addresses
        /\ frames.draw = Nowhere => drawnAt = shownAt
        /\ frames.draw # Nowhere => drawnAt # shownAt
    BY <2>5
  <2> HIDE DEF shownAt, drawnAt
  <2>9. TwoInv'
    BY <2>1, <2>6, <2>7, <2>8 DEF TwoInv
  <2> QED BY <2>4, <2>9
<1>6. CASE Frames!MenuFails
  <2>1. Typed(pb')
    <3>1. CASE pb' = pb
      BY <3>1 DEF FramesInv
    <3>2. CASE pb' = Frames!Enable(Frames!PbInit, MenuOptions)
      BY <3>2, Begun, MoreEnabled DEF MenuOptions, Frames!Options
    <3>3. ASSUME NEW frames \in Frames!MenuFrames, pb' = Frames!InitGraphics(frames) PROVE Typed(pb')
      BY <3>3, GraphicsReady DEF FramesInv, Ready
    <3> QED BY <1>6, <3>1, <3>2, <3>3 DEF Frames!MenuFails, MenuOptions
  <2>2. panel' = Nowhere /\ drawer = "none" /\ UNCHANGED <<gameFrame, askedFrame, drawer>>
    BY <1>6 DEF Frames!MenuFails, Frames!Returned, FramesInv
  <2> QED BY <2>1, <2>2 DEF FramesInv, TwoInv
<1>7. ASSUME NEW redraw \in BOOLEAN, Frames!MenuFrame(redraw) PROVE FramesInv' /\ TwoInv'
  <2> DEFINE single == menuFrames.draw = Nowhere
             p == IF ~single THEN pb
                  ELSE IF redraw THEN Frames!Disable(pb, {"NO_DRAW"}) ELSE Frames!Enable(pb, {"NO_DRAW"})
  <2>1. PICK shownAt, drawnAt \in Addresses :
          /\ SetUp(pb.frame[pb.display], MenuScreen, shownAt)
          /\ SetUp(pb.frame[pb.draw], MenuScreen, drawnAt)
          /\ menuFrames.draw = Nowhere => drawnAt = shownAt
          /\ menuFrames.draw # Nowhere => drawnAt # shownAt /\ "NO_DRAW" \notin pb.options
    BY <1>7 DEF Frames!MenuFrame, TwoInv
  <2>2. Typed(pb) /\ "STEAL_DISPLAY" \in pb.options /\ drawer = "menu"
    BY <1>7 DEF FramesInv, Frames!MenuFrame
  <2>3. /\ Typed(p) /\ Same(p, pb) /\ p.frame = pb.frame /\ "STEAL_DISPLAY" \in p.options
        /\ ~single => p = pb
    BY <2>2, MoreEnabled DEF Frames!Disable, Typed, PbParams, Same, Frames!Options
  <2>4. pb' = Frames!Swapped(p) /\ panel' = pb'.frame[pb'.display].addr /\ drawer' = "menu"
        /\ UNCHANGED <<gameFrame, askedFrame, menuFrames>>
    BY <1>7 DEF Frames!MenuFrame, Frames!CurrentDisplay
  <2> HIDE DEF p
  <2>5. CASE single
    <3>1. p.frame[p.draw].addr = p.frame[p.display].addr
      BY <2>1, <2>3, <2>5 DEF SetUp, Same
    <3>2. pb' = p
      BY <2>4, <3>1 DEF Frames!Swapped, Frames!CurrentDraw, Frames!CurrentDisplay
    <3>3. FramesInv'
      BY <2>3, <2>4, <3>2 DEF FramesInv
    <3>4. TwoInv'
      BY <2>1, <2>3, <2>4, <2>5, <3>2 DEF TwoInv, Same
    <3> QED BY <3>3, <3>4
  <2>6. CASE ~single
    <3>1. p = pb /\ pb.frame[pb.draw].addr # pb.frame[pb.display].addr
      BY <2>1, <2>3, <2>6 DEF SetUp
    <3>2. pb' = [pb EXCEPT !.display = pb.draw, !.draw = pb.display]
      BY <2>4, <3>1 DEF Frames!Swapped, Frames!CurrentDraw, Frames!CurrentDisplay
    <3>3. /\ Typed(pb') /\ pb'.display = pb.draw /\ pb'.draw = pb.display /\ pb'.frame = pb.frame
          /\ pb'.options = pb.options
      <4>1. pb \in PbParams /\ pb.display \in {0, 1} /\ pb.draw \in {0, 1} /\ pb.draw = 1 - pb.display
        BY <2>2 DEF Typed, PbParams
      <4>2. pb' \in PbParams /\ pb'.display = pb.draw /\ pb'.draw = pb.display /\ pb'.frame = pb.frame
            /\ pb'.options = pb.options
        BY <3>2, <4>1 DEF PbParams
      <4>3. pb.display = 1 - pb.draw
        BY <4>1
      <4> QED BY <4>2, <4>3 DEF Typed
    <3>4. FramesInv'
      BY <2>2, <2>4, <3>3 DEF FramesInv
    <3>5. TwoInv'
      BY <2>1, <2>4, <2>6, <3>3 DEF TwoInv
    <3> QED BY <3>4, <3>5
  <2> QED BY <2>5, <2>6
<1>8. CASE Frames!MenuEnd
  BY <1>8 DEF Frames!MenuEnd, Frames!Returned, Frames!IsEnabled, FramesInv, TwoInv
<1> QED BY <1>1, <1>2, <1>3, <1>4, <1>5, <1>6, <1>7, <1>8 DEF Frames!Next

\* The invariant holds, whatever frames the game shows.
LEMMA FramesInvariant == ASSUME Framed PROVE Frames!Spec => [](FramesInv /\ TwoInv /\ DrawnInv)
<1>1. Frames!Init => FramesInv /\ TwoInv /\ DrawnInv
  <2> SUFFICES ASSUME Frames!Init PROVE FramesInv /\ TwoInv /\ DrawnInv
    OBVIOUS
  <2>1. FramesInv
    BY Begun DEF Frames!Init, FramesInv
  <2>2. TwoInv /\ DrawnInv
    BY DEF Frames!Init, TwoInv, DrawnInv
  <2> QED BY <2>1, <2>2
<1>2. FramesInv /\ TwoInv /\ DrawnInv /\ [Frames!Next]_(Frames!vars)
      => (FramesInv /\ TwoInv /\ DrawnInv)'
  BY FramesStep, DrawnStep
<1> QED BY <1>1, <1>2, PTL DEF Frames!Spec

\* The two frames of the library are apart, and its options are those of pb.h.
THEOREM FramesTypeCorrect == ASSUME Framed PROVE Frames!Spec => []Frames!TypeOK
<1>1. FramesInv => Frames!TypeOK
  BY DEF FramesInv, Typed, PbParams, Frames!TypeOK
<1> QED BY <1>1, FramesInvariant, PTL

\* What is drawn goes to the frame that it is meant for, in its format.
LEMMA DrawnInFormatCorrect == ASSUME Framed PROVE Frames!Spec => []Frames!DrawnInFormat
<1>1. DrawnInv => Frames!DrawnInFormat
  BY DEF DrawnInv, SetUp, Frames!DrawnInFormat
<1> QED BY <1>1, FramesInvariant, PTL

\* The menu draws into the frame that is not shown, if it has one, and gives the display back.
LEMMA DrawnUnseenCorrect == ASSUME Framed PROVE Frames!Spec => []Frames!DrawnUnseen
<1>1. FramesInv /\ DrawnInv => Frames!DrawnUnseen
  BY DEF FramesInv, DrawnInv, Frames!DrawnUnseen, Frames!CurrentDisplay
<1> QED BY <1>1, FramesInvariant, PTL

-----------------------------------------------------------------------------
(* Dmem: a pool of dynamic memory.  Its list is a sequence, but the rest of the invariant     *)
(* only needs the set of its elements: what dmemAlloc and dmemFree do to that set is stated   *)
(* once, in the lemmas on sequences.                                                         *)

\* What the states between two calls have in common beside the properties: a block lies
\* in one heap only, the one its stored pointer names, and a pool that is not there has
\* no heaps.
Placed ==
  /\ \A h \in Heaps : \A b \in inUse[h] : h \in created /\ parent[b] = h
  /\ ~root => heapList = <<>>

IInv == TypeOK /\ NoHeapLost /\ HeldInMemory /\ Placed

\* The list without its n-th heap, element by element.
LEMMA WithoutElements ==
  ASSUME heapList \in Seq(Heaps), NEW n \in 1 .. Len(heapList)
  PROVE  /\ Without(n) \in Seq(Heaps)
         /\ Len(Without(n)) = Len(heapList) - 1
         /\ \A i \in 1 .. Len(heapList) - 1 :
              Without(n)[i] = IF i < n THEN heapList[i] ELSE heapList[i + 1]
<1> DEFINE L == SubSeq(heapList, 1, n - 1)
           R == SubSeq(heapList, n + 1, Len(heapList))
<1>1. Len(heapList) \in Nat /\ \A i \in 1 .. Len(heapList) : heapList[i] \in Heaps
  OBVIOUS
<1>2. L \in Seq(Heaps) /\ Len(L) = n - 1 /\ \A i \in 1 .. n - 1 : L[i] = heapList[i]
  BY <1>1, SubSeqProperties
<1>3. /\ R \in Seq(Heaps) /\ Len(R) = Len(heapList) - n
      /\ \A i \in 1 .. Len(heapList) - n : R[i] = heapList[n + i]
  BY <1>1, SubSeqProperties
<1> HIDE DEF L, R
<1>4. /\ L \o R \in Seq(Heaps)
      /\ Len(L \o R) = Len(heapList) - 1
      /\ \A i \in 1 .. Len(heapList) - 1 :
           (L \o R)[i] = IF i <= n - 1 THEN L[i] ELSE R[i - (n - 1)]
  BY <1>1, <1>2, <1>3, ConcatProperties
<1>5. \A i \in 1 .. Len(heapList) - 1 :
        (L \o R)[i] = IF i < n THEN heapList[i] ELSE heapList[i + 1]
  <2> TAKE i \in 1 .. Len(heapList) - 1
  <2>1. CASE i < n
    BY <1>1, <1>2, <1>4, <2>1
  <2>2. CASE ~(i < n)
    <3>1. i \in Nat /\ i >= n /\ i <= Len(heapList) - 1
      BY <1>1, <2>2
    <3>2. /\ i - (n - 1) \in 1 .. Len(heapList) - n
          /\ n + (i - (n - 1)) = i + 1
      BY <1>1, <3>1
    <3>3. R[i - (n - 1)] = heapList[n + (i - (n - 1))]
      BY <1>3, <3>2
    <3>4. (L \o R)[i] = R[i - (n - 1)]
      BY <1>1, <1>4, <3>1
    <3> QED BY <2>2, <3>2, <3>3, <3>4
  <2> QED BY <2>1, <2>2
<1> QED BY <1>4, <1>5 DEF Without, L, R

\* The heaps in a list without its n-th heap, if no heap is in the list twice.
LEMMA WithoutSet ==
  ASSUME heapList \in Seq(Heaps), NEW n \in 1 .. Len(heapList),
         \A i, j \in 1 .. Len(heapList) : heapList[i] = heapList[j] => i = j
  PROVE  /\ {Without(n)[i] : i \in 1 .. Len(Without(n))} = Listed \ {heapList[n]}
         /\ \A i, j \in 1 .. Len(Without(n)) : Without(n)[i] = Without(n)[j] => i = j
<1> DEFINE W == Without(n)
<1>1. /\ Len(heapList) \in Nat
      /\ Len(W) = Len(heapList) - 1
      /\ \A i \in 1 .. Len(heapList) - 1 : W[i] = IF i < n THEN heapList[i] ELSE heapList[i + 1]
  <2>1. Len(heapList) \in Nat
    BY LenProperties
  <2> QED BY <2>1, WithoutElements, Zenon
<1> HIDE DEF W
<1>2. ASSUME NEW i \in 1 .. Len(W), NEW j \in 1 .. Len(W), W[i] = W[j] PROVE i = j
  BY <1>1, <1>2
<1>3. \A i \in 1 .. Len(W) : W[i] \in Listed \ {heapList[n]}
  BY <1>1 DEF Listed
<1>4. ASSUME NEW m \in 1 .. Len(heapList), m # n
      PROVE  \E i \in 1 .. Len(W) : W[i] = heapList[m]
  <2>1. CASE m < n BY <1>1, <2>1
  <2>2. CASE m > n
    <3>1. m - 1 \in 1 .. Len(W) /\ W[m - 1] = heapList[m] BY <1>1, <2>2
    <3> QED BY <3>1
  <2> QED BY <1>1, <1>4, <2>1, <2>2
<1>5. Listed \ {heapList[n]} \subseteq {W[i] : i \in 1 .. Len(W)}
  BY <1>4 DEF Listed
<1>6. {W[i] : i \in 1 .. Len(W)} = Listed \ {heapList[n]}
  BY <1>3, <1>5
<1> QED BY <1>2, <1>6 DEF W

\* The heaps in a list with one more at its end.
LEMMA AppendSet ==
  ASSUME heapList \in Seq(Heaps), NEW h \in Heaps
  PROVE  LET A == Append(heapList, h) IN
         /\ A \in Seq(Heaps)
         /\ {A[i] : i \in 1 .. Len(A)} = Listed \cup {h}
<1> DEFINE A == Append(heapList, h)
<1>1. /\ A \in Seq(Heaps) /\ Len(heapList) \in Nat
      /\ Len(A) = Len(heapList) + 1 /\ A[Len(heapList) + 1] = h
      /\ \A i \in 1 .. Len(heapList) : A[i] = heapList[i]
  OBVIOUS
<1> HIDE DEF A
<1>2. \A i \in 1 .. Len(A) : A[i] \in Listed \cup {h}
  BY <1>1 DEF Listed
<1>3. Listed \cup {h} \subseteq {A[i] : i \in 1 .. Len(A)}
  <2>1. h \in {A[i] : i \in 1 .. Len(A)} BY <1>1
  <2>2. Listed \subseteq {A[i] : i \in 1 .. Len(A)} BY <1>1 DEF Listed
  <2> QED BY <2>1, <2>2
<1> QED BY <1>1, <1>2, <1>3 DEF A

\* The blocks of a heap can be counted, and never are more than there are.
LEMMA CountBound ==
  ASSUME NEW S \in SUBSET Blocks
  PROVE  IsFiniteSet(S) /\ Cardinality(S) \in 0 .. Cardinality(Blocks)
BY HeapsAssumption, FS_Subset, FS_CardinalityType

\* Handing out one more block, and taking one back.
LEMMA CountSteps ==
  ASSUME NEW S \in SUBSET Blocks, NEW b \in Blocks
  PROVE  /\ b \notin S => Cardinality(S \cup {b}) = Cardinality(S) + 1
         /\ b \in S => Cardinality(S \ {b}) = Cardinality(S) - 1
BY CountBound, FS_AddElement, FS_RemoveElement

-----------------------------------------------------------------------------
\* Before dmemNew nothing is there.
LEMMA InitIInv == Init => IInv
<1> SUFFICES ASSUME Init PROVE IInv
  OBVIOUS
<1>1. Cardinality(Blocks) \in Nat
  BY HeapsAssumption, FS_CardinalityType
<1>2. TypeOK
  <2>1. heapList \in Seq(Heaps)
    BY DEF Init
  <2>2. count \in [Heaps -> 0 .. Cardinality(Blocks)]
    BY <1>1 DEF Init
  <2>3. inUse \in [Heaps -> SUBSET Blocks] /\ parent \in [Blocks -> Heaps \cup {Null}]
    BY DEF Init
  <2> QED BY <2>1, <2>2, <2>3 DEF Init, TypeOK
<1>3. NoHeapLost
  BY DEF Init, NoHeapLost, Listed
<1>4. HeldInMemory /\ Placed
  BY DEF Init, HeldInMemory, InMemory, Placed
<1> QED BY <1>2, <1>3, <1>4 DEF IInv

\* dmemAlloc, once its heap is in the list and has been counted rightly.
LEMMA AllocKeeps ==
  ASSUME IInv, root, NEW b \in Blocks, b \notin InMemory,
         NEW h \in Heaps, HandOut(h, b, Cardinality(inUse[h])),
         created' = created \cup {h}, heapList' \in Seq(Heaps), Listed' = created',
         \A i, j \in 1 .. Len(heapList') : heapList'[i] = heapList'[j] => i = j
  PROVE  IInv'
<1> USE DEF HandOut
<1>1. inUse[h] \in SUBSET Blocks /\ b \notin inUse[h]
  BY DEF IInv, TypeOK, Placed, InMemory
<1>2. /\ inUse' = [inUse EXCEPT ![h] = @ \cup {b}]
      /\ Cardinality(inUse'[h]) = Cardinality(inUse[h]) + 1
  BY <1>1, CountSteps DEF IInv, TypeOK
<1>3. inUse' \in [Heaps -> SUBSET Blocks]
  BY <1>2 DEF IInv, TypeOK
<1>4. count' = [count EXCEPT ![h] = Cardinality(inUse'[h])]
  BY <1>2
<1>5. TypeOK'
  <2>1. Cardinality(inUse'[h]) \in 0 .. Cardinality(Blocks)
    BY <1>3, CountBound
  <2>2. count' \in [Heaps -> 0 .. Cardinality(Blocks)]
    BY <1>4, <2>1 DEF IInv, TypeOK
  <2> QED BY <1>3, <2>2 DEF IInv, TypeOK
<1>6. NoHeapLost'
  <2>1. \A k \in created' : inUse'[k] # {} /\ count'[k] = Cardinality(inUse'[k])
    <3> TAKE k \in created'
    <3>1. CASE k = h BY <1>1, <1>2, <1>4, <3>1 DEF IInv, TypeOK
    <3>2. CASE k # h BY <1>2, <1>4, <3>2 DEF IInv, TypeOK, NoHeapLost
    <3> QED BY <3>1, <3>2
  <2> QED BY <2>1 DEF NoHeapLost
<1>7. HeldInMemory'
  <2>1. InMemory' = InMemory \cup {b}
    BY <1>1, <1>2, <1>3 DEF InMemory, IInv, TypeOK, Placed
  <2>2. \A c \in held' : parent'[c] \in created' /\ c \in inUse'[parent'[c]]
    BY <1>2 DEF IInv, TypeOK, HeldInMemory
  <2> QED BY <2>1, <2>2 DEF IInv, HeldInMemory
<1>8. Placed'
  <2>1. ASSUME NEW k \in Heaps, NEW c \in inUse'[k] PROVE k \in created' /\ parent'[c] = k
    <3>1. c \in Blocks BY <1>3
    <3>2. CASE c = b
      <4>1. b \notin inUse[k] BY DEF InMemory, IInv, Placed
      <4>2. k = h BY <1>2, <3>2, <4>1, <2>1 DEF IInv, TypeOK
      <4> QED BY <3>2, <4>2 DEF IInv, TypeOK
    <3>3. CASE c # b
      <4>1. c \in inUse[k] BY <1>2, <2>1, <3>3 DEF IInv, TypeOK
      <4> QED BY <3>1, <3>3, <4>1 DEF IInv, TypeOK, Placed
    <3> QED BY <3>2, <3>3
  <2> QED BY <2>1 DEF Placed
<1> QED BY <1>5, <1>6, <1>7, <1>8 DEF IInv

\* dmemFree of a block that is not alone in its heap.
LEMMA FreeBlockKeeps ==
  ASSUME IInv, root, NEW b \in held, ~OnlyBlock(parent[b]), FreeBlock(parent[b], b),
         held' = held \ {b}, UNCHANGED <<root, parent>>
  PROVE  IInv'
<1> DEFINE h == parent[b]
<1> USE DEF FreeBlock
<1>1. /\ h \in Heaps /\ h \in created /\ b \in inUse[h] /\ b \in Blocks
      /\ inUse[h] \in SUBSET Blocks /\ count[h] = Cardinality(inUse[h])
  BY DEF IInv, TypeOK, HeldInMemory, NoHeapLost
<1> HIDE DEF h
<1>2. /\ inUse' = [inUse EXCEPT ![h] = @ \ {b}]
      /\ Cardinality(inUse'[h]) = Cardinality(inUse[h]) - 1
  BY <1>1, CountSteps DEF IInv, TypeOK, h
<1>3. inUse' \in [Heaps -> SUBSET Blocks]
  BY <1>2 DEF IInv, TypeOK
<1>4. count' = [count EXCEPT ![h] = Cardinality(inUse'[h])]
  BY <1>1, <1>2 DEF h
<1>5. TypeOK'
  <2>1. Cardinality(inUse'[h]) \in 0 .. Cardinality(Blocks)
    BY <1>1, <1>3, CountBound
  <2>2. count' \in [Heaps -> 0 .. Cardinality(Blocks)]
    BY <1>4, <2>1 DEF IInv, TypeOK
  <2> QED BY <1>3, <2>2 DEF IInv, TypeOK
<1>6. inUse'[h] # {}
  <2>1. Cardinality(inUse[h]) # 1
    BY <1>1 DEF OnlyBlock, h
  <2>2. Cardinality(inUse'[h]) # 0
    BY <1>1, <1>2, <2>1, CountBound
  <2> QED BY <2>2, FS_EmptySet
<1>7. NoHeapLost'
  <2>1. \A k \in created : inUse'[k] # {} /\ count'[k] = Cardinality(inUse'[k])
    BY <1>1, <1>2, <1>4, <1>6 DEF IInv, TypeOK, NoHeapLost
  <2>2. UNCHANGED <<heapList, lastUse, created>>
    OBVIOUS
  <2>3. NoHeapLost
    BY DEF IInv
  <2> HIDE DEF FreeBlock
  <2> QED BY <2>1, <2>2, <2>3 DEF NoHeapLost, Listed
<1>8. HeldInMemory'
  <2>1. InMemory' = InMemory \ {b}
    BY <1>1, <1>2 DEF InMemory, IInv, TypeOK, Placed
  <2>2. \A c \in held' : parent'[c] \in created' /\ c \in inUse'[parent'[c]]
    BY <1>1, <1>2 DEF IInv, TypeOK, HeldInMemory
  <2> QED BY <2>1, <2>2 DEF IInv, HeldInMemory
<1>9. Placed'
  BY <1>1, <1>2 DEF IInv, TypeOK, Placed
<1> QED BY <1>5, <1>7, <1>8, <1>9 DEF IInv

\* dmemFree of the only block of a heap.
LEMMA FreeHeapKeeps ==
  ASSUME IInv, root, NEW b \in held, OnlyBlock(parent[b]), FreeHeap(parent[b]),
         held' = held \ {b}, UNCHANGED <<root, parent>>
  PROVE  IInv'
<1> DEFINE h == parent[b]
<1>1. /\ h \in Heaps /\ h \in created /\ b \in inUse[h] /\ b \in Blocks
      /\ inUse[h] \in SUBSET Blocks /\ Cardinality(inUse[h]) = 1
  BY DEF IInv, TypeOK, HeldInMemory, NoHeapLost, OnlyBlock
<1>2. inUse[h] = {b}
  <2>1. Cardinality(inUse[h] \ {b}) = 0 BY <1>1, CountSteps
  <2>2. IsFiniteSet(inUse[h] \ {b}) BY <1>1, CountBound
  <2>3. inUse[h] \ {b} = {} BY <2>1, <2>2, FS_EmptySet
  <2> QED BY <1>1, <2>3
<1>3. PICK n \in 1 .. Len(heapList) :
        heapList[n] = h /\ heapList' = Without(n) /\ lastUse' = LastUseBeside(n)
  BY DEF FreeHeap
<1> HIDE DEF h
<1>4. /\ created' = created \ {h}
      /\ inUse' = [k \in Heaps |-> IF k = h THEN {} ELSE inUse[k]]
      /\ UNCHANGED <<count, parent, root>>
  BY DEF h, FreeHeap, HeapsGone
<1>5. /\ heapList' \in Seq(Heaps) /\ Listed' = created'
      /\ \A i, j \in 1 .. Len(heapList') : heapList'[i] = heapList'[j] => i = j
  <2>1. /\ heapList \in Seq(Heaps) /\ Listed = created
        /\ \A i, j \in 1 .. Len(heapList) : heapList[i] = heapList[j] => i = j
    BY DEF IInv, TypeOK, NoHeapLost
  <2>2. Without(n) \in Seq(Heaps)
    BY <2>1, WithoutElements
  <2>3. /\ {Without(n)[i] : i \in 1 .. Len(Without(n))} = Listed \ {heapList[n]}
        /\ \A i, j \in 1 .. Len(Without(n)) : Without(n)[i] = Without(n)[j] => i = j
    BY <2>1, WithoutSet
  <2>4. Listed' = {heapList'[i] : i \in 1 .. Len(heapList')}
    BY DEF Listed
  <2>5. heapList' = Without(n) /\ heapList[n] = h
    BY <1>3
  <2> QED BY <1>4, <2>1, <2>2, <2>3, <2>4, <2>5
<1>6. IF created' = {} THEN lastUse' = Null ELSE lastUse' \in created'
  <2>1. Listed = created /\ lastUse \in created /\ Len(heapList) \in Nat
    BY <1>1 DEF IInv, TypeOK, NoHeapLost
  <2>2. CASE lastUse # h
    BY <1>3, <1>4, <2>1, <2>2 DEF LastUseBeside
  <2>3. CASE lastUse = h /\ n > 1
    <3>1. n - 1 \in 1 .. Len(heapList) /\ heapList[n - 1] # h
      BY <1>3, <2>1, <2>3 DEF IInv, NoHeapLost
    <3>2. heapList[n - 1] \in created'
      BY <1>4, <2>1, <3>1 DEF Listed
    <3> QED BY <1>3, <2>3, <3>2 DEF LastUseBeside, Beside
  <2>4. CASE lastUse = h /\ n = 1 /\ Len(heapList) > 1
    <3>1. 2 \in 1 .. Len(heapList) /\ heapList[2] # h
      BY <1>3, <2>1, <2>4 DEF IInv, NoHeapLost
    <3>2. heapList[2] \in created'
      BY <1>4, <2>1, <3>1 DEF Listed
    <3> QED BY <1>3, <2>4, <3>2 DEF LastUseBeside, Beside
  <2>5. CASE lastUse = h /\ n = 1 /\ Len(heapList) = 1
    <3>1. created' = {}
      BY <1>3, <1>4, <2>1, <2>5 DEF Listed
    <3> QED BY <1>3, <2>5, <3>1 DEF LastUseBeside, Beside
  <2>6. n > 1 \/ (n = 1 /\ Len(heapList) > 1) \/ (n = 1 /\ Len(heapList) = 1)
    <3>1. n \in Nat /\ n >= 1 /\ n <= Len(heapList)
      BY <1>3, <2>1
    <3>2. \A i, l \in Nat : i >= 1 /\ i <= l => i > 1 \/ (i = 1 /\ l > 1) \/ (i = 1 /\ l = 1)
      OBVIOUS
    <3> QED BY <2>1, <3>1, <3>2, Zenon
  <2> QED BY <2>2, <2>3, <2>4, <2>5, <2>6
<1>7. TypeOK'
  BY <1>4, <1>5, <1>6 DEF IInv, TypeOK
<1>8. NoHeapLost'
  BY <1>4, <1>5, <1>6 DEF IInv, TypeOK, NoHeapLost
<1>9. HeldInMemory'
  <2>1. \A k \in created : k # h => k \in created' /\ inUse'[k] = inUse[k] /\ b \notin inUse[k]
    BY <1>1, <1>4 DEF IInv, TypeOK, Placed, h
  <2>2. \A c : c \in InMemory <=> \E k \in created : c \in inUse[k]
    BY DEF InMemory
  <2>3. \A c : c \in InMemory' <=> \E k \in created' : c \in inUse'[k]
    BY DEF InMemory
  <2>4. InMemory' = InMemory \ {b}
    <3>1. ASSUME NEW c \in InMemory' PROVE c \in InMemory /\ c # b
      <4>1. PICK k \in created' : c \in inUse'[k] BY <2>3, <3>1
      <4>2. k \in created /\ k # h BY <1>4, <4>1
      <4> QED BY <2>1, <2>2, <4>1, <4>2
    <3>2. ASSUME NEW c \in InMemory, c # b PROVE c \in InMemory'
      <4>1. PICK k \in created : c \in inUse[k] BY <2>2, <3>2
      <4>2. k # h BY <1>2, <3>2, <4>1
      <4> QED BY <2>1, <2>3, <4>1, <4>2
    <3>3. b \in InMemory BY <1>1, <2>2
    <3> QED BY <3>1, <3>2, <3>3
  <2>5. \A c \in held' : parent'[c] \in created' /\ c \in inUse'[parent'[c]]
    BY <1>1, <1>2, <1>4 DEF IInv, TypeOK, HeldInMemory
  <2> QED BY <2>4, <2>5 DEF IInv, HeldInMemory
<1>10. Placed'
  BY <1>1, <1>4 DEF IInv, TypeOK, Placed
<1> QED BY <1>7, <1>8, <1>9, <1>10 DEF IInv

\* Every call keeps the invariant.
LEMMA NextIInv == IInv /\ [Next]_vars => IInv'
<1> SUFFICES ASSUME IInv, [Next]_vars PROVE IInv'
  OBVIOUS
<1>1. CASE UNCHANGED vars
  BY <1>1 DEF vars, IInv, TypeOK, NoHeapLost, HeldInMemory, Placed, InMemory, Listed
<1>2. CASE New
  <2>1. created = {} /\ heapList = <<>> /\ held = {}
    BY <1>2 DEF New, IInv, Placed, NoHeapLost, Listed, HeldInMemory, InMemory
  <2> QED
    BY <1>2, <2>1 DEF New, IInv, TypeOK, NoHeapLost, HeldInMemory, Placed, InMemory, Listed
<1>3. CASE AllocFails
  BY <1>3 DEF AllocFails, vars, IInv, TypeOK, NoHeapLost, HeldInMemory, Placed, InMemory, Listed
<1>4. CASE Destroy
  <2>1. created' = {} /\ inUse' = [h \in Heaps |-> {}] /\ heapList' = <<>> /\ held' = {}
    BY <1>4 DEF Destroy, HeapsGone, IInv, TypeOK, NoHeapLost, Placed
  <2>2. TypeOK'
    <3>1. heapList' \in Seq(Heaps) /\ inUse' \in [Heaps -> SUBSET Blocks] BY <2>1
    <3> QED BY <1>4, <2>1, <3>1 DEF Destroy, IInv, TypeOK
  <2>3. NoHeapLost'
    <3>1. Listed' = {} BY <2>1 DEF Listed
    <3> QED BY <1>4, <2>1, <3>1 DEF Destroy, NoHeapLost
  <2>4. HeldInMemory' /\ Placed'
    BY <1>4, <2>1 DEF HeldInMemory, Placed, InMemory
  <2> QED BY <2>2, <2>3, <2>4 DEF IInv
<1>5. ASSUME NEW b \in Blocks, AllocListed(b) PROVE IInv'
  <2>1. PICK h \in {lastUse} \cup Listed : HandOut(h, b, count[h])
    BY <1>5 DEF AllocListed
  <2>2. h \in created /\ h \in Heaps /\ count[h] = Cardinality(inUse[h])
    BY <1>5, <2>1 DEF AllocListed, IInv, TypeOK, NoHeapLost
  <2>3. /\ created' = created \cup {h} /\ heapList' = heapList /\ Listed' = created'
        /\ heapList' \in Seq(Heaps)
    BY <1>5, <2>2 DEF AllocListed, IInv, TypeOK, NoHeapLost, Listed
  <2> QED
    BY <1>5, <2>1, <2>2, <2>3, AllocKeeps DEF AllocListed, IInv, NoHeapLost
<1>6. ASSUME NEW b \in Blocks, AllocNew(b) PROVE IInv'
  <2>1. PICK h \in Heaps \ created :
          /\ heapList' = IF lastUse = Null THEN <<h>> ELSE Append(heapList, h)
          /\ created' = created \cup {h}
          /\ HandOut(h, b, 0)
    BY <1>6 DEF AllocNew
  <2>2. inUse[h] = {} /\ Cardinality(inUse[h]) = 0
    BY <2>1, FS_EmptySet DEF IInv, TypeOK, Placed
  <2>3. heapList' = Append(heapList, h)
    <3>1. CASE lastUse = Null
      <4>1. Listed = {} BY <3>1, HeapsAssumption DEF IInv, TypeOK, NoHeapLost
      <4>2. heapList \in Seq(Heaps) /\ Len(heapList) \in Nat BY DEF IInv, TypeOK
      <4>3. Len(heapList) = 0 BY <4>1, <4>2 DEF Listed
      <4>4. heapList = <<>> BY <4>2, <4>3
      <4> QED BY <2>1, <3>1, <4>4
    <3>2. CASE lastUse # Null BY <2>1, <3>2
    <3> QED BY <3>1, <3>2
  <2>4. heapList' \in Seq(Heaps) /\ Listed' = created'
    <3>1. heapList \in Seq(Heaps) /\ Listed = created BY DEF IInv, TypeOK, NoHeapLost
    <3>2. /\ heapList' \in Seq(Heaps)
          /\ {heapList'[i] : i \in 1 .. Len(heapList')} = Listed \cup {h}
      BY <2>1, <2>3, <3>1, AppendSet
    <3> QED BY <2>1, <3>1, <3>2 DEF Listed
  <2>5. \A i, j \in 1 .. Len(heapList') : heapList'[i] = heapList'[j] => i = j
    <3>1. h \notin Listed BY <2>1 DEF IInv, NoHeapLost
    <3>2. /\ Len(heapList) \in Nat /\ Len(heapList') = Len(heapList) + 1
          /\ heapList'[Len(heapList) + 1] = h
          /\ \A i \in 1 .. Len(heapList) : heapList'[i] = heapList[i]
      <4> heapList \in Seq(Heaps) BY DEF IInv, TypeOK
      <4> QED BY <2>1, <2>3
    <3> QED BY <3>1, <3>2 DEF IInv, NoHeapLost, Listed
  <2> QED
    BY <1>6, <2>1, <2>2, <2>4, <2>5, AllocKeeps DEF AllocNew
<1>7. ASSUME NEW b \in Blocks, Free(b) PROVE IInv'
  <2>1. root /\ b \in held /\ held' = held \ {b} /\ UNCHANGED <<root, parent>>
    BY <1>7 DEF Free
  <2>2. lastUse # Null /\ parent[b] \in Listed
    BY <2>1, HeapsAssumption DEF IInv, TypeOK, NoHeapLost, HeldInMemory
  <2>3. CASE OnlyBlock(parent[b])
    BY <1>7, <2>1, <2>2, <2>3, FreeHeapKeeps DEF Free
  <2>4. CASE ~OnlyBlock(parent[b])
    BY <1>7, <2>1, <2>2, <2>4, FreeBlockKeeps DEF Free
  <2> QED BY <2>3, <2>4
<1> QED BY <1>1, <1>2, <1>3, <1>4, <1>5, <1>6, <1>7 DEF Next

-----------------------------------------------------------------------------
\* What holds between two calls of a pool, whatever its users do.
LEMMA Invariant == Spec => []IInv
BY InitIInv, NextIInv, PTL DEF Spec

\* The pool is well typed whatever its users do: counts stay within the number of blocks.
THEOREM TypeCorrect == Spec => []TypeOK
BY Invariant, PTL DEF IInv

\* dmemAlloc and dmemFree lose no heap, keep no empty one and count rightly.
THEOREM NoHeapLostCorrect == Spec => []NoHeapLost
BY Invariant, PTL DEF IInv

\* What a user holds stays in memory until he gives it back, and nothing else is.
THEOREM HeldInMemoryCorrect == Spec => []HeldInMemory
BY Invariant, PTL DEF IInv

\* A call hands out one block that nobody has, takes one back, takes all back, or changes
\* nothing: the pool implements Allocator.
THEOREM PoolIsAllocator == Spec => ImplementsAllocator
<1>1. Init => Alloc!Init
  BY DEF Init, Alloc!Init, InMemory
<1>2. IInv /\ IInv' /\ [Next]_vars => [Alloc!Next]_InMemory
  <2> SUFFICES ASSUME IInv, IInv', [Next]_vars PROVE [Alloc!Next]_InMemory
    OBVIOUS
  <2>1. InMemory = held /\ InMemory' = held'
    BY DEF IInv, HeldInMemory
  <2>2. CASE UNCHANGED held
    BY <2>1, <2>2
  <2>3. ASSUME NEW b \in Blocks, b \notin InMemory, held' = held \cup {b}
        PROVE  Alloc!Next
    BY <2>1, <2>3 DEF Alloc!Next, Alloc!Alloc
  <2>4. ASSUME NEW b \in Blocks, b \in held, held' = held \ {b}
        PROVE  Alloc!Next
    BY <2>1, <2>4 DEF Alloc!Next, Alloc!Free
  <2>5. CASE Destroy
    BY <2>1, <2>5 DEF Destroy, Alloc!Next, Alloc!Destroy
  <2> QED
    BY <2>2, <2>3, <2>4, <2>5
    DEF Next, vars, New, AllocFails, AllocListed, AllocNew, HandOut, Free
<1> QED
  BY <1>1, <1>2, Invariant, PTL DEF Spec, ImplementsAllocator, Alloc!Spec

-----------------------------------------------------------------------------
(* Memory: blocks of a partition, for any users, sizes and pages. *)

\* Sizes are numbers, and Nowhere is neither an address nor a block.
Partition ==
  /\ PartitionEnd \in Nat /\ Page \in Nat \ {0} /\ AskedSizes \subseteq Nat
  /\ Nowhere \notin Int /\ Nowhere \notin [at : Nat, size : Nat]

Alignments == {0, 1, 2, 4, 8, 16}

\* What a user has: a block of the partition with a header and what was asked for in it.
Has(u) ==
  LET p    == ptr[u]
      b    == block[u]
      real == Memory!RealSize(asked[u].size)
  IN  /\ b \in [at : Nat, size : Nat] /\ Memory!Span(b) \subseteq Memory!Addresses
      /\ asked[u] \in [size : Nat \ {0}, align : Alignments]
      /\ p \in Nat /\ b.at <= p - 1 /\ p + real <= b.at + b.size
      /\ asked[u].align > 0 => p % asked[u].align = 0
      /\ mem[p - 1] = Memory!Header(u, b, real, asked[u].align)
      /\ \A i \in 0 .. real - 1 : mem[p + i] = Memory!Filled(u, i)

MemoryInv ==
  /\ block = [u \in MemoryUsers |-> block[u]] /\ ptr = [u \in MemoryUsers |-> ptr[u]]
  /\ asked = [u \in MemoryUsers |-> asked[u]] /\ DOMAIN mem = Memory!Addresses
  /\ \A u \in MemoryUsers : (block[u] = Nowhere) = (ptr[u] = Nowhere)
  /\ \A u \in MemoryUsers : ptr[u] # Nowhere => Has(u)
  /\ \A u, v \in MemoryUsers : u # v /\ block[u] # Nowhere /\ block[v] # Nowhere =>
       Memory!Span(block[u]) \cap Memory!Span(block[v]) = {}

\* Rounding up.
LEMMA CeilUp ==
  ASSUME NEW n \in Nat, NEW k \in Nat \ {0}
  PROVE  Memory!Ceil(n, k) \in Nat /\ n <= Memory!Ceil(n, k)
<1> DEFINE m == n + k - 1
           q == m \div k
           r == m % k
<1>1. m \in Nat /\ m = (n + k) - 1
  OBVIOUS
<1>2. q \in Nat /\ r \in 0 .. k - 1 /\ m = k * q + r
  BY <1>1
<1>3. Memory!Ceil(n, k) = q * k
  BY DEF Memory!Ceil
<1> HIDE DEF m, q, r
<1>4. q * k = k * q /\ q * k \in Nat
  BY <1>2
<1> QED BY <1>1, <1>2, <1>3, <1>4

\* Alignment moves a pointer by less than the alignment.
LEMMA PointerAligned ==
  ASSUME NEW b \in [at : Nat, size : Nat], NEW align \in Alignments
  PROVE  /\ Memory!Pointer(b, align) \in Nat
         /\ b.at + 1 <= Memory!Pointer(b, align) /\ Memory!Pointer(b, align) <= b.at + 1 + align
         /\ align > 0 => Memory!Pointer(b, align) % align = 0
<1> DEFINE a == b.at
<1>1. a \in Nat
  OBVIOUS
<1>2. Memory!Pointer(b, align) =
        IF align = 0 THEN a + 1 ELSE (((a + 1) + align - 1) \div align) * align
  BY DEF Memory!Pointer, Memory!Ceil
<1> HIDE DEF a
<1>3. CASE align = 0
  BY <1>1, <1>2, <1>3 DEF a
<1>4. CASE align = 1
  BY <1>1, <1>2, <1>4 DEF a
<1>5. CASE align = 2
  BY <1>1, <1>2, <1>5 DEF a
<1>6. CASE align = 4
  BY <1>1, <1>2, <1>6 DEF a
<1>7. CASE align = 8
  BY <1>1, <1>2, <1>7 DEF a
<1>8. CASE align = 16
  BY <1>1, <1>2, <1>8 DEF a
<1> QED BY <1>3, <1>4, <1>5, <1>6, <1>7, <1>8 DEF Alignments

\* The largest and the smallest of two numbers.
LEMMA MaxOfTwo == ASSUME NEW n \in Nat PROVE Memory!Max({n, 1}) \in Nat \ {0}
<1>1. \E x \in {n, 1} : \A y \in {n, 1} : x >= y
  <2>1. CASE n >= 1
    BY <2>1
  <2>2. CASE n < 1
    BY <2>2
  <2> QED BY <2>1, <2>2
<1>2. Memory!Max({n, 1}) \in {n, 1} /\ \A y \in {n, 1} : Memory!Max({n, 1}) >= y
  BY <1>1 DEF Memory!Max
<1> QED BY <1>2

\* The smaller of two sizes is neither above the one nor above the other.
LEMMA MinOfTwo ==
  ASSUME NEW m \in Nat, NEW n \in Nat
  PROVE  Memory!Min({m, n}) \in Nat /\ Memory!Min({m, n}) <= m /\ Memory!Min({m, n}) <= n
<1>1. \E x \in {m, n} : \A y \in {m, n} : x <= y
  <2>1. CASE m <= n
    BY <2>1
  <2>2. CASE n < m
    BY <2>2
  <2> QED BY <2>1, <2>2
<1>2. Memory!Min({m, n}) \in {m, n} /\ \A y \in {m, n} : Memory!Min({m, n}) <= y
  BY <1>1 DEF Memory!Min
<1> QED BY <1>2

\* What a block of the kernel is that is free: in the partition, apart from all that are in
\* use, and large enough for the header, the alignment and whole pages of what is asked for.
LEMMA KernelBlock ==
  ASSUME Partition, MemoryInv, NEW want \in Nat \ {0}, NEW align \in Alignments,
         NEW b \in Memory!Free(Memory!Needed(want, align))
  PROVE  /\ b \in [at : Nat, size : Nat] /\ Memory!Span(b) \subseteq Memory!Addresses
         /\ \A v \in MemoryUsers :
              block[v] # Nowhere => Memory!Span(block[v]) \cap Memory!Span(b) = {}
         /\ Memory!RealSize(want) \in Nat /\ want <= Memory!RealSize(want)
         /\ Memory!Pointer(b, align) \in Nat /\ b.at <= Memory!Pointer(b, align) - 1
         /\ Memory!Pointer(b, align) + Memory!RealSize(want) <= b.at + b.size
         /\ align > 0 => Memory!Pointer(b, align) % align = 0
<1> DEFINE real   == Memory!RealSize(want)
           needed == Memory!Needed(want, align)
<1>1. real \in Nat /\ want <= real
  BY CeilUp DEF Memory!RealSize, Partition
<1>2. needed = 1 + real + align /\ align \in Nat
  BY DEF Memory!Needed, Alignments
<1> HIDE DEF real
<1>3. needed \in Nat
  BY <1>1, <1>2
<1>4. Memory!Ceil(needed, Page) \in Nat /\ needed <= Memory!Ceil(needed, Page)
  BY <1>3, CeilUp DEF Partition
<1>5. /\ b.at \in Memory!Addresses /\ b.size = Memory!Ceil(needed, Page)
      /\ b \in [at : Memory!Addresses, size : {Memory!Ceil(needed, Page)}]
      /\ Memory!Span(b) \subseteq Memory!Addresses \ Memory!Taken
  BY DEF Memory!Free
<1> HIDE DEF needed
<1>6. b \in [at : Nat, size : Nat]
  BY <1>4, <1>5 DEF Memory!Addresses, Partition
<1>7. \A v \in MemoryUsers : block[v] # Nowhere => Memory!Span(block[v]) \cap Memory!Span(b) = {}
  BY <1>5 DEF Memory!Taken
<1>8. /\ Memory!Pointer(b, align) \in Nat
      /\ b.at + 1 <= Memory!Pointer(b, align) /\ Memory!Pointer(b, align) <= b.at + 1 + align
      /\ align > 0 => Memory!Pointer(b, align) % align = 0
  BY <1>6, PointerAligned
<1>9. b.at <= Memory!Pointer(b, align) - 1 /\ Memory!Pointer(b, align) + real <= b.at + b.size
  BY <1>1, <1>2, <1>4, <1>5, <1>6, <1>8
<1> QED BY <1>1, <1>5, <1>6, <1>7, <1>8, <1>9 DEF real

\* What one user has stays if the memory of its block does.
LEMMA KeptBy ==
  ASSUME Partition, NEW u \in MemoryUsers, Has(u), block'[u] = block[u], ptr'[u] = ptr[u],
         asked'[u] = asked[u], \A i \in Memory!Span(block[u]) : mem'[i] = mem[i]
  PROVE  Has(u)'
<1> DEFINE p    == ptr[u]
           b    == block[u]
           real == Memory!RealSize(asked[u].size)
<1>1. /\ b \in [at : Nat, size : Nat] /\ p \in Nat /\ b.at <= p - 1 /\ p + real <= b.at + b.size
      /\ asked[u].size \in Nat
  BY DEF Has
<1>2. real \in Nat
  BY <1>1, CeilUp DEF Memory!RealSize, Partition
<1>0. real > 0
  BY CeilUp DEF Memory!RealSize, Partition, Has
<1>3. p - 1 \in Memory!Span(b) /\ \A i \in 0 .. real - 1 : p + i \in Memory!Span(b)
  <2> HIDE DEF p, b, real
  <2> QED BY <1>0, <1>1, <1>2 DEF Memory!Span
<1>4. mem'[p - 1] = mem[p - 1] /\ \A i \in 0 .. real - 1 : mem'[p + i] = mem[p + i]
  BY <1>3
<1> QED BY <1>4 DEF Has, Memory!Span, Memory!Addresses, Memory!RealSize, Memory!Ceil,
            Memory!Header, Memory!Filled

\* A user gets a block: it has what it asked for, with as much of the old contents as are kept,
\* and nobody else is touched.
LEMMA OwnsKeeps ==
  ASSUME Partition, MemoryInv, NEW u \in MemoryUsers, NEW want \in Nat \ {0},
         NEW align \in Alignments,
         NEW b \in Memory!Free(Memory!Needed(want, align)), NEW keeps \in Nat,
         keeps <= Memory!RealSize(want),
         keeps > 0 => ptr[u] # Nowhere /\ keeps <= Memory!RealSize(asked[u].size),
         Memory!Owns(u, b, want, align, keeps)
  PROVE  MemoryInv'
<1> DEFINE real == Memory!RealSize(want)
           p    == Memory!Pointer(b, align)
<1>1. /\ b \in [at : Nat, size : Nat] /\ Memory!Span(b) \subseteq Memory!Addresses
      /\ \A v \in MemoryUsers : block[v] # Nowhere => Memory!Span(block[v]) \cap Memory!Span(b) = {}
      /\ real \in Nat /\ want <= real
      /\ p \in Nat /\ b.at <= p - 1 /\ p + real <= b.at + b.size
      /\ align > 0 => p % align = 0
  BY KernelBlock
<1>2. /\ block' = [block EXCEPT ![u] = b] /\ ptr' = [ptr EXCEPT ![u] = p]
      /\ asked' = [asked EXCEPT ![u] = [size |-> want, align |-> align]]
      /\ mem' = Memory!WithBlock(u, b, real, align, keeps)
  BY DEF Memory!Owns
<1> HIDE DEF real, p
<1>3. \A v \in MemoryUsers :
        /\ block'[v] = IF v = u THEN b ELSE block[v]
        /\ ptr'[v] = IF v = u THEN p ELSE ptr[v]
        /\ asked'[v] = IF v = u THEN [size |-> want, align |-> align] ELSE asked[v]
  BY <1>2 DEF MemoryInv
<1>4. b # Nowhere /\ p # Nowhere
  BY <1>1 DEF Partition
<1>5. mem' = [i \in Memory!Addresses |->
                CASE i = p - 1                    -> Memory!Header(u, b, real, align)
                  [] i \in p .. p + keeps - 1     -> mem[ptr[u] + i - p]
                  [] i \in p + keeps .. p + real - 1 -> Memory!Filled(u, i - p)
                  [] i \in Memory!Old(u)               -> Nowhere
                  [] OTHER                        -> mem[i]]
  BY <1>2 DEF Memory!WithBlock, p
<1>6. \A v \in MemoryUsers \ {u} : block[v] # Nowhere
        => \A i \in Memory!Span(block[v]) : mem'[i] = mem[i]
  <2> SUFFICES ASSUME NEW v \in MemoryUsers \ {u}, block[v] # Nowhere,
                      NEW i \in Memory!Span(block[v])
               PROVE  mem'[i] = mem[i]
    OBVIOUS
  <2>1. i \in Memory!Addresses /\ i \in Nat
    BY DEF MemoryInv, Has, Memory!Addresses
  <2>2. i \notin Memory!Old(u)
    BY DEF MemoryInv, Memory!Old
  <2>3. i \notin Memory!Span(b)
    BY <1>1
  <2>4. i # p - 1 /\ i \notin p .. p + keeps - 1 /\ i \notin p + keeps .. p + real - 1
    BY <1>1, <2>1, <2>3 DEF Memory!Span, real
  <2> QED BY <1>5, <2>1, <2>2, <2>4
<1>7. Has(u)'
  <2>1. /\ block'[u] = b /\ ptr'[u] = p /\ asked'[u] = [size |-> want, align |-> align]
    BY <1>3
  <2>2. p - 1 \in Memory!Span(b) /\ \A i \in 0 .. real - 1 : p + i \in Memory!Span(b)
    BY <1>1 DEF Memory!Span
  <2>7. Memory!Span(b) \cap Memory!Old(u) = {}
    BY <1>1 DEF Memory!Old, MemoryInv
  <2>3. mem'[p - 1] = Memory!Header(u, b, real, align)
    <3>1. /\ p - 1 \in Memory!Addresses /\ p - 1 \notin p .. p + keeps - 1
          /\ p - 1 \notin p + keeps .. p + real - 1 /\ p - 1 \notin Memory!Old(u)
      BY <1>1, <2>2, <2>7
    <3> QED BY <1>5, <3>1
  <2>4. \A i \in 0 .. real - 1 : mem'[p + i] = Memory!Filled(u, i)
    <3> SUFFICES ASSUME NEW i \in 0 .. real - 1 PROVE mem'[p + i] = Memory!Filled(u, i)
      OBVIOUS
    <3>1. /\ p + i \in Memory!Addresses /\ p + i # p - 1 /\ i \in Nat /\ (p + i) - p = i
          /\ p + i \notin Memory!Old(u)
      <4>1. i \in Nat /\ p + i \in Memory!Span(b)
        BY <2>2
      <4>2. p + i # p - 1 /\ (p + i) - p = i
        BY <1>1, <4>1
      <4> QED BY <1>1, <2>7, <4>1, <4>2
    <3>2. CASE i < keeps
      <4>1. p + i \in p .. p + keeps - 1 /\ p + i \notin p + keeps .. p + real - 1
        BY <1>1, <3>1, <3>2
      <4>2. mem'[p + i] = mem[ptr[u] + (p + i) - p]
        BY <1>5, <3>1, <4>1
      <4>3. ptr[u] # Nowhere /\ keeps <= Memory!RealSize(asked[u].size)
        BY <3>1, <3>2
      <4>4. Has(u)
        BY <4>3 DEF MemoryInv
      <4>5. ptr[u] \in Nat /\ ptr[u] + (p + i) - p = ptr[u] + i
        BY <1>1, <3>1, <4>4 DEF Has
      <4>6. Memory!RealSize(asked[u].size) \in Nat
        BY <4>4, CeilUp DEF Has, Memory!RealSize, Partition
      <4>7. i \in 0 .. Memory!RealSize(asked[u].size) - 1
        BY <3>1, <3>2, <4>3, <4>6
      <4> QED BY <4>2, <4>4, <4>5, <4>7 DEF Has
    <3>3. CASE i >= keeps
      <4>1. p + i \in p + keeps .. p + real - 1 /\ p + i \notin p .. p + keeps - 1
        BY <1>1, <3>1, <3>3
      <4> QED BY <1>5, <3>1, <4>1
    <3> QED BY <3>2, <3>3, <3>1
  <2>5. Memory!RealSize(want)' = real /\ asked'[u].size = want /\ asked'[u].align = align
    BY <2>1 DEF real, Memory!RealSize, Memory!Ceil
  <2>6. Memory!RealSize(asked[u].size)' = real
    BY <2>1, <2>5 DEF Memory!RealSize, Memory!Ceil
  <2> QED BY <1>1, <2>1, <2>3, <2>4, <2>5, <2>6
          DEF Has, Memory!Span, Memory!Addresses, Memory!Header, Memory!Filled
<1>8. \A v \in MemoryUsers : ptr'[v] # Nowhere => Has(v)'
  <2> SUFFICES ASSUME NEW v \in MemoryUsers, v # u, ptr'[v] # Nowhere PROVE Has(v)'
    BY <1>7
  <2>1. ptr[v] # Nowhere /\ block[v] # Nowhere /\ Has(v)
    BY <1>3 DEF MemoryInv
  <2> QED BY <1>3, <1>6, <2>1, KeptBy
<1>9. \A v, w \in MemoryUsers : v # w /\ block'[v] # Nowhere /\ block'[w] # Nowhere =>
        Memory!Span(block'[v]) \cap Memory!Span(block'[w]) = {}
  BY <1>1, <1>3 DEF MemoryInv
<1>10. \A v \in MemoryUsers : (block'[v] = Nowhere) = (ptr'[v] = Nowhere)
  BY <1>3, <1>4 DEF MemoryInv
<1>11. /\ block' = [v \in MemoryUsers |-> block'[v]] /\ ptr' = [v \in MemoryUsers |-> ptr'[v]]
       /\ asked' = [v \in MemoryUsers |-> asked'[v]] /\ DOMAIN mem' = Memory!Addresses
  BY <1>2, <1>5 DEF MemoryInv
<1>12. Memory!Addresses' = Memory!Addresses
         /\ \A v \in MemoryUsers : Memory!Span(block[v])' = Memory!Span(block'[v])
  BY DEF Memory!Addresses, Memory!Span
<1> QED BY <1>8, <1>9, <1>10, <1>11, <1>12 DEF MemoryInv

\* A block that is given back is that of its user alone.
LEMMA GoneKeeps ==
  ASSUME Partition, MemoryInv, NEW u \in MemoryUsers, ptr[u] # Nowhere, Memory!Gone(u)
  PROVE  MemoryInv'
<1>1. Has(u) /\ block[u] # Nowhere
  BY DEF MemoryInv
<1>2. Memory!HeaderOf(u).block = block[u]
  BY <1>1 DEF Has, Memory!HeaderOf, Memory!Header
<1>3. Memory!Span(block[u]) # {}
  <2>1. Memory!RealSize(asked[u].size) \in Nat
    BY <1>1, CeilUp DEF Has, Memory!RealSize, Partition
  <2>2. block[u].at \in Nat /\ block[u].size \in Nat /\ ptr[u] \in Nat
        /\ block[u].at <= ptr[u] - 1
        /\ ptr[u] + Memory!RealSize(asked[u].size) <= block[u].at + block[u].size
    BY <1>1 DEF Has
  <2>3. block[u].at \in Memory!Span(block[u])
    BY <2>1, <2>2 DEF Memory!Span
  <2> QED BY <2>3
<1>4. \A v \in MemoryUsers : v # u /\ block[v] # Nowhere => block[v] # block[u]
  BY <1>1, <1>3 DEF MemoryInv
<1>5. \A v \in MemoryUsers : /\ block'[v] = IF v = u THEN Nowhere ELSE block[v]
                             /\ ptr'[v] = IF v = u THEN Nowhere ELSE ptr[v]
  BY <1>1, <1>2, <1>4 DEF Memory!Gone, MemoryInv
<1>6. \A v \in MemoryUsers : v # u => asked'[v] = asked[v]
  BY DEF Memory!Gone, MemoryInv
<1>7. mem' = [i \in Memory!Addresses |-> IF i \in Memory!Span(block[u]) THEN Nowhere ELSE mem[i]]
  BY <1>2 DEF Memory!Gone
<1>8. \A v \in MemoryUsers \ {u} : block[v] # Nowhere
        => \A i \in Memory!Span(block[v]) : mem'[i] = mem[i]
  <2> SUFFICES ASSUME NEW v \in MemoryUsers \ {u}, block[v] # Nowhere,
                      NEW i \in Memory!Span(block[v])
               PROVE  mem'[i] = mem[i]
    OBVIOUS
  <2>1. i \in Memory!Addresses /\ i \notin Memory!Span(block[u])
    BY <1>1 DEF MemoryInv, Has
  <2> QED BY <1>7, <2>1
<1>9. \A v \in MemoryUsers : ptr'[v] # Nowhere => Has(v)'
  <2> SUFFICES ASSUME NEW v \in MemoryUsers, v # u, ptr'[v] # Nowhere PROVE Has(v)'
    BY <1>5
  <2>1. ptr[v] # Nowhere /\ block[v] # Nowhere /\ Has(v)
    BY <1>5 DEF MemoryInv
  <2> QED BY <1>5, <1>6, <1>8, <2>1, KeptBy
<1>10. /\ block' = [v \in MemoryUsers |-> block'[v]] /\ ptr' = [v \in MemoryUsers |-> ptr'[v]]
       /\ asked' = [v \in MemoryUsers |-> asked'[v]] /\ DOMAIN mem' = Memory!Addresses
  BY <1>7 DEF MemoryInv, Memory!Gone
<1>11. \A v \in MemoryUsers : (block'[v] = Nowhere) = (ptr'[v] = Nowhere)
  BY <1>5 DEF MemoryInv
<1>12. \A v, w \in MemoryUsers : v # w /\ block'[v] # Nowhere /\ block'[w] # Nowhere =>
         Memory!Span(block'[v]) \cap Memory!Span(block'[w]) = {}
  BY <1>5 DEF MemoryInv
<1>13. Memory!Addresses' = Memory!Addresses
         /\ \A v \in MemoryUsers : Memory!Span(block[v])' = Memory!Span(block'[v])
  BY DEF Memory!Addresses, Memory!Span
<1> QED BY <1>9, <1>10, <1>11, <1>12, <1>13 DEF MemoryInv

\* Nobody has memory at first.
LEMMA MemoryInitInv == Partition /\ Memory!Init => MemoryInv
<1> SUFFICES ASSUME Partition, Memory!Init PROVE MemoryInv
  OBVIOUS
<1>1. /\ block = [u \in MemoryUsers |-> Nowhere] /\ ptr = [u \in MemoryUsers |-> Nowhere]
      /\ asked = [u \in MemoryUsers |-> Memory!NoAsk] /\ mem = [i \in Memory!Addresses |-> Nowhere]
  BY DEF Memory!Init
<1>2. \A u \in MemoryUsers : block[u] = Nowhere /\ ptr[u] = Nowhere
  BY <1>1
<1>3. /\ block = [u \in MemoryUsers |-> block[u]] /\ ptr = [u \in MemoryUsers |-> ptr[u]]
      /\ asked = [u \in MemoryUsers |-> asked[u]] /\ DOMAIN mem = Memory!Addresses
  BY <1>1
<1> QED BY <1>2, <1>3 DEF MemoryInv

\* Taking, resizing and freeing keep the invariant.
LEMMA MemoryStep ==
  ASSUME Partition, MemoryInv, [Memory!Next]_(Memory!vars)
  PROVE  MemoryInv'
<1>1. CASE UNCHANGED Memory!vars
  <2>1. UNCHANGED <<block, ptr, asked, mem>>
    BY <1>1 DEF Memory!vars
  <2> QED BY <2>1 DEF MemoryInv, Has, Memory!Span, Memory!Addresses, Memory!RealSize, Memory!Ceil,
              Memory!Header, Memory!Filled
<1>2. ASSUME NEW u \in MemoryUsers, Memory!Release(u) PROVE MemoryInv'
  BY <1>2, GoneKeeps DEF Memory!Release
<1>3. ASSUME NEW u \in MemoryUsers, NEW want \in AskedSizes, NEW align \in Aligns,
             Memory!Exalloc(u, want, align)
      PROVE  MemoryInv'
  <2>1. align \in Alignments
    BY <1>3 DEF Memory!Exalloc, Memory!PowerOfTwo, Alignments
  <2>2. PICK b \in Memory!Free(Memory!Needed(Memory!Max({want, 1}), align)) :
          Memory!Owns(u, b, Memory!Max({want, 1}), align, 0)
    BY <1>3 DEF Memory!Exalloc
  <2>3. Memory!Max({want, 1}) \in Nat \ {0}
    BY MaxOfTwo DEF Partition
  <2>4. Memory!RealSize(Memory!Max({want, 1})) \in Nat
    BY <2>3, CeilUp DEF Memory!RealSize, Partition
  <2> QED BY <2>1, <2>2, <2>3, <2>4, OwnsKeeps
<1>4. \A u \in MemoryUsers : ptr[u] # Nowhere =>
        /\ Memory!HeaderOf(u).size = Memory!RealSize(asked[u].size)
        /\ Memory!HeaderOf(u).align = asked[u].align
        /\ Has(u) /\ asked[u].align \in Alignments
        /\ Memory!RealSize(asked[u].size) \in Nat
  <2> SUFFICES ASSUME NEW u \in MemoryUsers, ptr[u] # Nowhere
               PROVE  /\ Memory!HeaderOf(u).size = Memory!RealSize(asked[u].size)
                      /\ Memory!HeaderOf(u).align = asked[u].align
                      /\ Has(u) /\ asked[u].align \in Alignments
                      /\ Memory!RealSize(asked[u].size) \in Nat
    OBVIOUS
  <2>1. Has(u)
    BY DEF MemoryInv
  <2>2. asked[u].align \in Alignments /\ asked[u].size \in Nat
    BY <2>1 DEF Has
  <2>3. Memory!RealSize(asked[u].size) \in Nat
    BY <2>2, CeilUp DEF Memory!RealSize, Partition
  <2> QED BY <2>1, <2>2, <2>3 DEF Has, Memory!HeaderOf, Memory!Header
<1>5. ASSUME NEW u \in MemoryUsers, NEW want \in AskedSizes, Memory!Stay(u, want) PROVE MemoryInv'
  <2>1. /\ ptr[u] # Nowhere /\ want \in Nat \ {0} /\ UNCHANGED <<block, ptr, mem>>
        /\ asked' = [asked EXCEPT ![u].size = want]
        /\ Memory!RealSize(asked[u].size) = Memory!RealSize(want)
    BY <1>4, <1>5 DEF Memory!Stay, Memory!Fits, Partition
  <2>2. asked[u] \in [size : Nat \ {0}, align : Alignments]
    BY <1>4, <2>1 DEF Has
  <2>3. /\ asked'[u] = [asked[u] EXCEPT !.size = want]
        /\ \A v \in MemoryUsers : v # u => asked'[v] = asked[v]
    BY <2>1 DEF MemoryInv
  <2>4. /\ asked'[u] \in [size : Nat \ {0}, align : Alignments]
        /\ asked'[u].size = want /\ asked'[u].align = asked[u].align
    BY <2>1, <2>2, <2>3
  <2>5. Memory!RealSize(asked[u].size)' = Memory!RealSize(asked[u].size)
    BY <2>1, <2>4 DEF Memory!RealSize, Memory!Ceil
  <2>6. Has(u)'
    BY <1>4, <2>1, <2>4, <2>5 DEF Has, Memory!Span, Memory!Addresses, Memory!Header, Memory!Filled
  <2>7. \A v \in MemoryUsers : ptr'[v] # Nowhere => Has(v)'
    <3> SUFFICES ASSUME NEW v \in MemoryUsers, v # u, ptr'[v] # Nowhere PROVE Has(v)'
      BY <2>6
    <3>1. Has(v)
      BY <2>1 DEF MemoryInv
    <3> QED BY <2>1, <2>3, <3>1, KeptBy
  <2>8. asked' = [v \in MemoryUsers |-> asked'[v]]
    BY <2>1 DEF MemoryInv
  <2> QED BY <2>1, <2>7, <2>8 DEF MemoryInv, Memory!Span, Memory!Addresses
<1>6. ASSUME NEW u \in MemoryUsers, NEW want \in AskedSizes, Memory!Move(u, want) PROVE MemoryInv'
  <2> DEFINE keeps == Memory!Min({Memory!HeaderOf(u).size, Memory!RealSize(want)})
  <2>0. ptr[u] # Nowhere /\ want > 0
    BY <1>6 DEF Memory!Move
  <2>1. ptr[u] # Nowhere /\ want \in Nat \ {0}
    BY <2>0 DEF Partition
  <2>2. PICK b \in Memory!Free(Memory!Needed(want, Memory!HeaderOf(u).align)) :
          Memory!Owns(u, b, want, Memory!HeaderOf(u).align, keeps)
    BY <1>6 DEF Memory!Move
  <2>3. Memory!RealSize(want) \in Nat
    BY <2>1, CeilUp DEF Memory!RealSize, Partition
  <2>4. keeps \in Nat /\ keeps <= Memory!RealSize(want) /\ keeps <= Memory!RealSize(asked[u].size)
    BY <1>4, <2>1, <2>3, MinOfTwo
  <2>5. Memory!HeaderOf(u).align \in Alignments
    BY <1>4, <2>1
  <2> HIDE DEF keeps
  <2> QED BY <2>1, <2>2, <2>4, <2>5, OwnsKeeps
<1>7. ASSUME NEW u \in MemoryUsers, NEW want \in AskedSizes, Memory!Reallocf(u, want)
  PROVE MemoryInv'
  BY <1>7, GoneKeeps DEF Memory!Reallocf
<1> QED BY <1>1, <1>2, <1>3, <1>5, <1>6, <1>7 DEF Memory!Next

\* The invariant, for any users, partition and pages.
THEOREM MemoryInvariant == ASSUME Partition PROVE Memory!Spec => []MemoryInv
<1> QED BY MemoryInitInv, MemoryStep, PTL DEF Memory!Spec

\* The block of every user of memory.c lies in what the kernel gave it, aligned and as large as
\* asked for, and its header and contents are its own: no other user's writes, moves or frees touch
\* them, and moving keeps what fits.
THEOREM MemoryKeptCorrect == ASSUME Partition PROVE Memory!Spec => []Memory!MemoryKept
<1>1. MemoryInv => Memory!MemoryKept
  <2> SUFFICES ASSUME MemoryInv, NEW u \in MemoryUsers, ptr[u] # Nowhere
               PROVE  /\ ptr[u] - 1 \in Memory!Span(block[u])
                      /\ ptr[u] + Memory!HeaderOf(u).size - 1 \in Memory!Span(block[u])
                      /\ Memory!HeaderOf(u)
                           = Memory!Header(u, block[u], Memory!RealSize(asked[u].size),
                                                  asked[u].align)
                      /\ asked[u].align > 0 => ptr[u] % asked[u].align = 0
                      /\ asked[u].size <= Memory!HeaderOf(u).size
                      /\ \A i \in 0 .. Memory!HeaderOf(u).size - 1 :
                           mem[ptr[u] + i] = Memory!Filled(u, i)
    BY DEF Memory!MemoryKept
  <2>1. Has(u)
    BY DEF MemoryInv
  <2>2. Memory!HeaderOf(u)
          = Memory!Header(u, block[u], Memory!RealSize(asked[u].size), asked[u].align)
    BY <2>1 DEF Has, Memory!HeaderOf
  <2>3. Memory!HeaderOf(u).size = Memory!RealSize(asked[u].size)
    BY <2>2 DEF Memory!Header
  <2>4. asked[u].size \in Nat \ {0}
    BY <2>1 DEF Has
  <2>5. Memory!RealSize(asked[u].size) \in Nat /\ asked[u].size <= Memory!RealSize(asked[u].size)
    BY <2>4, CeilUp DEF Memory!RealSize, Partition
  <2>6. /\ block[u].at \in Nat /\ block[u].size \in Nat /\ ptr[u] \in Nat
        /\ block[u].at <= ptr[u] - 1
        /\ ptr[u] + Memory!RealSize(asked[u].size) <= block[u].at + block[u].size
    BY <2>1 DEF Has
  <2>7. /\ ptr[u] - 1 \in Memory!Span(block[u])
        /\ ptr[u] + Memory!RealSize(asked[u].size) - 1 \in Memory!Span(block[u])
    <3> DEFINE real == Memory!RealSize(asked[u].size)
    <3>1. real \in Nat \ {0} /\ ptr[u] + real <= block[u].at + block[u].size
      BY <2>4, <2>5, <2>6
    <3> HIDE DEF real
    <3>2. ptr[u] - 1 \in Memory!Span(block[u]) /\ ptr[u] + real - 1 \in Memory!Span(block[u])
      BY <2>6, <3>1 DEF Memory!Span
    <3> QED BY <3>2 DEF real
  <2> QED BY <2>1, <2>2, <2>3, <2>5, <2>7 DEF Has
<1> QED BY <1>1, MemoryInvariant, PTL

\* Pointers are addresses of the partition, and are there as long as the kernel's block is.
THEOREM MemoryTypeCorrect == ASSUME Partition PROVE Memory!Spec => []Memory!TypeOK
<1>1. MemoryInv => Memory!TypeOK
  <2> SUFFICES ASSUME MemoryInv, NEW u \in MemoryUsers
               PROVE  ptr[u] \in Memory!Addresses \cup {Nowhere}
                        /\ (block[u] = Nowhere) = (ptr[u] = Nowhere)
    BY DEF Memory!TypeOK, MemoryInv
  <2>1. CASE ptr[u] = Nowhere
    BY <2>1 DEF MemoryInv
  <2>2. CASE ptr[u] # Nowhere
    <3>1. Has(u)
      BY <2>2 DEF MemoryInv
    <3>2. asked[u].size \in Nat \ {0}
      BY <3>1 DEF Has
    <3>3. Memory!RealSize(asked[u].size) \in Nat \ {0}
      BY <3>2, CeilUp DEF Memory!RealSize, Partition
    <3>4. /\ block[u].at \in Nat /\ block[u].size \in Nat /\ ptr[u] \in Nat
          /\ block[u].at <= ptr[u] - 1
          /\ ptr[u] + Memory!RealSize(asked[u].size) <= block[u].at + block[u].size
          /\ Memory!Span(block[u]) \subseteq Memory!Addresses
      BY <3>1 DEF Has
    <3>5. ptr[u] \in Memory!Span(block[u])
      BY <3>3, <3>4 DEF Memory!Span
    <3> QED BY <3>4, <3>5 DEF MemoryInv
  <2> QED BY <2>1, <2>2
<1> QED BY <1>1, MemoryInvariant, PTL

-----------------------------------------------------------------------------
(* UserHeap: blocks of any sizes taken and freed in any order, in a heap of any size. *)

\* A header is a number of units, and sizes are natural numbers.
HeapSized ==
  /\ AlignSize \in Nat \ {0} /\ HeapSize \in Nat /\ BlockHeader \in Nat
  /\ BlockHeader % AlignSize = 0
  /\ Wanted \subseteq Nat

HeapBlocks == [at : {a \in Nat : BlockHeader <= a}, size : Nat, asked : Wanted]
UnitBlocks == {b \in HeapBlocks : b.at % AlignSize = 0 /\ b.size % AlignSize = 0}

\* The blocks are in the order of their addresses, but for d bytes at their ends, and end at top.
HeapOrder(d, top) ==
  /\ \A i \in 1 .. Len(chain) : UserHeap!End(chain[i]) - d <= top
  /\ \A i, j \in 1 .. Len(chain) : i < j => UserHeap!End(chain[i]) - d <= chain[j].at

\* A block from a to e can be put before the p-th one.
HeapFits(a, e, p, d, top) ==
  /\ e - d <= top
  /\ \A i \in 1 .. Len(chain) : /\ i < p  => UserHeap!End(chain[i]) - d <= a
                                /\ i >= p => e - d <= chain[i].at

\* As long as room is found, no block reaches past the next one by more than the unit that is
\* added for the alignment; and by nothing while all that is asked for is a number of units.
HeapInv ==
  /\ chain \in Seq(HeapBlocks) /\ careless \in BOOLEAN /\ spoilt \in BOOLEAN
  /\ \A i \in 1 .. Len(chain) : chain[i].size = UserHeap!Needed(chain[i].asked)
  /\ ~spoilt => HeapOrder(AlignSize, HeapSize + BlockHeader)
  /\ ~careless => ~spoilt /\ chain \in Seq(UnitBlocks) /\ HeapOrder(0, HeapSize)

\* What is needed for a size.
LEMMA NeededFor ==
  ASSUME HeapSized, NEW n \in Wanted
  PROVE  /\ UserHeap!Given(n) \in Nat /\ UserHeap!Given(n) >= 1
         /\ UserHeap!Needed(n) = UserHeap!Given(n) + BlockHeader + AlignSize
         /\ UserHeap!Needed(n) \in Nat
<1>1. n \in Nat /\ BlockHeader \in Nat /\ AlignSize \in Nat
  BY DEF HeapSized
<1> QED BY <1>1 DEF UserHeap!Given, UserHeap!Needed

\* What a block of the list is.
LEMMA HeapBlockTypes ==
  ASSUME HeapSized, HeapInv, NEW i \in 1 .. Len(chain)
  PROVE  /\ chain[i] \in HeapBlocks
         /\ chain[i].at \in Nat /\ chain[i].size \in Nat /\ chain[i].asked \in Wanted
         /\ BlockHeader <= chain[i].at
         /\ UserHeap!End(chain[i]) = chain[i].at + chain[i].size
         /\ UserHeap!End(chain[i]) \in Nat
         /\ chain[i].size = UserHeap!Given(chain[i].asked) + BlockHeader + AlignSize
         /\ AlignSize <= chain[i].size
<1>1. chain[i] \in HeapBlocks
  BY DEF HeapInv
<1>2. /\ chain[i].at \in Nat /\ chain[i].size \in Nat /\ chain[i].asked \in Wanted
      /\ BlockHeader <= chain[i].at
  BY <1>1 DEF HeapBlocks
<1>3. chain[i].size = UserHeap!Needed(chain[i].asked)
  BY DEF HeapInv
<1>4. /\ UserHeap!Given(chain[i].asked) \in Nat
      /\ chain[i].size = UserHeap!Given(chain[i].asked) + BlockHeader + AlignSize
  BY <1>2, <1>3, NeededFor
<1>5. AlignSize <= chain[i].size
  BY <1>4 DEF HeapSized
<1> QED BY <1>1, <1>2, <1>4, <1>5 DEF UserHeap!End

\* Later blocks of the list have greater addresses.
LEMMA HeapAscends ==
  ASSUME HeapSized, HeapInv, ~spoilt, NEW i \in 1 .. Len(chain), NEW j \in 1 .. Len(chain), i <= j
  PROVE  chain[i].at <= chain[j].at
<1>1. chain[i].at \in Nat /\ chain[j].at \in Nat
  BY HeapBlockTypes
<1>2. CASE i = j
  BY <1>1, <1>2
<1>3. CASE i < j
  <2>1. UserHeap!End(chain[i]) - AlignSize <= chain[j].at
    BY <1>3 DEF HeapInv, HeapOrder
  <2>2. /\ UserHeap!End(chain[i]) = chain[i].at + chain[i].size
        /\ AlignSize <= chain[i].size /\ chain[i].size \in Nat /\ AlignSize \in Nat
    BY HeapBlockTypes DEF HeapSized
  <2> QED BY <1>1, <2>1, <2>2
<1>4. i \in Int /\ j \in Int
  BY DEF HeapInv
<1> QED BY <1>2, <1>3, <1>4

\* Alignment leads to the next unit.
LEMMA AlignedUp ==
  ASSUME AlignSize \in Nat \ {0}, NEW a \in Nat
  PROVE  /\ UserHeap!Aligned(a) \in Nat /\ a <= UserHeap!Aligned(a)
         /\ UserHeap!Aligned(a) <= (a + AlignSize) - 1
<1> DEFINE k == AlignSize
           m == a + k - 1
           q == m \div k
           r == m % k
<1>1. k \in Nat \ {0} /\ m \in Nat /\ m = (a + k) - 1
  OBVIOUS
<1>2. q \in Nat /\ r \in 0 .. k - 1 /\ m = k * q + r
  BY <1>1
<1>3. UserHeap!Aligned(a) = q * k
  BY DEF UserHeap!Aligned
<1> HIDE DEF k, m, q, r
<1>4. q * k = k * q /\ k * q \in Nat
  BY <1>1, <1>2
<1>5. k * q = m - r
  BY <1>1, <1>2, <1>4
<1> QED BY <1>1, <1>2, <1>3, <1>4, <1>5 DEF k

\* Multiples of units need no alignment.
LEMMA UnitsAligned ==
  ASSUME AlignSize \in Nat \ {0}, NEW a \in Nat, a % AlignSize = 0
  PROVE  UserHeap!Aligned(a) = a
<1> DEFINE k == AlignSize
           q == a \div k
           m == a + (k - 1)
           p == m \div k
           r == m % k
<1>1. k \in Nat \ {0} /\ q \in Nat /\ a = k * q + (a % k)
  OBVIOUS
<1>2. a = k * q
  BY <1>1
<1>3. m \in Nat /\ p \in Nat /\ r \in 0 .. k - 1 /\ m = k * p + r
  OBVIOUS
<1>4. UserHeap!Aligned(a) = p * k
  BY DEF UserHeap!Aligned
<1> HIDE DEF k, q, p, r
<1>5. k * q + (k - 1) = k * p + r
  BY <1>2, <1>3 DEF m
<1>6. p = q
  <2>1. k * p <= k * q + (k - 1) /\ k * q <= k * p + (k - 1)
    BY <1>1, <1>3, <1>5
  <2>2. CASE p >= q + 1
    <3>1. k * p >= k * (q + 1)
      BY <1>1, <1>3, <2>2
    <3>2. k * (q + 1) = k * q + k
      BY <1>1
    <3> QED BY <1>1, <1>3, <2>1, <3>1, <3>2
  <2>3. CASE q >= p + 1
    <3>1. k * q >= k * (p + 1)
      BY <1>1, <1>3, <2>3
    <3>2. k * (p + 1) = k * p + k
      BY <1>1, <1>3
    <3> QED BY <1>1, <1>3, <2>1, <3>1, <3>2
  <2> QED BY <1>1, <1>3, <2>2, <2>3
<1> QED BY <1>1, <1>2, <1>3, <1>4, <1>6

\* A sum of multiples is one.
LEMMA UnitsAdded ==
  ASSUME AlignSize \in Nat \ {0}, NEW a \in Nat, NEW b \in Nat,
         a % AlignSize = 0, b % AlignSize = 0
  PROVE  (a + b) % AlignSize = 0
<1> DEFINE k == AlignSize
           q == a \div k
           r == b \div k
<1>1. k \in Nat \ {0} /\ q \in Nat /\ r \in Nat /\ a = k * q /\ b = k * r
  OBVIOUS
<1> HIDE DEF k, q, r
<1>2. a + b = k * (q + r)
  BY <1>1
<1>3. (k * (q + r)) % k = 0
  <2> DEFINE s == q + r
             m == k * s
             t == m \div k
             u == m % k
  <2>1. s \in Nat /\ m \in Nat
    BY <1>1
  <2>2. t \in Nat /\ u \in 0 .. k - 1 /\ m = k * t + u
    BY <1>1, <2>1
  <2> HIDE DEF t, u, s
  <2>3. k * s = k * t + u
    BY <2>2
  <2>4. CASE s >= t + 1
    <3>1. k * s >= k * (t + 1) /\ k * (t + 1) = k * t + k
      BY <1>1, <2>1, <2>2, <2>4
    <3> QED BY <1>1, <2>1, <2>2, <2>3, <3>1
  <2>5. CASE t >= s + 1
    <3>1. k * t >= k * (s + 1) /\ k * (s + 1) = k * s + k
      BY <1>1, <2>1, <2>2, <2>5
    <3> QED BY <1>1, <2>1, <2>2, <2>3, <3>1
  <2>6. CASE s = t
    BY <1>1, <2>1, <2>2, <2>3, <2>6 DEF s, u
  <2> QED BY <2>1, <2>2, <2>4, <2>5, <2>6
<1> QED BY <1>2, <1>3 DEF k

\* The block that another one is put behind has room behind it.
LEMMA RoomFound ==
  ASSUME HeapSized, HeapInv, NEW n \in Wanted, UserHeap!Roomy(n) # 0
  PROVE  /\ UserHeap!Roomy(n) \in 1 .. Len(chain)
         /\ UserHeap!FreeBehind(UserHeap!Roomy(n)) < 0
              \/ UserHeap!FreeBehind(UserHeap!Roomy(n)) >= UserHeap!Needed(n)
<1> DEFINE frees == [i \in DOMAIN chain |-> UserHeap!FreeBehind(i)]
           I     == {i \in 1 .. Len(frees) : frees[i] < 0 \/ frees[i] >= UserHeap!Needed(n)}
<1>1. DOMAIN chain = 1 .. Len(chain) /\ Len(chain) \in Nat
  BY DEF HeapInv
<1>2. Len(frees) = Len(chain)
  BY <1>1
<1>3. UserHeap!Roomy(n) = IF I # {} THEN UserHeap!Min(I) ELSE 0
  BY DEF UserHeap!Roomy, UserHeap!FirstWith, UserHeap!SelectInSeq
<1>4. I \in SUBSET Nat /\ I \subseteq 1 .. Len(chain)
  BY <1>1, <1>2
<1>5. \A i \in I : UserHeap!FreeBehind(i) < 0 \/ UserHeap!FreeBehind(i) >= UserHeap!Needed(n)
  BY <1>1, <1>2
<1> HIDE DEF I
<1>6. I # {} => UserHeap!Min(I) \in I
  BY <1>4, Least DEF UserHeap!Min
<1> QED BY <1>3, <1>4, <1>5, <1>6

\* The list when a block is put before its p-th one.
LEMMA BlockInserted ==
  ASSUME NEW B, chain \in Seq(B), NEW b \in B, NEW p \in 1 .. Len(chain) + 1,
         chain' = UserHeap!InsertAt(chain, p, b)
  PROVE  /\ chain' \in Seq(B) /\ Len(chain') = Len(chain) + 1
         /\ \A i \in 1 .. Len(chain) + 1 :
              chain'[i] = IF i < p THEN chain[i] ELSE IF i = p THEN b ELSE chain[i - 1]
<1> DEFINE N == Len(chain)
           front == SubSeq(chain, 1, p - 1)
           behind == SubSeq(chain, p, N)
           first  == front \o <<b>>
<1>2. chain \in Seq(B) /\ N \in Nat
  OBVIOUS
<1>3. /\ front \in Seq(B) /\ Len(front) = p - 1
      /\ \A i \in 1 .. p - 1 : front[i] = chain[i]
  BY <1>2
<1>4. /\ behind \in Seq(B) /\ Len(behind) = (N - p) + 1
      /\ \A i \in 1 .. (N - p) + 1 : behind[i] = chain[(p + i) - 1]
  BY <1>2
<1>5. chain' = first \o behind
  BY DEF UserHeap!InsertAt
<1> HIDE DEF front, behind
<1>6. /\ first \in Seq(B) /\ Len(first) = p
      /\ \A i \in 1 .. p : first[i] = IF i < p THEN chain[i] ELSE b
  BY <1>3
<1> HIDE DEF first
<1>7. chain' \in Seq(B) /\ Len(chain') = N + 1
  <2>1. first \o behind \in Seq(B) /\ Len(first \o behind) = Len(first) + Len(behind)
    BY <1>4, <1>6, Joined
  <2>2. Len(first) + Len(behind) = N + 1
    BY <1>2, <1>4, <1>6
  <2> QED BY <1>5, <2>1, <2>2
<1>8. \A i \in 1 .. N + 1 :
        chain'[i] = IF i < p THEN chain[i] ELSE IF i = p THEN b ELSE chain[i - 1]
  <2> SUFFICES ASSUME NEW i \in 1 .. N + 1
               PROVE  chain'[i] = IF i < p THEN chain[i] ELSE IF i = p THEN b ELSE chain[i - 1]
    OBVIOUS
  <2>1. CASE i <= p
    <3>1. i \in 1 .. p /\ i \in 1 .. Len(first)
      BY <1>6, <2>1
    <3>2. (first \o behind)[i] = first[i]
      BY <1>4, <1>6, <3>1
    <3> QED BY <1>5, <1>6, <2>1, <3>1, <3>2
  <2>2. CASE i > p
    <3>1. /\ i - p \in 1 .. (N - p) + 1 /\ (p + (i - p)) - 1 = i - 1
          /\ i \in Len(first) + 1 .. Len(first) + Len(behind) /\ i - Len(first) = i - p
      BY <1>2, <1>4, <1>6, <2>2
    <3>2. (first \o behind)[i] = behind[i - p]
      BY <1>4, <1>6, <3>1
    <3>3. behind[i - p] = chain[i - 1]
      BY <1>4, <3>1
    <3> QED BY <1>5, <2>2, <3>2, <3>3
  <2> QED BY <1>2, <2>1, <2>2
<1> QED BY <1>7, <1>8

\* A block that is put where it fits leaves the blocks in order.
LEMMA OrderKept ==
  ASSUME chain \in Seq(HeapBlocks), NEW d, NEW top, HeapOrder(d, top),
         NEW b \in HeapBlocks, NEW p \in 1 .. Len(chain) + 1,
         HeapFits(b.at, UserHeap!End(b), p, d, top),
         chain' = UserHeap!InsertAt(chain, p, b)
  PROVE  HeapOrder(d, top)'
<1> DEFINE N == Len(chain)
           Back(i) == IF i < p THEN i ELSE i - 1
<1>1. N \in Nat
  OBVIOUS
<1>2. /\ Len(chain') = N + 1
      /\ \A i \in 1 .. N + 1 :
           chain'[i] = IF i < p THEN chain[i] ELSE IF i = p THEN b ELSE chain[i - 1]
  BY BlockInserted
<1>3. \A i \in 1 .. N + 1 : i # p => Back(i) \in 1 .. N /\ chain'[i] = chain[Back(i)]
  BY <1>1, <1>2
<1>4. chain'[p] = b
  BY <1>1, <1>2
<1>5. \A i \in 1 .. N + 1 : UserHeap!End(chain'[i]) - d <= top
  <2> TAKE i \in 1 .. N + 1
  <2>1. CASE i = p
    BY <1>4, <2>1 DEF HeapFits
  <2>2. CASE i # p
    BY <1>3, <2>2 DEF HeapOrder
  <2> QED BY <2>1, <2>2
<1>6. \A i, j \in 1 .. N + 1 : i < j => UserHeap!End(chain'[i]) - d <= chain'[j].at
  <2> SUFFICES ASSUME NEW i \in 1 .. N + 1, NEW j \in 1 .. N + 1, i < j
               PROVE  UserHeap!End(chain'[i]) - d <= chain'[j].at
    OBVIOUS
  <2>1. CASE i # p /\ j # p
    <3>1. Back(i) < Back(j)
      BY <1>1, <2>1
    <3> QED BY <1>3, <2>1, <3>1 DEF HeapOrder
  <2>2. CASE j = p
    <3>1. i < p /\ i \in 1 .. N /\ chain'[i] = chain[i]
      BY <1>1, <1>2, <2>2
    <3> QED BY <1>4, <2>2, <3>1 DEF HeapFits
  <2>3. CASE i = p
    <3>1. j - 1 \in 1 .. N /\ j - 1 >= p /\ chain'[j] = chain[j - 1]
      BY <1>1, <1>2, <2>3
    <3> QED BY <1>4, <2>3, <3>1 DEF HeapFits
  <2> QED BY <2>1, <2>2, <2>3
<1>7. \A i \in 1 .. N + 1 : UserHeap!End(chain[i])' = UserHeap!End(chain'[i])
  BY DEF UserHeap!End
<1> QED BY <1>2, <1>5, <1>6, <1>7 DEF HeapOrder, UserHeap!End

\* What heapAlloc does: the block fits where it is put, if there was room, and ends where the next
\* one begins if only numbers of units are asked for.
HeapPlaced(p, a, n) ==
  /\ chain' = UserHeap!InsertAt(chain, p, UserHeap!Block(a, n))
  /\ spoilt' \in BOOLEAN
  /\ ~spoilt' => HeapFits(a, a + UserHeap!Needed(n), p, AlignSize, HeapSize + BlockHeader)
  /\ ~careless' => /\ ~spoilt' /\ a % AlignSize = 0
                   /\ HeapFits(a, a + UserHeap!Needed(n), p, 0, HeapSize)

\* The history of what is asked for.
LEMMA CarefulAsked ==
  ASSUME HeapSized, HeapInv, NEW n \in Wanted, UserHeap!Alloc(n)
  PROVE  /\ careless' \in BOOLEAN
         /\ ~careless' => /\ ~careless /\ UserHeap!Needed(n) % AlignSize = 0
                          /\ BlockHeader + UserHeap!Needed(n) <= HeapSize
<1>1. careless' = (careless \/ UserHeap!Given(n) % AlignSize # 0
                            \/ BlockHeader + UserHeap!Needed(n) > HeapSize)
  BY DEF UserHeap!Alloc
<1>2. careless' \in BOOLEAN
  BY <1>1, Zenon DEF HeapInv
<1>3. ASSUME ~careless'
      PROVE  /\ ~careless /\ UserHeap!Given(n) % AlignSize = 0
             /\ ~(BlockHeader + UserHeap!Needed(n) > HeapSize)
  BY <1>1, <1>3, Zenon
<1>4. ASSUME UserHeap!Given(n) % AlignSize = 0 PROVE UserHeap!Needed(n) % AlignSize = 0
  <2> DEFINE g == UserHeap!Given(n)
  <2>1. /\ g \in Nat /\ UserHeap!Needed(n) = g + BlockHeader + AlignSize
        /\ BlockHeader \in Nat /\ AlignSize \in Nat \ {0} /\ BlockHeader % AlignSize = 0
    BY NeededFor DEF HeapSized
  <2> HIDE DEF g
  <2>2. AlignSize % AlignSize = 0 /\ g % AlignSize = 0
    BY <1>4, <2>1 DEF g
  <2>3. (g + BlockHeader) % AlignSize = 0
    BY <2>1, <2>2, UnitsAdded
  <2>5. g + BlockHeader \in Nat /\ AlignSize \in Nat
    BY <2>1
  <2>4. ((g + BlockHeader) + AlignSize) % AlignSize = 0
    BY <2>1, <2>2, <2>3, <2>5, UnitsAdded
  <2> QED BY <2>1, <2>4
<1>5. ~(BlockHeader + UserHeap!Needed(n) > HeapSize)
        => BlockHeader + UserHeap!Needed(n) <= HeapSize
  BY NeededFor DEF HeapSized
<1> QED BY <1>2, <1>3, <1>4, <1>5

\* heapAlloc: the first block of all, one before the first, or one behind another.
LEMMA HeapAllocPlaces ==
  ASSUME HeapSized, HeapInv, NEW n \in Wanted, UserHeap!Alloc(n)
  PROVE  \E p \in 1 .. Len(chain) + 1, a \in Nat : BlockHeader <= a /\ HeapPlaced(p, a, n)
<1> DEFINE H == BlockHeader
           need == UserHeap!Needed(n)
           top == HeapSize + H
<1>0. /\ H \in Nat /\ AlignSize \in Nat \ {0} /\ HeapSize \in Nat
      /\ need \in Nat /\ ~spoilt /\ AlignSize <= need
  BY NeededFor DEF HeapSized, UserHeap!Alloc
<1>6. UserHeap!Aligned(H) = H /\ H % AlignSize = 0
  BY UnitsAligned DEF HeapSized
<1>1. chain \in Seq(HeapBlocks) /\ Len(chain) \in Nat /\ DOMAIN chain = 1 .. Len(chain)
  BY DEF HeapInv
<1>2. /\ HeapOrder(AlignSize, top)
      /\ ~careless' => ~careless /\ H + need <= HeapSize
      /\ ~careless => chain \in Seq(UnitBlocks) /\ HeapOrder(0, HeapSize)
  BY <1>0, CarefulAsked DEF HeapInv
<1> HIDE DEF H, need, top
<1>3. CASE UserHeap!First(n)
  <2>1. /\ chain = <<>> /\ HeapSize >= need
        /\ chain' = <<UserHeap!Block(H, n)>> /\ spoilt' = spoilt
    BY <1>0, <1>3, <1>6 DEF UserHeap!First, need, H
  <2>2. chain' = UserHeap!InsertAt(chain, 1, UserHeap!Block(H, n)) /\ Len(chain) = 0
    BY <2>1 DEF UserHeap!InsertAt
  <2>3. ~careless' => HeapFits(H, H + need, 1, 0, HeapSize)
    BY <1>0, <1>2, <2>2 DEF HeapFits
  <2>4. HeapFits(H, H + need, 1, AlignSize, top)
    BY <1>0, <2>1, <2>2 DEF HeapFits, top
  <2>5. spoilt' = FALSE
    BY <1>0, <2>1, Zenon DEF HeapInv
  <2>6. HeapPlaced(1, H, n)
    BY <1>6, <2>2, <2>3, <2>4, <2>5 DEF HeapPlaced, need, H, top
  <2> QED BY <1>0, <1>1, <2>6 DEF H
<1>4. CASE UserHeap!Before(n)
  <2>1. /\ chain # <<>> /\ chain[1].at - H >= need /\ spoilt' = spoilt
        /\ chain' = <<UserHeap!Block(H, n)>> \o chain
    BY <1>0, <1>4, <1>6 DEF UserHeap!Before, need, H
  <2>2. chain' = UserHeap!InsertAt(chain, 1, UserHeap!Block(H, n)) /\ Len(chain) > 0
    BY <1>1, <2>1 DEF UserHeap!InsertAt
  <2>3. \A i \in 1 .. Len(chain) : H + need <= chain[i].at /\ chain[i].at \in Nat
    <3> SUFFICES ASSUME NEW i \in 1 .. Len(chain)
                 PROVE  H + need <= chain[i].at /\ chain[i].at \in Nat
      OBVIOUS
    <3>1. 1 \in 1 .. Len(chain) /\ 1 <= i
      BY <1>1, <2>2
    <3>2. chain[1].at <= chain[i].at /\ chain[1].at \in Nat /\ chain[i].at \in Nat
      BY <1>0, <3>1, HeapAscends, HeapBlockTypes
    <3> QED BY <1>0, <2>1, <3>2
  <2>4. (H + need) - AlignSize <= top
    <3>1. 1 \in 1 .. Len(chain)
      BY <1>1, <2>2
    <3>2. UserHeap!End(chain[1]) - AlignSize <= top
      BY <1>2, <3>1 DEF HeapOrder
    <3>3. UserHeap!End(chain[1]) = chain[1].at + chain[1].size /\ chain[1].size \in Nat
      BY <3>1, HeapBlockTypes
    <3>4. H + need <= chain[1].at /\ chain[1].at \in Nat
      BY <2>3, <3>1
    <3> QED BY <1>0, <3>2, <3>3, <3>4 DEF top
  <2>5. HeapFits(H, H + need, 1, AlignSize, top)
    BY <1>0, <1>1, <2>3, <2>4 DEF HeapFits
  <2>6. ~careless' => HeapFits(H, H + need, 1, 0, HeapSize)
    BY <1>0, <1>1, <1>2, <2>3 DEF HeapFits
  <2>7. spoilt' = FALSE
    BY <1>0, <2>1, Zenon DEF HeapInv
  <2>8. HeapPlaced(1, H, n)
    BY <1>6, <2>2, <2>5, <2>6, <2>7 DEF HeapPlaced, need, H, top
  <2> QED BY <1>0, <1>1, <2>8 DEF H
<1>5. CASE UserHeap!Behind(n)
  <2> DEFINE r == UserHeap!Roomy(n)
             e == UserHeap!End(chain[r])
             a == UserHeap!Aligned(e)
             free == UserHeap!FreeBehind(r)
  <2>1. /\ r # 0 /\ chain' = UserHeap!InsertAt(chain, r + 1, UserHeap!Block(a, n))
        /\ spoilt' = (free < 0)
    BY <1>5 DEF UserHeap!Behind
  <2>2. r \in 1 .. Len(chain) /\ (free < 0 \/ free >= need)
    BY <2>1, RoomFound DEF need
  <2>3. free = (IF r = Len(chain) THEN HeapSize ELSE chain[r + 1].at) - e
    BY DEF UserHeap!FreeBehind
  <2>4. /\ e = chain[r].at + chain[r].size /\ e \in Nat /\ H <= e
        /\ chain[r].at \in Nat /\ chain[r].size \in Nat /\ AlignSize <= chain[r].size
    <3>1. /\ e = chain[r].at + chain[r].size /\ e \in Nat /\ BlockHeader <= chain[r].at
          /\ chain[r].at \in Nat /\ chain[r].size \in Nat /\ AlignSize <= chain[r].size
      BY <2>2, HeapBlockTypes
    <3> QED BY <1>0, <3>1 DEF H
  <2>5. a \in Nat /\ e <= a /\ a <= (e + AlignSize) - 1
    BY <1>0, <2>4, AlignedUp
  <2>6. spoilt' \in BOOLEAN /\ r + 1 \in 1 .. Len(chain) + 1
    BY <1>1, <2>1, <2>2
  <2> HIDE DEF r, e, a, free
  <2>7. ASSUME ~(free < 0)
        PROVE  HeapFits(a, a + need, r + 1, AlignSize, top)
    <3>1. free >= need
      BY <2>2, <2>7
    <3>2. \A i \in 1 .. Len(chain) : i < r + 1 => UserHeap!End(chain[i]) - AlignSize <= a
      <4> SUFFICES ASSUME NEW i \in 1 .. Len(chain), i <= r
                   PROVE  UserHeap!End(chain[i]) - AlignSize <= a
        BY <2>2
      <4>1. UserHeap!End(chain[i]) \in Nat
        BY HeapBlockTypes
      <4>2. CASE i = r
        BY <1>0, <2>4, <2>5, <4>2 DEF e
      <4>3. CASE i < r
        <5> DEFINE u == UserHeap!End(chain[i])
                   w == chain[r].at
        <5>1. u - AlignSize <= w
          BY <1>2, <2>2, <4>3 DEF HeapOrder
        <5>2. /\ u \in Nat /\ w \in Nat /\ e \in Nat /\ a \in Nat /\ AlignSize \in Nat
              /\ w <= e /\ e <= a
          BY <1>0, <2>4, <2>5, <4>1
        <5> HIDE DEF u, w
        <5>3. u - AlignSize <= a
          BY ONLY <5>1, <5>2
        <5> QED BY <5>3 DEF u
      <4> QED BY <2>2, <4>2, <4>3
    <3>3. CASE r = Len(chain)
      <4>1. e + need <= HeapSize
        BY <1>0, <2>3, <2>4, <3>1, <3>3
      <4>2. (a + need) - AlignSize <= top
        BY <1>0, <2>4, <2>5, <4>1 DEF top
      <4>3. \A i \in 1 .. Len(chain) : i >= r + 1 => (a + need) - AlignSize <= chain[i].at
        <5> DEFINE N == Len(chain)
        <5>1. N \in Nat /\ r = N
          BY <1>1, <3>3
        <5> HIDE DEF N
        <5>2. ASSUME NEW i \in 1 .. N, i >= r + 1 PROVE FALSE
          BY <5>1, <5>2
        <5> QED BY <5>2 DEF N
      <4> QED BY <3>2, <4>2, <4>3 DEF HeapFits
    <3>4. CASE r # Len(chain)
      <4>1. r + 1 \in 1 .. Len(chain)
        <5> DEFINE N == Len(chain)
        <5>1. N \in Nat /\ r \in 1 .. N /\ r # N
          BY <1>1, <2>2, <3>4
        <5> HIDE DEF N
        <5>2. r + 1 \in 1 .. N
          BY <5>1
        <5> QED BY <5>2 DEF N
      <4>2. /\ chain[r + 1].at \in Nat /\ chain[r + 1].size \in Nat
            /\ AlignSize <= chain[r + 1].size
            /\ UserHeap!End(chain[r + 1]) = chain[r + 1].at + chain[r + 1].size
        BY <4>1, HeapBlockTypes
      <4>3. e + need <= chain[r + 1].at
        BY <1>0, <2>3, <2>4, <3>1, <3>4, <4>2
      <4>4. (a + need) - AlignSize <= chain[r + 1].at
        BY <1>0, <2>4, <2>5, <4>2, <4>3
      <4>5. UserHeap!End(chain[r + 1]) - AlignSize <= top
        BY <1>2, <4>1 DEF HeapOrder
      <4>6. (a + need) - AlignSize <= top
        BY <1>0, <2>5, <4>2, <4>4, <4>5 DEF top
      <4>7. \A i \in 1 .. Len(chain) : i >= r + 1 => (a + need) - AlignSize <= chain[i].at
        <5> SUFFICES ASSUME NEW i \in 1 .. Len(chain), i >= r + 1
                     PROVE  (a + need) - AlignSize <= chain[i].at
          OBVIOUS
        <5> DEFINE u == chain[r + 1].at
                   w == chain[i].at
        <5>1. u <= w /\ w \in Nat
          BY <1>0, <4>1, HeapAscends, HeapBlockTypes
        <5>2. /\ a \in Nat /\ need \in Nat /\ u \in Nat /\ AlignSize \in Nat
              /\ (a + need) - AlignSize <= u
          BY <1>0, <2>5, <4>2, <4>4
        <5> HIDE DEF u, w
        <5>3. (a + need) - AlignSize <= w
          BY ONLY <5>1, <5>2
        <5> QED BY <5>3 DEF w
      <4> QED BY <3>2, <4>6, <4>7 DEF HeapFits
    <3> QED BY <3>3, <3>4
  <2>8. ASSUME ~careless'
        PROVE  ~(free < 0) /\ a % AlignSize = 0 /\ HeapFits(a, a + need, r + 1, 0, HeapSize)
    <3>1. chain \in Seq(UnitBlocks) /\ HeapOrder(0, HeapSize)
      BY <1>2, <2>8
    <3>2. e % AlignSize = 0
      <4>1. chain[r] \in UnitBlocks
        BY <2>2, <3>1
      <4>2. chain[r].at % AlignSize = 0 /\ chain[r].size % AlignSize = 0
        BY <4>1 DEF UnitBlocks
      <4> QED BY <1>0, <2>4, <4>2, UnitsAdded
    <3>3. a = e
      BY <1>0, <2>4, <3>2, UnitsAligned DEF a
    <3>4. e <= HeapSize
      BY <2>2, <2>4, <3>1 DEF HeapOrder, e
    <3>5. \A i \in 1 .. Len(chain) : i < r + 1 => UserHeap!End(chain[i]) - 0 <= a
      <4> SUFFICES ASSUME NEW i \in 1 .. Len(chain), i <= r
                   PROVE  UserHeap!End(chain[i]) - 0 <= a
        BY <2>2
      <4>1. UserHeap!End(chain[i]) \in Nat
        BY HeapBlockTypes
      <4>2. CASE i = r
        BY <2>4, <3>3, <4>2 DEF e
      <4>3. CASE i < r
        <5>1. UserHeap!End(chain[i]) - 0 <= chain[r].at
          BY <2>2, <3>1, <4>3 DEF HeapOrder
        <5> QED BY <2>4, <3>3, <4>1, <5>1
      <4> QED BY <2>2, <4>2, <4>3
    <3>6. CASE r = Len(chain)
      <4>1. ~(free < 0) /\ free >= need
        BY <1>0, <2>2, <2>3, <2>4, <3>4, <3>6
      <4>2. (a + need) - 0 <= HeapSize
        BY <1>0, <2>3, <2>4, <3>3, <3>6, <4>1
      <4>3. \A i \in 1 .. Len(chain) : i >= r + 1 => (a + need) - 0 <= chain[i].at
        <5> DEFINE N == Len(chain)
        <5>1. N \in Nat /\ r = N
          BY <1>1, <3>6
        <5> HIDE DEF N
        <5>2. ASSUME NEW i \in 1 .. N, i >= r + 1 PROVE FALSE
          BY <5>1, <5>2
        <5> QED BY <5>2 DEF N
      <4> QED BY <3>2, <3>3, <3>5, <4>1, <4>2, <4>3 DEF HeapFits
    <3>7. CASE r # Len(chain)
      <4>1. r + 1 \in 1 .. Len(chain)
        <5> DEFINE N == Len(chain)
        <5>1. N \in Nat /\ r \in 1 .. N /\ r # N
          BY <1>1, <2>2, <3>7
        <5> HIDE DEF N
        <5>2. r + 1 \in 1 .. N
          BY <5>1
        <5> QED BY <5>2 DEF N
      <4>2. /\ chain[r + 1].at \in Nat /\ chain[r + 1].size \in Nat
            /\ UserHeap!End(chain[r + 1]) = chain[r + 1].at + chain[r + 1].size
        BY <4>1, HeapBlockTypes
      <4>3. e - 0 <= chain[r + 1].at
        BY <2>2, <3>1, <4>1 DEF HeapOrder, e
      <4>4. ~(free < 0) /\ free >= need
        BY <1>0, <2>2, <2>3, <2>4, <3>7, <4>2, <4>3
      <4>5. a + need <= chain[r + 1].at
        BY <1>0, <2>3, <2>4, <3>3, <3>7, <4>2, <4>4
      <4>6. UserHeap!End(chain[r + 1]) - 0 <= HeapSize
        BY <3>1, <4>1 DEF HeapOrder
      <4>7. (a + need) - 0 <= HeapSize
        BY <1>0, <2>5, <4>2, <4>5, <4>6
      <4>8. \A i \in 1 .. Len(chain) : i >= r + 1 => (a + need) - 0 <= chain[i].at
        <5> SUFFICES ASSUME NEW i \in 1 .. Len(chain), i >= r + 1
                     PROVE  (a + need) - 0 <= chain[i].at
          OBVIOUS
        <5> DEFINE u == chain[r + 1].at
                   w == chain[i].at
        <5>1. u <= w /\ w \in Nat
          BY <1>0, <4>1, HeapAscends, HeapBlockTypes
        <5>2. /\ a \in Nat /\ need \in Nat /\ u \in Nat /\ AlignSize \in Nat
              /\ (a + need) - 0 <= u
          BY <1>0, <2>5, <4>2, <4>5
        <5> HIDE DEF u, w
        <5>3. (a + need) - 0 <= w
          BY ONLY <5>1, <5>2
        <5> QED BY <5>3 DEF w
      <4> QED BY <3>2, <3>3, <3>5, <4>4, <4>7, <4>8 DEF HeapFits
    <3> QED BY <3>6, <3>7
  <2>9. HeapPlaced(r + 1, a, n)
    BY <2>1, <2>6, <2>7, <2>8 DEF HeapPlaced, need, H, top
  <2> QED BY <1>0, <2>4, <2>5, <2>6, <2>9 DEF H
<1> QED BY <1>3, <1>4, <1>5 DEF UserHeap!Alloc

\* A block is taken.
LEMMA HeapAllocStep == ASSUME HeapSized, HeapInv, NEW n \in Wanted, UserHeap!Alloc(n) PROVE HeapInv'
<1>1. PICK p \in 1 .. Len(chain) + 1, a \in Nat : BlockHeader <= a /\ HeapPlaced(p, a, n)
  BY HeapAllocPlaces
<1> DEFINE b == UserHeap!Block(a, n)
           N == Len(chain)
<1>2. /\ b \in HeapBlocks /\ b.at = a /\ b.size = UserHeap!Needed(n) /\ b.asked = n
      /\ UserHeap!End(b) = a + UserHeap!Needed(n)
  BY <1>1, NeededFor DEF UserHeap!Block, UserHeap!End, HeapBlocks
<1>3. chain \in Seq(HeapBlocks) /\ N \in Nat /\ ~spoilt
  BY DEF HeapInv, UserHeap!Alloc
<1>4. chain' = UserHeap!InsertAt(chain, p, b) /\ spoilt' \in BOOLEAN
  BY <1>1 DEF HeapPlaced
<1> HIDE DEF b
<1>5. /\ chain' \in Seq(HeapBlocks) /\ Len(chain') = N + 1
      /\ \A i \in 1 .. N + 1 :
           chain'[i] = IF i < p THEN chain[i] ELSE IF i = p THEN b ELSE chain[i - 1]
  BY <1>2, <1>3, <1>4, BlockInserted
<1>6. \A i \in 1 .. N + 1 : chain'[i].size = UserHeap!Needed(chain'[i].asked)
  <2> TAKE i \in 1 .. N + 1
  <2>1. CASE i < p
    BY <1>3, <1>5, <2>1 DEF HeapInv
  <2>2. CASE i = p
    BY <1>2, <1>3, <1>5, <2>2
  <2>3. CASE i > p
    <3>1. i - 1 \in 1 .. N /\ chain'[i] = chain[i - 1]
      BY <1>3, <1>5, <2>3
    <3> QED BY <3>1 DEF HeapInv
  <2> QED BY <1>3, <2>1, <2>2, <2>3
<1>7. ASSUME ~spoilt' PROVE HeapOrder(AlignSize, HeapSize + BlockHeader)'
  <2>1. HeapFits(b.at, UserHeap!End(b), p, AlignSize, HeapSize + BlockHeader)
    BY <1>1, <1>2, <1>7 DEF HeapPlaced
  <2>2. HeapOrder(AlignSize, HeapSize + BlockHeader)
    BY <1>3 DEF HeapInv
  <2> QED BY <1>2, <1>3, <1>4, <2>1, <2>2, OrderKept
<1>8. ASSUME ~careless'
      PROVE  ~spoilt' /\ chain' \in Seq(UnitBlocks) /\ HeapOrder(0, HeapSize)'
  <2>1. /\ ~careless /\ UserHeap!Needed(n) % AlignSize = 0
        /\ ~spoilt' /\ a % AlignSize = 0
        /\ HeapFits(a, a + UserHeap!Needed(n), p, 0, HeapSize)
    BY <1>1, <1>8, CarefulAsked DEF HeapPlaced
  <2>2. chain \in Seq(UnitBlocks) /\ HeapOrder(0, HeapSize)
    BY <2>1 DEF HeapInv
  <2>3. b \in UnitBlocks /\ HeapFits(b.at, UserHeap!End(b), p, 0, HeapSize)
    BY <1>2, <2>1 DEF UnitBlocks
  <2>4. chain' \in Seq(UnitBlocks)
    BY <1>4, <2>2, <2>3, BlockInserted
  <2>5. HeapOrder(0, HeapSize)'
    BY <1>2, <1>3, <1>4, <2>2, <2>3, OrderKept
  <2> QED BY <2>1, <2>4, <2>5
<1>9. careless' \in BOOLEAN
  BY CarefulAsked
<1>10. HeapBlocks' = HeapBlocks /\ UnitBlocks' = UnitBlocks
  BY DEF HeapBlocks, UnitBlocks
<1>11. (\A i \in 1 .. Len(chain) : chain[i].size = UserHeap!Needed(chain[i].asked))'
  BY <1>5, <1>6 DEF UserHeap!Needed, UserHeap!Given
<1> QED BY <1>4, <1>5, <1>7, <1>8, <1>9, <1>10, <1>11 DEF HeapInv

\* The list when its p-th block is taken out.
LEMMA BlockTakenOut ==
  ASSUME NEW B, chain \in Seq(B), NEW p \in 1 .. Len(chain),
         chain' = UserHeap!RemoveAt(chain, p)
  PROVE  /\ chain' \in Seq(B) /\ Len(chain') = Len(chain) - 1
         /\ \A i \in 1 .. Len(chain) - 1 : chain'[i] = chain[IF i < p THEN i ELSE i + 1]
<1> DEFINE N == Len(chain)
           front == SubSeq(chain, 1, p - 1)
           behind == SubSeq(chain, p + 1, N)
<1>1. chain \in Seq(B) /\ N \in Nat
  OBVIOUS
<1>2. /\ front \in Seq(B) /\ Len(front) = p - 1
      /\ \A i \in 1 .. p - 1 : front[i] = chain[i]
  BY <1>1
<1>3. /\ behind \in Seq(B) /\ Len(behind) = N - p
      /\ \A i \in 1 .. N - p : behind[i] = chain[p + i]
  BY <1>1
<1>4. chain' = front \o behind
  BY DEF UserHeap!RemoveAt
<1> HIDE DEF front, behind
<1>5. chain' \in Seq(B) /\ Len(chain') = N - 1
  <2>1. front \o behind \in Seq(B) /\ Len(front \o behind) = Len(front) + Len(behind)
    BY <1>2, <1>3, Joined
  <2>2. Len(front) + Len(behind) = N - 1
    BY <1>1, <1>2, <1>3
  <2> QED BY <1>4, <2>1, <2>2
<1>6. \A i \in 1 .. N - 1 : chain'[i] = chain[IF i < p THEN i ELSE i + 1]
  <2> SUFFICES ASSUME NEW i \in 1 .. N - 1 PROVE chain'[i] = chain[IF i < p THEN i ELSE i + 1]
    OBVIOUS
  <2>1. CASE i < p
    <3>1. i \in 1 .. p - 1 /\ i \in 1 .. Len(front)
      BY <1>2, <2>1
    <3>2. (front \o behind)[i] = front[i]
      BY <1>2, <1>3, <3>1
    <3> QED BY <1>1, <1>2, <1>4, <2>1, <3>1, <3>2
  <2>2. CASE i >= p
    <3>1. /\ i - (p - 1) \in 1 .. N - p /\ p + (i - (p - 1)) = i + 1
          /\ i \in Len(front) + 1 .. Len(front) + Len(behind) /\ i - Len(front) = i - (p - 1)
      <4>1. /\ N \in Nat /\ p \in 1 .. N /\ i \in 1 .. N - 1 /\ i >= p
            /\ Len(front) = p - 1 /\ Len(behind) = N - p
        BY <1>1, <1>2, <1>3, <2>2
      <4> HIDE DEF N
      <4> QED BY ONLY <4>1
    <3>2. (front \o behind)[i] = behind[i - (p - 1)]
      BY <1>2, <1>3, <3>1
    <3> QED BY <1>1, <1>3, <1>4, <2>2, <3>1, <3>2
  <2> QED BY <1>1, <2>1, <2>2
<1> QED BY <1>5, <1>6

\* heapFree: the blocks that are left stay where they are.
LEMMA HeapFreeStep ==
  ASSUME HeapSized, HeapInv, NEW p \in 1 .. Len(chain), UserHeap!Free(p)
  PROVE  HeapInv'
<1> DEFINE N == Len(chain)
           On(i) == IF i < p THEN i ELSE i + 1
<1>1. /\ chain \in Seq(HeapBlocks) /\ N \in Nat /\ chain' = UserHeap!RemoveAt(chain, p)
      /\ careless' = careless /\ spoilt' = (spoilt /\ chain' # <<>>)
  BY DEF HeapInv, UserHeap!Free
<1>2. /\ chain' \in Seq(HeapBlocks) /\ Len(chain') = N - 1
      /\ \A i \in 1 .. N - 1 : On(i) \in 1 .. N /\ chain'[i] = chain[On(i)]
  BY <1>1, BlockTakenOut
<1>3. \A i, j \in 1 .. N - 1 : i < j => On(i) < On(j)
  BY <1>1
<1> HIDE DEF On
<1>4. ASSUME NEW d, NEW top, HeapOrder(d, top) PROVE HeapOrder(d, top)'
  <2>1. \A i \in 1 .. N - 1 : UserHeap!End(chain'[i]) - d <= top
    BY <1>2, <1>4 DEF HeapOrder
  <2>2. \A i, j \in 1 .. N - 1 : i < j => UserHeap!End(chain'[i]) - d <= chain'[j].at
    BY <1>2, <1>3, <1>4 DEF HeapOrder
  <2> QED BY <1>2, <2>1, <2>2 DEF HeapOrder, UserHeap!End
<1>5. ASSUME ~spoilt' PROVE HeapOrder(AlignSize, HeapSize + BlockHeader)'
  <2>1. CASE spoilt
    <3>1. chain' = <<>>
      BY <1>1, <1>5, <2>1, Zenon
    <3>2. Len(chain') = 0
      BY <3>1
    <3> QED BY <3>2 DEF HeapOrder
  <2>2. CASE ~spoilt
    <3>1. HeapOrder(AlignSize, HeapSize + BlockHeader)
      BY <2>2 DEF HeapInv
    <3> QED BY <1>4, <3>1
  <2> QED BY <2>1, <2>2
<1>6. ASSUME ~careless'
      PROVE  ~spoilt' /\ chain' \in Seq(UnitBlocks) /\ HeapOrder(0, HeapSize)'
  <2>1. ~careless /\ ~spoilt /\ chain \in Seq(UnitBlocks) /\ HeapOrder(0, HeapSize)
    BY <1>1, <1>6 DEF HeapInv
  <2>2. chain' \in Seq(UnitBlocks)
    BY <1>1, <2>1, BlockTakenOut
  <2>3. ~spoilt'
    BY <1>1, <2>1, Zenon
  <2> QED BY <1>4, <2>1, <2>2, <2>3
<1>7. careless' \in BOOLEAN /\ spoilt' \in BOOLEAN
  BY <1>1, Zenon DEF HeapInv
<1>8. HeapBlocks' = HeapBlocks /\ UnitBlocks' = UnitBlocks
  BY DEF HeapBlocks, UnitBlocks
<1>9. (\A i \in 1 .. Len(chain) : chain[i].size = UserHeap!Needed(chain[i].asked))'
  BY <1>2 DEF HeapInv, UserHeap!Needed, UserHeap!Given
<1> QED BY <1>2, <1>5, <1>6, <1>7, <1>8, <1>9 DEF HeapInv

\* The invariant, for sizes of any kind and a heap of any size.
THEOREM HeapInvariant == ASSUME HeapSized PROVE UserHeap!Spec => []HeapInv
<1>1. UserHeap!Init => HeapInv
  <2> SUFFICES ASSUME UserHeap!Init PROVE HeapInv
    OBVIOUS
  <2>1. chain = <<>> /\ careless = FALSE /\ spoilt = FALSE
    BY DEF UserHeap!Init
  <2>2. chain \in Seq(HeapBlocks) /\ chain \in Seq(UnitBlocks) /\ Len(chain) = 0
    BY <2>1
  <2>3. \A d, top : HeapOrder(d, top)
    BY <2>2 DEF HeapOrder
  <2>4. \A i \in 1 .. Len(chain) : chain[i].size = UserHeap!Needed(chain[i].asked)
    BY <2>2
  <2>5. careless \in BOOLEAN /\ spoilt \in BOOLEAN /\ ~spoilt
    BY <2>1
  <2> QED BY <2>2, <2>3, <2>4, <2>5 DEF HeapInv
<1>2. HeapInv /\ [UserHeap!Next]_(UserHeap!vars) => HeapInv'
  <2> SUFFICES ASSUME HeapInv, [UserHeap!Next]_(UserHeap!vars) PROVE HeapInv'
    OBVIOUS
  <2>1. CASE UNCHANGED UserHeap!vars
    BY <2>1 DEF UserHeap!vars, HeapInv, HeapOrder, HeapBlocks, UnitBlocks, UserHeap!Needed,
                UserHeap!Given, UserHeap!End
  <2>2. DOMAIN chain = 1 .. Len(chain)
    BY DEF HeapInv
  <2> QED BY <2>1, <2>2, HeapAllocStep, HeapFreeStep DEF UserHeap!Next
<1> QED BY <1>1, <1>2, PTL DEF UserHeap!Spec

\* Types of the blocks of a heap, whatever sizes are asked of it: those that are put where there
\* is no room, too.
THEOREM HeapTypeCorrect == ASSUME HeapSized PROVE UserHeap!Spec => []UserHeap!TypeOK
<1>1. HeapInv => UserHeap!TypeOK
  <2> SUFFICES ASSUME HeapInv PROVE UserHeap!TypeOK
    OBVIOUS
  <2>1. DOMAIN chain = 1 .. Len(chain) /\ careless \in BOOLEAN /\ spoilt \in BOOLEAN
    BY DEF HeapInv
  <2> QED BY <2>1, HeapBlockTypes DEF UserHeap!TypeOK
<1> QED BY <1>1, HeapInvariant, PTL

\* Whatever heapAlloc and heapFree do in whatever order and for whatever sizes: no two callers
\* share memory, no header is in it, and all of it is in the heap, behind its root, up to a block
\* that heapAlloc puts where there is no room; and that it does only after a caller asked for a
\* size that is no number of units, or for all up to the last unit of the heap.
THEOREM HeapApartCorrect == ASSUME HeapSized PROVE UserHeap!Spec => []UserHeap!BlocksApart
<1>1. HeapInv => UserHeap!BlocksApart
  <2> SUFFICES ASSUME HeapInv PROVE UserHeap!BlocksApart
    OBVIOUS
  <2>1. DOMAIN chain = 1 .. Len(chain)
    BY DEF HeapInv
  <2>2. BlockHeader \in Nat /\ AlignSize \in Nat \ {0} /\ HeapSize \in Nat
    BY DEF HeapSized
  <2>3. spoilt => careless
    BY DEF HeapInv
  <2>4. ASSUME NEW i \in 1 .. Len(chain)
        PROVE  /\ UserHeap!Extent(chain[i])
                    = chain[i].at .. (UserHeap!End(chain[i]) - AlignSize) - 1
               /\ chain[i].at \in Nat /\ BlockHeader <= chain[i].at
               /\ UserHeap!End(chain[i]) - AlignSize \in Nat
    <3> DEFINE a == chain[i].at
               g == UserHeap!Given(chain[i].asked)
               e == UserHeap!End(chain[i])
    <3>1. /\ a \in Nat /\ BlockHeader <= a
          /\ g \in Nat /\ e = a + (g + BlockHeader + AlignSize)
      <4>1. chain[i].asked \in Wanted
        BY HeapBlockTypes
      <4> QED BY <4>1, HeapBlockTypes, NeededFor
    <3>2. UserHeap!Extent(chain[i]) = a .. a + BlockHeader + g - 1
      BY DEF UserHeap!Extent
    <3> HIDE DEF a, g, e
    <3>3. a + BlockHeader + g - 1 = (e - AlignSize) - 1 /\ e - AlignSize \in Nat
      BY <2>2, <3>1
    <3> QED BY <3>1, <3>2, <3>3 DEF a, e
  <2>5. ASSUME ~spoilt, NEW i \in 1 .. Len(chain), NEW j \in 1 .. Len(chain), i # j
        PROVE  UserHeap!Extent(chain[i]) \cap UserHeap!Extent(chain[j]) = {}
    <3>1. \/ UserHeap!End(chain[i]) - AlignSize <= chain[j].at
          \/ UserHeap!End(chain[j]) - AlignSize <= chain[i].at
      BY <2>5 DEF HeapInv, HeapOrder
    <3>2. (chain[i].at .. (UserHeap!End(chain[i]) - AlignSize) - 1)
            \cap (chain[j].at .. (UserHeap!End(chain[j]) - AlignSize) - 1)
            = {}
      BY <2>4, <3>1
    <3> QED BY <2>4, <3>2
  <2>6. ASSUME ~spoilt, NEW i \in 1 .. Len(chain)
        PROVE  UserHeap!Extent(chain[i]) \subseteq BlockHeader .. HeapSize + BlockHeader - 1
    <3>1. UserHeap!End(chain[i]) - AlignSize <= HeapSize + BlockHeader
      BY <2>6 DEF HeapInv, HeapOrder
    <3>2. chain[i].at .. (UserHeap!End(chain[i]) - AlignSize) - 1
            \subseteq BlockHeader .. HeapSize + BlockHeader - 1
      BY <2>2, <2>4, <3>1
    <3> QED BY <2>4, <3>2
  <2> QED BY <2>1, <2>3, <2>5, <2>6 DEF UserHeap!BlocksApart
<1> QED BY <1>1, HeapInvariant, PTL

-----------------------------------------------------------------------------
(* What the run "units" says of these parts. *)

\* Both of dirh.c: a list that is whole, from a thread that writes nowhere else, for directories
\* of any size.
THEOREM DirectoryReadCorrect ==
  ASSUME MaxEntries \in Nat
  PROVE  Dirh!Spec => []DirectoryRead
<1>1. Dirh!ListWhole /\ Dirh!ThreadAccounted => DirectoryRead
  BY DEF DirectoryRead
<1> QED BY <1>1, DirhListWholeCorrect, DirhThreadAccountedCorrect, PTL

\* All of what is taken: by mfMenuMain from threads, sound, hooks and pools, by
\* mfmenu_alloc_buffers from the screen memory, by mfHook from the words of the modules; but for
\* the part of the screen memory that unsaved of Screen tells of (mfMenuMain.c:569).
THEOREM GivenBackCorrect ==
  ASSUME Owners, InVram, Nowhere \notin Hooks!Words
  PROVE  Takeover!Spec /\ Screen!Spec /\ Hooks!Spec => []GivenBack
<1>1. Takeover!GivenBack /\ Screen!ScreenBack /\ Hooks!CallsArrive => GivenBack
  BY DEF GivenBack
<1> QED BY <1>1, TakeoverGivenBackCorrect, ScreenBackCorrect, HooksCallsArriveCorrect, PTL

\* The rapid fire (rfengine.c) keeps time, and a button that is to hold follows its presses.
THEOREM HoldFollowsPressesCorrect ==
  ASSUME Timed
  PROVE  Rapidfire!Spec => HoldFollowsPresses
<1>1. Rapidfire!KeepsTime => (unit = "rapid" => Rapidfire!KeepsTime)
  OBVIOUS
<1>2. [Rapidfire!HoldFollowed]_(Rapidfire!vars)
        => [unit = "rapid" => Rapidfire!HoldFollowed]_rapidVars
  BY DEF Rapidfire!vars, rapidVars
<1> QED BY <1>1, <1>2, RapidKeepsTimeCorrect, RapidHoldFollows, PTL
        DEF Rapidfire!HoldFollowsPresses, HoldFollowsPresses

\* padctrl.c reports a button when it is pressed and then as the delays have it.
THEOREM RepeatsFollowCorrect ==
  ASSUME Repeating
  PROVE  Padctrl!Spec => RepeatsFollow
<1>1. [Padctrl!Follows]_(Padctrl!vars) => [unit = "padctrl" => Padctrl!Follows]_padVars
  BY DEF Padctrl!vars, padVars
<1> QED BY <1>1, PadRepeatsFollow, PTL DEF Padctrl!RepeatsFollow, RepeatsFollow

\* The text of the keyboard (cdialog/sosk.c) is a line with a cursor.
THEOREM ImplementsLineCorrect ==
  ASSUME TextSized
  PROVE  SoskText!Spec => ImplementsLine
<1>1. [SoskText!Line!Next]_(SoskText!Line!vars)
        => [unit = "sosktext" => [SoskText!Line!Next]_(SoskText!Line!vars)]_textVars
  OBVIOUS
<1> QED BY <1>1, TextLineRefines, PTL
        DEF SoskText!ImplementsLine, SoskText!Line!Spec, ImplementsLine

\* The menu and the messages are drawn into the frame and in the format that they are for, and are
\* not seen before they are finished (libpb with mfmain.c and mfMenuMain.c).
THEOREM DrawnAsGivenCorrect ==
  ASSUME Framed
  PROVE  Frames!Spec => []DrawnAsGiven
<1>1. Frames!DrawnInFormat /\ Frames!DrawnUnseen => DrawnAsGiven
  BY DEF DrawnAsGiven
<1> QED BY <1>1, DrawnInFormatCorrect, DrawnUnseenCorrect, PTL

\* Blocks have one owner: in a partition (memory.c), and in a heap (heapAlloc.c) up to a block that
\* is put where there is no room, after a size that is no number of units or that takes all up to
\* the last unit.
THEOREM BlocksApartCorrect ==
  ASSUME Partition, HeapSized
  PROVE  Memory!Spec /\ UserHeap!Spec => []BlocksApart
<1>1. Memory!MemoryKept /\ UserHeap!BlocksApart => BlocksApart
  BY DEF BlocksApart
<1> QED BY <1>1, MemoryKeptCorrect, HeapApartCorrect, PTL
=============================================================================
