-------------------------------- MODULE Takeover --------------------------------
(***************************************************************************)
(* What the menu takes from the game and gives back (mfMenuMain.c): its    *)
(* threads, the sound, the hooks and memory.  The game goes on until its   *)
(* threads are suspended, one way or another on every path.                *)
(***************************************************************************)
EXTENDS Naturals, FiniteSets

CONSTANTS
  Game,     \* the threads that the game may have
  System,   \* the threads that there are before the game, and the thread of the menu
  Notifier, \* the thread that prints messages
  Most      \* MF_MENU_MAX_NUMBER_OF_THREADS

VARIABLES
  alive,      \* the threads that there are
  halted,     \* those that are suspended
  sysThreads, \* __mfmenu__gSysThreads.List
  list,       \* __mfmenu__gParams->Thread.List, without its zeroes
  at,         \* how far the menu is: "game", "list", "suspend", "take", "init", "shown", "give"
  unhooked,   \* the hooks are off although the engine is on
  muted,      \* the sound is off
  buffers,    \* what screen memory the menu has taken, "none", "taken"
  pools,      \* the memory pools of the menu
  stopped,    \* history: the threads that the game itself suspended
  early,      \* history: the threads that ran when the list was made, and since
  starved     \* history: a pool was left behind

vars == <<alive, halted, sysThreads, list, at, unhooked, muted, buffers, pools, stopped, early,
          starved>>
own  == <<sysThreads, list, at, unhooked, muted, buffers, pools, starved>>

Threads == Game \cup System \cup {Notifier}
Runs    == alive \ halted

TypeOK ==
  /\ alive \subseteq Threads /\ halted \subseteq alive /\ list \subseteq Threads
  /\ sysThreads \subseteq Threads /\ stopped \subseteq Game /\ early \subseteq Threads
  /\ at \in {"game", "list", "suspend", "take", "init", "shown", "give"}
  /\ {unhooked, muted, starved} \subseteq BOOLEAN /\ buffers \in {"none", "taken"}
  /\ pools \in 0 .. 1

\* mfMenuInit, before there is a game, and mfMenuAddSysThreadId of module_start.
Init ==
  /\ alive = System /\ halted = {} /\ sysThreads = System /\ list = {} /\ at = "game"
  /\ unhooked = FALSE /\ muted = FALSE /\ buffers = "none" /\ pools = 0
  /\ stopped = {} /\ early = {} /\ starved = FALSE

-----------------------------------------------------------------------------
(* The game, as long as it runs.  A thread may have the id of one that ended. *)

Born(t) ==
  /\ t \in Game \ alive /\ Cardinality(alive) < Most /\ (at = "game" \/ Game \cap Runs # {})
  /\ alive' = alive \cup {t}
  /\ UNCHANGED <<own, halted, stopped, early>>
Ends(t) ==
  /\ t \in Game \cap Runs
  /\ alive' = alive \ {t} /\ early' = early \ {t}
  /\ UNCHANGED <<own, halted, stopped>>
\* A thread of the game suspends another one of it, or resumes it.
Stops(t, u) ==
  /\ {t, u} \subseteq Game \cap Runs /\ t # u
  /\ halted' = halted \cup {u} /\ stopped' = stopped \cup {u} /\ early' = early \ {u}
  /\ UNCHANGED <<own, alive>>
Starts(t, u) ==
  /\ t \in Game \cap Runs /\ u \in stopped
  /\ halted' = halted \ {u} /\ stopped' = stopped \ {u}
  /\ UNCHANGED <<own, alive, early>>

-----------------------------------------------------------------------------
(* The menu: mfMenuMain. *)

Kept == UNCHANGED <<alive, stopped, sysThreads>>

\* The pool and what is in it. With no memory for that the pool stays behind.
Open ==
  /\ at = "game" /\ ~starved
  /\ \/ pools' = 1 /\ at' = "list" /\ UNCHANGED starved
     \/ pools' = 1 /\ starved' = TRUE /\ UNCHANGED at
  /\ Kept /\ UNCHANGED <<halted, list, unhooked, muted, buffers, early>>

\* Variant: the thread that prints messages is a target like any other.
TargetsAll == alive \ sysThreads
\* mfmenu_get_target_threads. It may fail.
Targets == alive \ (sysThreads \cup {Notifier})
List ==
  /\ at = "list"
  /\ \/ list' = Targets /\ early' = Runs /\ at' = "suspend"
     \/ list' = {} /\ early' = {} /\ at' = "give"
  /\ Kept /\ UNCHANGED <<halted, unhooked, muted, buffers, pools, starved>>

\* mfmenu_change_threads_stat with sceKernelSuspendThread; the game did what it did meanwhile.
Suspend ==
  /\ at = "suspend"
  /\ halted' = halted \cup (list \cap alive) /\ at' = "take"
  /\ Kept /\ UNCHANGED <<list, unhooked, muted, buffers, pools, early, starved>>

\* The sound goes off, and the hooks if the engine is on.
Take ==
  /\ at = "take"
  /\ muted' = TRUE /\ unhooked' \in BOOLEAN /\ at' = "init"
  /\ Kept /\ UNCHANGED <<halted, list, buffers, pools, early, starved>>

\* mfmenu_init_params and mfmenu_init_graphics: each may fail, the second after it took memory.
InitMenu ==
  /\ at = "init"
  /\ \/ at' = "shown" /\ buffers' = "taken"
     \/ at' = "give" /\ buffers' \in {"none", "taken"}
  /\ Kept /\ UNCHANGED <<halted, list, unhooked, muted, pools, early, starved>>

\* The loop ends, and mfmenu_root_menu is told so: the notifier starts, or is shut down.
Quit ==
  /\ at = "shown" /\ at' = "give"
  /\ alive' \in {alive, alive \cup {Notifier}, alive \ {Notifier}}
  /\ UNCHANGED <<halted, list, sysThreads, unhooked, muted, buffers, pools, stopped, early, starved>>

\* What is behind DESTROY: all is given back. A thread that is not suspended cannot be resumed,
\* one that the game suspended can.
Resumed == halted \ list
\* Variant: nothing is resumed if the screen could not be had.
ResumedIfShown == IF buffers = "taken" THEN halted \ list ELSE halted
Give ==
  /\ at = "give"
  /\ buffers' = "none" /\ muted' = FALSE /\ unhooked' = FALSE
  /\ halted' = Resumed /\ stopped' = stopped \ list /\ pools' = 0 /\ at' = "game"
  /\ UNCHANGED <<alive, sysThreads, list, early, starved>>

Next ==
  \/ \E t \in Game : Born(t) \/ Ends(t)
  \/ \E t, u \in Game : Stops(t, u) \/ Starts(t, u)
  \/ Open \/ List \/ Suspend \/ Take \/ InitMenu \/ Quit \/ Give

Spec == Init /\ [][Next]_vars

-----------------------------------------------------------------------------
\* When the menu is gone, on every path, no thread stays suspended that the game did not
\* suspend, and the sound, the hooks, the screen's memory and the pool are back.  While it is
\* shown no thread runs that ran in the game from when the list was made, and all others do
\* (mfMenuMain).  Not told is that a thread the game suspended is resumed with the others.
GivenBack ==
  /\ at = "game" =>
       /\ halted \subseteq stopped
       /\ ~muted /\ ~unhooked /\ buffers = "none" /\ (pools = 0 \/ starved)
  /\ at \in {"take", "init", "shown"} => early \cap Game \cap Runs = {}
  /\ at # "game" => halted \subseteq Game
=============================================================================
