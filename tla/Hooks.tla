-------------------------------- MODULE Hooks --------------------------------
(***************************************************************************)
(* The words through which functions of the system are called (src/include *)
(* /util/hook, mfHook and mfUnhook in mfmain.c): MacroFire, and another    *)
(* plugin, replace the functions in them by their own.                     *)
(***************************************************************************)
EXTENDS Naturals, Sequences, FiniteSets, SequencesExt

CONSTANTS
  Loaded,    \* the modules: their libraries in order, each with a name and its functions
  Calls,     \* the functions that are in the table of system calls, in order
  Table,     \* hooktable: the module, the library and the function of each entry
  Null

VARIABLES
  word,     \* what each word holds: a function of the system, or a hook
  restore,  \* hooktable[].restore: the word and what it held, for each entry
  hooked,   \* st_hooked
  other,    \* the hooks of the other plugin: the word of each and what it held
  mixed     \* history: the other plugin hooked what MacroFire hooks, after it had looked

vars == <<word, restore, hooked, other, mixed>>

Modules == DOMAIN Loaded
Exports == UNION { UNION { {<<m, l, i>> : i \in 1 .. Len(Loaded[m][l].functions)} :
                           l \in 1 .. Len(Loaded[m]) } : m \in Modules }
Words   == Exports \cup {<<"call", i>> : i \in 1 .. Len(Calls)}

\* Functions are named after their nid.
Original(w) == IF w[1] = "call" THEN Calls[w[2]] ELSE Loaded[w[1]][w[2]].functions[w[3]]
Hook(e)     == <<"macrofire", e>>
Others(w)   == <<"other", w>>

TypeOK ==
  /\ DOMAIN word = Words /\ DOMAIN restore = DOMAIN Table
  /\ \A e \in DOMAIN Table : restore[e].addr \in Words \cup {Null}
  /\ hooked \in BOOLEAN /\ mixed \in BOOLEAN

Init ==
  /\ word = [w \in Words |-> <<"system", Original(w)>>]
  /\ restore = [e \in DOMAIN Table |-> [addr |-> Null, api |-> Null]]
  /\ hooked = FALSE /\ other = {} /\ mixed = FALSE

-----------------------------------------------------------------------------
\* hookFindExportAddr: when no library has the name the last one is taken.
FindExportAddr(module, library, function) ==
  IF module \notin Modules THEN Null
  ELSE LET libs == Loaded[module]
           l0   == SelectInSeq(libs, LAMBDA lib : lib.name = library)
           l    == IF l0 = 0 THEN Len(libs) ELSE l0
           i    == SelectInSeq(libs[l].functions, LAMBDA f : f = function)
       IN  IF i = 0 THEN Null ELSE <<module, l, i>>

\* hookFindSyscallAddr: the first system call that leads to what the word holds.
FindSyscallAddr(addr) ==
  IF addr = Null THEN Null
  ELSE LET i == SelectInSeq([n \in 1 .. Len(Calls) |-> <<"call", n>>], LAMBDA w : word[w] = word[addr])
       IN  IF i = 0 THEN Null ELSE <<"call", i>>

\* mf_find_hook_address, once.
Looked == \E e \in DOMAIN Table : restore[e].addr # Null
Find ==
  /\ ~Looked /\ ~hooked
  /\ restore' = [e \in DOMAIN Table |->
       LET export == FindExportAddr(Table[e].module, Table[e].library, Table[e].function)
           call   == FindSyscallAddr(export)
           addr   == IF call = Null THEN export ELSE call
       IN  [addr |-> addr, api |-> IF addr = Null THEN Null ELSE word[addr]]]
  /\ UNCHANGED <<word, hooked, other, mixed>>

\* hookFunc for each entry of the table, with interrupts disabled for each: nothing is written where there is no address.
Written(value) ==
  word' = [w \in Words |->
    IF \E e \in DOMAIN Table : restore[e].addr = w
    THEN value[CHOOSE e \in DOMAIN Table : restore[e].addr = w] ELSE word[w]]

MfHook ==
  /\ ~hooked /\ Looked
  /\ Written([e \in DOMAIN Table |-> Hook(e)])
  /\ hooked' = TRUE
  /\ UNCHANGED <<restore, other, mixed>>

MfUnhook ==
  /\ hooked
  /\ Written([e \in DOMAIN Table |-> restore[e].api])
  /\ hooked' = FALSE
  /\ UNCHANGED <<restore, other, mixed>>

\* Another plugin hooks a word of its choice, once.
OtherHooks(w) ==
  /\ \A h \in other : h.addr # w
  /\ other' = other \cup {[addr |-> w, api |-> word[w]]}
  /\ word' = [word EXCEPT ![w] = Others(w)]
  /\ mixed' = (mixed \/ \E e \in DOMAIN Table : restore[e].addr = w)
  /\ UNCHANGED <<restore, hooked>>

Next == Find \/ MfHook \/ MfUnhook \/ (\E w \in Words : OtherHooks(w))

Spec == Init /\ [][Next]_vars

-----------------------------------------------------------------------------
\* Where a hook passes a call on.
PassedOn(f) ==
  CASE f[1] = "macrofire" -> restore[f[2]].api
    [] f[1] = "other" -> (CHOOSE h \in other : h.addr = f[2]).api
    [] OTHER -> f

\* Every call comes to the function of the system that it is for, whoever has hooked it and
\* in whatever order, by way of MacroFire's hook exactly when its hooks are in; and as long as the
\* other plugin hooks other words, or hooked them first, it is called, too.
CallsArrive ==
  \A w \in Words :
    LET path == <<word[w], PassedOn(word[w]), PassedOn(PassedOn(word[w]))>>
        by   == {path[i][1] : i \in 1 .. 3}
        mine == {e \in DOMAIN Table : restore[e].addr = w}
    IN  /\ PassedOn(path[3]) = <<"system", Original(w)>>
        /\ mine # {} /\ ~mixed => ("macrofire" \in by) = hooked
        /\ mine = {} => "macrofire" \notin by
        /\ (\E h \in other : h.addr = w) /\ ~mixed => "other" \in by
=============================================================================
