----------------------------- MODULE DllRuntime -----------------------------
(***************************************************************************)
(* src/lib.rs: DllMain, the two exports, and the three OnceLocks behind    *)
(* them, under any number of threads of the game.                          *)
(*                                                                         *)
(* Windows calls DllMain with the loader lock held, and takes the same     *)
(* lock for a moment inside GetModuleHandleA and GetModuleFileNameW, which *)
(* patches::initialize calls.  The game calls the exports once the DLL is  *)
(* loaded, never from under the loader lock.                               *)
(***************************************************************************)
EXTENDS Naturals

CONSTANTS Thread, NoThread

ASSUME ThreadAssumption == NoThread \notin Thread

\* RUNTIME_INITIALIZED, GEAR_HARDWARE, GEAR_SCORE
Object == {"hardware", "score"}
Cell   == Object \cup {"runtime"}

\* What initialize does that needs the loader lock: it looks up the DLL's own
\* path, Dunia.dll, the path of that, and its own path for the log.
\* When Dunia.dll is not loaded, or cannot be inspected, run returns early.
After == [configPath  |-> {"duniaHandle"},
          duniaHandle |-> {"duniaPath", "logPath"},
          duniaPath   |-> {"logPath"},
          logPath     |-> {"instance"}]
InitCalls == DOMAIN After

VARIABLES
  loaderLock,      \* the thread that holds the loader lock
  selfModule,      \* SELF_MODULE has been stored
  loaded,          \* the DLL can be called
  cell,            \* the OnceLocks: "empty", "running" or "full"
  at,              \* where each thread is
  wants,           \* the export each thread is in
  boxes,           \* how many objects of each kind have been created
  instance,        \* the one each OnceLock holds
  got,             \* what the last call of each thread returned
  runs,            \* how often initialize has been begun
  blind            \* initialize was begun without SELF_MODULE

libVars == <<loaderLock, selfModule, loaded, cell, at, wants, boxes, instance,
             got, runs, blind>>

Attaching == {"processAttach", "threadAttach"}

Go(t, from, to) ==
  /\ at[t] = from
  /\ at' = [at EXCEPT ![t] = to]
-----------------------------------------------------------------------------
(* The loader. *)

Lock(t) == loaderLock = NoThread /\ loaderLock' = t

LoadLibrary(t) ==
  /\ ~loaded
  /\ Lock(t)
  /\ Go(t, "game", "processAttach")
  /\ UNCHANGED <<selfModule, loaded, cell, wants, boxes, instance, got, runs,
                 blind>>

\* A thread that starts once the DLL is loaded passes through its DllMain.
StartThread(t) ==
  /\ Go(t, "away", IF loaded THEN "threadAttach" ELSE "game")
  /\ IF loaded THEN Lock(t) ELSE UNCHANGED loaderLock
  /\ UNCHANGED <<selfModule, loaded, cell, wants, boxes, instance, got, runs,
                 blind>>

\* A thread's DllMain; the process's is the one that stores SELF_MODULE.
Attach(t, next) ==
  /\ at[t] \in Attaching
  /\ selfModule' = (selfModule \/ at[t] = "processAttach")
  /\ loaded' = (loaded \/ at[t] = "processAttach")
  /\ Go(t, at[t], next)
  /\ UNCHANGED <<cell, wants, boxes, instance, got, runs, blind>>

\* (Fault) DllMain initializes the runtime itself.
DllMainInitializes(t) == Attach(t, "runtime") /\ UNCHANGED loaderLock

\* DllMain runs, and the loader releases its lock.
DllMain(t) == Attach(t, "game") /\ loaderLock' = NoThread
-----------------------------------------------------------------------------
(* The exports. *)

\* GetHardwareInstance or GetScoreInstance is called.
Export(t, o) ==
  /\ loaded
  /\ Go(t, "game", "runtime")
  /\ wants' = [wants EXCEPT ![t] = o]
  /\ UNCHANGED <<loaderLock, selfModule, loaded, cell, boxes, instance, got,
                 runs, blind>>

\* OnceLock::get_or_init: one caller claims the cell and runs the closure, the
\* others wait for it and pass once it is full.
\* (Faults) The cell is not claimed before the closure runs; a caller that finds
\* the closure running goes on without waiting.
ClaimLater(c)  == cell[c] # "full" /\ UNCHANGED cell
PassRunning(c) == cell[c] # "empty"

Claim(c) == cell[c] = "empty" /\ cell' = [cell EXCEPT ![c] = "running"]
Pass(c)  == cell[c] = "full"

GetOrInit(t, c, closure, next) ==
  \/ Pass(c) /\ at' = [at EXCEPT ![t] = next] /\ UNCHANGED cell
  \/ Claim(c) /\ at' = [at EXCEPT ![t] = closure]

\* ensure_runtime_initialized.
EnsureRuntimeInitialized(t) ==
  /\ at[t] = "runtime"
  /\ GetOrInit(t, "runtime", "configPath", "instance")
  /\ runs' = runs + (IF cell["runtime"] = "empty" THEN 1 ELSE 0)
  /\ blind' = (blind \/ (cell["runtime"] = "empty" /\ ~selfModule))
  /\ UNCHANGED <<loaderLock, selfModule, loaded, wants, boxes, instance, got>>

\* initialize enters a call that takes the loader lock, and leaves it; with the
\* last one done, the OnceLock is full.
EnterLoader(t) ==
  /\ at[t] \in InitCalls
  /\ Lock(t)
  /\ UNCHANGED <<selfModule, loaded, cell, at, wants, boxes, instance, got,
                 runs, blind>>

\* (Fault) The end of the initialization is not recorded.
Unrecorded(next) == cell

Recorded(next) ==
  IF next = "instance" THEN [cell EXCEPT !["runtime"] = "full"] ELSE cell

LeaveLoader(t) ==
  /\ loaderLock = t
  /\ at[t] \in InitCalls
  /\ \E next \in After[at[t]] :
       /\ at' = [at EXCEPT ![t] = next]
       /\ cell' = Recorded(next)
  /\ loaderLock' = NoThread
  /\ UNCHANGED <<selfModule, loaded, wants, boxes, instance, got, runs, blind>>

GetInstance(t) ==
  /\ at[t] = "instance"
  /\ GetOrInit(t, wants[t], "create", "return")
  /\ UNCHANGED <<loaderLock, selfModule, loaded, wants, boxes, instance, got,
                 runs, blind>>

\* The closure boxes a new object, and the OnceLock keeps it.
Create(t) ==
  /\ Go(t, "create", "return")
  /\ boxes' = [boxes EXCEPT ![wants[t]] = @ + 1]
  /\ instance' = [instance EXCEPT ![wants[t]] = boxes'[wants[t]]]
  /\ cell' = [cell EXCEPT ![wants[t]] = "full"]
  /\ UNCHANGED <<loaderLock, selfModule, loaded, wants, got, runs, blind>>

ReturnInstance(t) ==
  /\ Go(t, "return", "game")
  /\ got' = [got EXCEPT ![t] = <<wants[t], instance[wants[t]]>>]
  /\ UNCHANGED <<loaderLock, selfModule, loaded, cell, wants, boxes, instance,
                 runs, blind>>

\* What a thread does once it has entered the DLL or the loader; starting,
\* loading and calling are up to the game.
Run(t) ==
  \/ DllMain(t)
  \/ EnsureRuntimeInitialized(t)
  \/ EnterLoader(t)
  \/ LeaveLoader(t)
  \/ GetInstance(t)
  \/ Create(t)
  \/ ReturnInstance(t)

LibInit ==
  /\ loaderLock = NoThread
  /\ selfModule = FALSE
  /\ loaded = FALSE
  /\ cell = [c \in Cell |-> "empty"]
  /\ at \in [Thread -> {"away", "game"}]
  /\ wants = [t \in Thread |-> "hardware"]
  /\ boxes = [o \in Object |-> 0]
  /\ instance = [o \in Object |-> 0]
  /\ got = [t \in Thread |-> <<"hardware", 0>>]
  /\ runs = 0
  /\ blind = FALSE

LibNext ==
  \E t \in Thread :
    \/ LoadLibrary(t)
    \/ StartThread(t)
    \/ \E o \in Object : Export(t, o)
    \/ Run(t)

LibSpec == LibInit /\ [][LibNext]_libVars
                   /\ \A t \in Thread : WF_libVars(Run(t))
-----------------------------------------------------------------------------
(* Properties. *)

\* initialize never runs with a null module handle (SELF_MODULE is stored before
\* any export can be called), and no export hands out an object before it has
\* run to its end: the game never acts on an unpatched Dunia.dll once it has its
\* hardware object.
PatchedBeforeUse ==
  /\ ~blind
  /\ \A t \in Thread :
       at[t] \in {"instance", "create", "return"} \/ got[t][2] # 0 =>
         /\ runs = 1
         /\ \A u \in Thread : at[u] \notin InitCalls

\* All callers of one export get the same object, and no second one is made.
OneInstance ==
  /\ \A o \in Object : boxes[o] <= 1
  /\ \A t, u \in Thread :
       got[t][1] = got[u][1] /\ got[t][2] # 0 /\ got[u][2] # 0
         => got[t] = got[u]

\* "outside DllMain and the Windows loader lock" (lib.rs:36): a thread that
\* holds the loader lock never waits, for a OnceLock or for the lock itself, so
\* whoever holds it soon gives it back.
NoWaitUnderLoaderLock ==
  loaderLock # NoThread =>
    at[loaderLock] \in Attaching \cup InitCalls

\* Every call returns, whoever else calls, starts or loads meanwhile.
ExportsReturn ==
  \A t \in Thread : at[t] = "runtime" ~> at[t] = "game"
=============================================================================
