-------------------------- MODULE DllRuntime_proofs --------------------------
(***************************************************************************)
(* Proofs about DllMain, the exports and the OnceLocks behind them, for    *)
(* any number of threads.                                                  *)
(***************************************************************************)
EXTENDS DllRuntime, TLAPS

Done   == {"instance", "create", "return"}
Called == {"runtime"} \cup InitCalls \cup Done
Place  == {"away", "game"} \cup Attaching \cup Called

TypeOK ==
  /\ loaderLock \in Thread \cup {NoThread}
  /\ selfModule \in BOOLEAN
  /\ loaded \in BOOLEAN
  /\ cell \in [Cell -> {"empty", "running", "full"}]
  /\ at \in [Thread -> Place]
  /\ wants \in [Thread -> Object]
  /\ boxes \in [Object -> Nat]
  /\ instance \in [Object -> Nat]
  /\ got \in [Thread -> Object \X Nat]
  /\ runs \in Nat
  /\ blind \in BOOLEAN

\* The loader runs one DllMain at a time, and the DLL is called only once
\* SELF_MODULE is stored.
LoaderInv ==
  /\ loaded = selfModule
  /\ \A t \in Thread : at[t] \in Attaching => loaderLock = t
  /\ \A t \in Thread : at[t] \in Called => loaded
  /\ NoWaitUnderLoaderLock

\* The thread that claimed RUNTIME_INITIALIZED is alone in initialize, and the
\* others are past the OnceLock only when it is full.
RuntimeInv ==
  /\ ~blind
  /\ runs = IF cell["runtime"] = "empty" THEN 0 ELSE 1
  /\ \A t \in Thread : at[t] \in InitCalls => cell["runtime"] = "running"
  /\ \A t, u \in Thread : at[t] \in InitCalls /\ at[u] \in InitCalls => t = u
  /\ \A t \in Thread :
       at[t] \in Done \/ got[t][2] # 0 => cell["runtime"] = "full"

\* So for each object: one thread at most creates it, and the OnceLock is full
\* exactly when it holds the one that was created.
ObjectInv ==
  /\ \A o \in Object :
       /\ boxes[o] = IF cell[o] = "full" THEN 1 ELSE 0
       /\ instance[o] = boxes[o]
  /\ \A t \in Thread :
       /\ at[t] = "create" => cell[wants[t]] = "running"
       /\ at[t] = "return" => cell[wants[t]] = "full"
       /\ got[t][2] \in {0, 1}
  /\ \A t, u \in Thread :
       at[t] = "create" /\ at[u] = "create" /\ wants[t] = wants[u] => t = u

LibInv == LoaderInv /\ RuntimeInv /\ ObjectInv
-----------------------------------------------------------------------------
(* The steps. *)

\* The calls of a thread that attaches, and what each of them may lead to.
LEMMA InitCallsAre ==
  /\ InitCalls = {"configPath", "duniaHandle", "duniaPath", "logPath"}
  /\ \A c \in InitCalls : After[c] \subseteq InitCalls \cup {"instance"}
  BY DEF InitCalls, After

\* The places a thread can be in are told apart by what it is doing there.
LEMMA PlacesApart ==
  /\ Attaching \cap Called = {}
  /\ Done \cap InitCalls = {}
  /\ "runtime" \notin InitCalls \cup Done
  /\ {"away", "game"} \cap (Attaching \cup Called) = {}
  BY InitCallsAre DEF Attaching, Called, Done

\* Every step of a thread keeps the types.
LEMMA TypePreserved == TypeOK /\ [LibNext]_libVars => TypeOK'
<1> SUFFICES ASSUME TypeOK, [LibNext]_libVars PROVE TypeOK'
  OBVIOUS
<1> USE InitCallsAre DEF TypeOK, Place, Called, Done, Attaching, Go, Lock, Cell,
                         Object
<1>1. ASSUME NEW t \in Thread, LoadLibrary(t) PROVE TypeOK'
  BY <1>1 DEF LoadLibrary
<1>2. ASSUME NEW t \in Thread, StartThread(t) PROVE TypeOK'
  BY <1>2 DEF StartThread
<1>3. ASSUME NEW t \in Thread, NEW o \in Object, Export(t, o) PROVE TypeOK'
  BY <1>3 DEF Export
<1>4. ASSUME NEW t \in Thread, DllMain(t) PROVE TypeOK'
  BY <1>4 DEF DllMain, Attach
<1>5. ASSUME NEW t \in Thread, EnsureRuntimeInitialized(t) PROVE TypeOK'
  BY <1>5 DEF EnsureRuntimeInitialized, GetOrInit, Claim, Pass
<1>6. ASSUME NEW t \in Thread, EnterLoader(t) PROVE TypeOK'
  BY <1>6 DEF EnterLoader
<1>7. ASSUME NEW t \in Thread, LeaveLoader(t) PROVE TypeOK'
  BY <1>7 DEF LeaveLoader, Recorded
<1>8. ASSUME NEW t \in Thread, GetInstance(t) PROVE TypeOK'
  BY <1>8 DEF GetInstance, GetOrInit, Claim, Pass
<1>9. ASSUME NEW t \in Thread, Create(t) PROVE TypeOK'
  BY <1>9 DEF Create
<1>10. ASSUME NEW t \in Thread, ReturnInstance(t) PROVE TypeOK'
  BY <1>10 DEF ReturnInstance
<1>11. CASE UNCHANGED libVars
  BY <1>11 DEF libVars
<1> QED BY <1>1, <1>2, <1>3, <1>4, <1>5, <1>6, <1>7, <1>8, <1>9, <1>10, <1>11
        DEF LibNext, Run

\* The loader's part of the invariant.
LEMMA LoaderPreserved ==
  TypeOK /\ LoaderInv /\ [LibNext]_libVars => LoaderInv'
<1> SUFFICES ASSUME TypeOK, LoaderInv, [LibNext]_libVars PROVE LoaderInv'
  OBVIOUS
<1> USE InitCallsAre, ThreadAssumption DEF TypeOK, LoaderInv,
        NoWaitUnderLoaderLock, Place, Called, Done, Attaching, Go, Lock
<1>1. ASSUME NEW t \in Thread, LoadLibrary(t) PROVE LoaderInv'
  BY <1>1 DEF LoadLibrary
<1>2. ASSUME NEW t \in Thread, StartThread(t) PROVE LoaderInv'
  BY <1>2 DEF StartThread
<1>3. ASSUME NEW t \in Thread, NEW o \in Object, Export(t, o)
      PROVE  LoaderInv'
  BY <1>3 DEF Export
<1>4. ASSUME NEW t \in Thread, DllMain(t) PROVE LoaderInv'
  BY <1>4 DEF DllMain, Attach
<1>5. ASSUME NEW t \in Thread, EnsureRuntimeInitialized(t) PROVE LoaderInv'
  <2>1. \E to \in {"configPath", "instance"} : at' = [at EXCEPT ![t] = to]
    BY <1>5 DEF EnsureRuntimeInitialized, GetOrInit
  <2> QED BY <1>5, <2>1 DEF EnsureRuntimeInitialized
<1>6. ASSUME NEW t \in Thread, EnterLoader(t) PROVE LoaderInv'
  BY <1>6 DEF EnterLoader
<1>7. ASSUME NEW t \in Thread, LeaveLoader(t) PROVE LoaderInv'
  BY <1>7 DEF LeaveLoader
<1>8. ASSUME NEW t \in Thread, GetInstance(t) PROVE LoaderInv'
  BY <1>8 DEF GetInstance, GetOrInit
<1>9. ASSUME NEW t \in Thread, Create(t) PROVE LoaderInv'
  BY <1>9 DEF Create
<1>10. ASSUME NEW t \in Thread, ReturnInstance(t) PROVE LoaderInv'
  BY <1>10 DEF ReturnInstance
<1>11. CASE UNCHANGED libVars
  BY <1>11 DEF libVars
<1> QED BY <1>1, <1>2, <1>3, <1>4, <1>5, <1>6, <1>7, <1>8, <1>9, <1>10, <1>11
        DEF LibNext, Run

\* The one-time initialization's.
LEMMA RuntimePreserved ==
  TypeOK /\ LoaderInv /\ RuntimeInv /\ [LibNext]_libVars => RuntimeInv'
<1> SUFFICES ASSUME TypeOK, LoaderInv, RuntimeInv, [LibNext]_libVars
             PROVE  RuntimeInv'
  OBVIOUS
<1> USE InitCallsAre DEF TypeOK, RuntimeInv, Done, Attaching, Go, Cell, Object
<1>1. ASSUME NEW t \in Thread, LoadLibrary(t) PROVE RuntimeInv'
  BY <1>1 DEF LoadLibrary
<1>2. ASSUME NEW t \in Thread, StartThread(t) PROVE RuntimeInv'
  BY <1>2 DEF StartThread
<1>3. ASSUME NEW t \in Thread, NEW o \in Object, Export(t, o)
      PROVE  RuntimeInv'
  BY <1>3 DEF Export
<1>4. ASSUME NEW t \in Thread, DllMain(t) PROVE RuntimeInv'
  BY <1>4 DEF DllMain, Attach
<1>5. ASSUME NEW t \in Thread, EnsureRuntimeInitialized(t) PROVE RuntimeInv'
  <2>1. selfModule
    BY <1>5 DEF EnsureRuntimeInitialized, LoaderInv, Called
  <2>2. CASE Pass("runtime")
    BY <1>5, <2>2 DEF EnsureRuntimeInitialized, GetOrInit, Claim, Pass
  <2>3. CASE Claim("runtime")
    BY <1>5, <2>1, <2>3 DEF EnsureRuntimeInitialized, GetOrInit, Claim, Pass
  <2> QED BY <1>5, <2>2, <2>3 DEF EnsureRuntimeInitialized, GetOrInit
<1>6. ASSUME NEW t \in Thread, EnterLoader(t) PROVE RuntimeInv'
  BY <1>6 DEF EnterLoader
<1>7. ASSUME NEW t \in Thread, LeaveLoader(t) PROVE RuntimeInv'
  BY <1>7 DEF LeaveLoader, Recorded
<1>8. ASSUME NEW t \in Thread, GetInstance(t) PROVE RuntimeInv'
  BY <1>8 DEF GetInstance, GetOrInit, Claim, Pass
<1>9. ASSUME NEW t \in Thread, Create(t) PROVE RuntimeInv'
  BY <1>9 DEF Create
<1>10. ASSUME NEW t \in Thread, ReturnInstance(t) PROVE RuntimeInv'
  BY <1>10 DEF ReturnInstance
<1>11. CASE UNCHANGED libVars
  BY <1>11 DEF libVars
<1> QED BY <1>1, <1>2, <1>3, <1>4, <1>5, <1>6, <1>7, <1>8, <1>9, <1>10, <1>11
        DEF LibNext, Run

\* The objects'.
LEMMA ObjectPreserved ==
  TypeOK /\ ObjectInv /\ [LibNext]_libVars => ObjectInv'
<1> SUFFICES ASSUME TypeOK, ObjectInv, [LibNext]_libVars PROVE ObjectInv'
  OBVIOUS
<1> USE InitCallsAre DEF TypeOK, ObjectInv, Attaching, Go, Cell, Object
<1>1. ASSUME NEW t \in Thread, LoadLibrary(t) PROVE ObjectInv'
  BY <1>1 DEF LoadLibrary
<1>2. ASSUME NEW t \in Thread, StartThread(t) PROVE ObjectInv'
  BY <1>2 DEF StartThread
<1>3. ASSUME NEW t \in Thread, NEW o \in Object, Export(t, o)
      PROVE  ObjectInv'
  BY <1>3 DEF Export
<1>4. ASSUME NEW t \in Thread, DllMain(t) PROVE ObjectInv'
  BY <1>4 DEF DllMain, Attach
<1>5. ASSUME NEW t \in Thread, EnsureRuntimeInitialized(t) PROVE ObjectInv'
  BY <1>5 DEF EnsureRuntimeInitialized, GetOrInit, Claim
<1>6. ASSUME NEW t \in Thread, EnterLoader(t) PROVE ObjectInv'
  BY <1>6 DEF EnterLoader
<1>7. ASSUME NEW t \in Thread, LeaveLoader(t) PROVE ObjectInv'
  <2>1. PICK next \in InitCalls \cup {"instance"} :
          at' = [at EXCEPT ![t] = next] /\ cell' = Recorded(next)
    BY <1>7 DEF LeaveLoader
  <2>2. \A o \in Object : cell'[o] = cell[o]
    BY <2>1 DEF Recorded
  <2> QED BY <1>7, <2>1, <2>2 DEF LeaveLoader
<1>8. ASSUME NEW t \in Thread, GetInstance(t) PROVE ObjectInv'
  <2>1. CASE Pass(wants[t])
    BY <1>8, <2>1 DEF GetInstance, GetOrInit, Claim, Pass
  <2>2. CASE Claim(wants[t])
    BY <1>8, <2>2 DEF GetInstance, GetOrInit, Claim, Pass
  <2> QED BY <1>8, <2>1, <2>2 DEF GetInstance, GetOrInit
<1>9. ASSUME NEW t \in Thread, Create(t) PROVE ObjectInv'
  BY <1>9 DEF Create
<1>10. ASSUME NEW t \in Thread, ReturnInstance(t) PROVE ObjectInv'
  <2>1. wants[t] \in Object /\ instance[wants[t]] = 1
    BY <1>10 DEF ReturnInstance
  <2> QED BY <1>10, <2>1 DEF ReturnInstance
<1>11. CASE UNCHANGED libVars
  BY <1>11 DEF libVars
<1> QED BY <1>1, <1>2, <1>3, <1>4, <1>5, <1>6, <1>7, <1>8, <1>9, <1>10, <1>11
        DEF LibNext, Run
-----------------------------------------------------------------------------
(* The theorems. *)

\* Nothing is claimed, created or run before the first step.
LEMMA InitiallyTrue == LibInit => TypeOK /\ LibInv
<1> SUFFICES ASSUME LibInit PROVE TypeOK /\ LibInv
  OBVIOUS
<1>1. TypeOK
  <2>1. {"away", "game"} \subseteq Place
    BY DEF Place
  <2>2. "hardware" \in Object
    BY DEF Object
  <2> QED BY <2>1, <2>2 DEF LibInit, TypeOK
<1>2. LoaderInv
  BY PlacesApart DEF LibInit, LoaderInv, NoWaitUnderLoaderLock, Attaching
<1>3. RuntimeInv
  BY PlacesApart, InitCallsAre DEF LibInit, RuntimeInv, Cell, Done
<1>4. ObjectInv
  BY InitCallsAre DEF LibInit, ObjectInv, Cell, Object
<1> QED BY <1>1, <1>2, <1>3, <1>4 DEF LibInv

\* Every variable of DllMain, the exports and the OnceLocks keeps its type,
\* however the threads interleave.
THEOREM TypeCorrect == LibSpec => []TypeOK
  BY InitiallyTrue, TypePreserved, PTL DEF LibSpec

\* The parts of the invariant are inductive together.
LEMMA LibKnown == LibSpec => [](TypeOK /\ LibInv)
<1>1. TypeOK /\ LibInv /\ [LibNext]_libVars => TypeOK' /\ LibInv'
  BY TypePreserved, LoaderPreserved, RuntimePreserved, ObjectPreserved
     DEF LibInv
<1> QED BY <1>1, InitiallyTrue, PTL DEF LibSpec

\* No export hands out an object before patches::initialize has run to its end,
\* once and with the DLL's own handle.
THEOREM PatchedBeforeUseHolds == LibSpec => []PatchedBeforeUse
<1>1. TypeOK /\ LibInv => PatchedBeforeUse
  <2> SUFFICES ASSUME TypeOK, LibInv PROVE PatchedBeforeUse
    OBVIOUS
  <2> QED BY DEF LibInv, RuntimeInv, PatchedBeforeUse, Done
<1> QED BY <1>1, LibKnown, PTL

\* GetHardwareInstance and GetScoreInstance make one object each, and give the
\* same one to every caller.
THEOREM OneInstanceHolds == LibSpec => []OneInstance
<1>1. TypeOK /\ LibInv => OneInstance
  <2> SUFFICES ASSUME TypeOK, LibInv PROVE OneInstance
    OBVIOUS
  <2>1. \A o \in Object : boxes[o] <= 1
    BY DEF LibInv, ObjectInv
  <2>2. ASSUME NEW t \in Thread, NEW u \in Thread, got[t][1] = got[u][1],
               got[t][2] # 0, got[u][2] # 0
        PROVE  got[t] = got[u]
    <3>1. got[t][2] = 1 /\ got[u][2] = 1
      BY <2>2 DEF LibInv, ObjectInv
    <3> QED BY <2>2, <3>1 DEF TypeOK
  <2> QED BY <2>1, <2>2 DEF OneInstance
<1> QED BY <1>1, LibKnown, PTL

\* DllMain does no more under the loader lock than store a handle: whoever holds
\* that lock is in DllMain, or in a call of initialize's that gives it back.
THEOREM NoWaitHolds == LibSpec => []NoWaitUnderLoaderLock
<1>1. LibInv => NoWaitUnderLoaderLock
  BY DEF LibInv, LoaderInv
<1> QED BY <1>1, LibKnown, PTL
-----------------------------------------------------------------------------
(* Whoever waits: what ExportsReturn needs besides fairness.               *)

\* t cannot go on: another thread runs the closure of the OnceLock it has come
\* to, or holds the loader lock it needs.
Waits(t) ==
  \/ at[t] = "runtime" /\ cell["runtime"] = "running"
  \/ at[t] = "instance" /\ cell[wants[t]] = "running"
  \/ at[t] \in InitCalls /\ loaderLock \notin {NoThread, t}

WaitsFor(t, u) ==
  \/ at[t] = "runtime" /\ at[u] \in InitCalls
  \/ at[t] = "instance" /\ at[u] = "create" /\ wants[u] = wants[t]
  \/ at[t] \in InitCalls /\ loaderLock = u

\* Nobody waits in a circle, or for a closure nobody runs: a thread that waits
\* waits for one that goes on, or for one that waits for a DllMain, which waits
\* for nothing.
NoDeadlock ==
  \A t \in Thread : Waits(t) =>
    \E u \in Thread :
      /\ WaitsFor(t, u)
      /\ \/ ~Waits(u)
         \/ \E v \in Thread : WaitsFor(u, v) /\ at[v] \in Attaching /\ ~Waits(v)

\* A OnceLock that is being initialized has a thread that does it.
RunnerInv ==
  /\ cell["runtime"] = "running" => \E t \in Thread : at[t] \in InitCalls
  /\ \A o \in Object :
       cell[o] = "running" =>
         \E t \in Thread : at[t] = "create" /\ wants[t] = o

\* The thread that claimed a OnceLock leaves it only when it is full.
LEMMA RunnerPreserved ==
  TypeOK /\ LoaderInv /\ ObjectInv /\ RunnerInv /\ [LibNext]_libVars
    => RunnerInv'
<1> SUFFICES ASSUME TypeOK, LoaderInv, ObjectInv, RunnerInv, [LibNext]_libVars
             PROVE  RunnerInv'
  OBVIOUS
<1>a. /\ \A t \in Thread : at[t] \in Place /\ wants[t] \in Object
      /\ Object \subseteq Cell /\ "runtime" \in Cell /\ "runtime" \notin Object
  BY DEF TypeOK, Cell, Object

\* A step of a thread that is in no closure and claims none.
<1>1. ASSUME NEW t \in Thread, NEW to, at' = [at EXCEPT ![t] = to],
             at[t] \notin InitCalls \cup {"create"}, cell' = cell,
             \A u \in Thread : u # t => wants'[u] = wants[u]
      PROVE  RunnerInv'
  <2>1. \A u \in Thread : u # t => at'[u] = at[u]
    BY <1>1 DEF TypeOK
  <2>2. ASSUME cell["runtime"] = "running"
        PROVE  \E u \in Thread : at'[u] \in InitCalls
    BY <1>1, <2>1, <2>2 DEF RunnerInv
  <2>3. ASSUME NEW o \in Object, cell[o] = "running"
        PROVE  \E u \in Thread : at'[u] = "create" /\ wants'[u] = o
    BY <1>1, <2>1, <2>3 DEF RunnerInv
  <2> QED BY <1>1, <2>2, <2>3 DEF RunnerInv
<1>2. ASSUME NEW t \in Thread, LoadLibrary(t) PROVE RunnerInv'
  BY <1>1, <1>2, InitCallsAre DEF LoadLibrary, Go
<1>3. ASSUME NEW t \in Thread, StartThread(t) PROVE RunnerInv'
  BY <1>1, <1>3, InitCallsAre DEF StartThread, Go
<1>4. ASSUME NEW t \in Thread, NEW o \in Object, Export(t, o)
      PROVE  RunnerInv'
  <2>1. \A u \in Thread : u # t => wants'[u] = wants[u]
    BY <1>4 DEF Export, TypeOK
  <2> QED BY <1>1, <1>4, <2>1, InitCallsAre DEF Export, Go
<1>5. ASSUME NEW t \in Thread, DllMain(t) PROVE RunnerInv'
  BY <1>1, <1>5, InitCallsAre DEF DllMain, Attach, Go, Attaching
<1>6. ASSUME NEW t \in Thread, ReturnInstance(t) PROVE RunnerInv'
  BY <1>1, <1>6, InitCallsAre DEF ReturnInstance, Go
<1>7. ASSUME NEW t \in Thread, EnsureRuntimeInitialized(t) PROVE RunnerInv'
  <2>1. at[t] = "runtime" /\ wants' = wants
    BY <1>7 DEF EnsureRuntimeInitialized
  <2>2. CASE Pass("runtime") /\ at' = [at EXCEPT ![t] = "instance"]
             /\ cell' = cell
    BY <1>1, <2>1, <2>2, InitCallsAre
  <2>3. CASE Claim("runtime") /\ at' = [at EXCEPT ![t] = "configPath"]
    <3>1. at'[t] \in InitCalls /\ \A u \in Thread : u # t => at'[u] = at[u]
      BY <2>3, InitCallsAre DEF TypeOK
    <3>2. \A o \in Object : cell'[o] = cell[o]
      BY <1>a, <2>3 DEF Claim, TypeOK
    <3> QED BY <2>1, <3>1, <3>2 DEF RunnerInv
  <2> QED BY <1>7, <2>2, <2>3 DEF EnsureRuntimeInitialized, GetOrInit
<1>8. ASSUME NEW t \in Thread, EnterLoader(t) PROVE RunnerInv'
  BY <1>8 DEF EnterLoader, RunnerInv
<1>9. ASSUME NEW t \in Thread, LeaveLoader(t) PROVE RunnerInv'
  <2>1. PICK next \in InitCalls \cup {"instance"} :
          at' = [at EXCEPT ![t] = next] /\ cell' = Recorded(next)
    BY <1>9, InitCallsAre DEF LeaveLoader
  <2>2. at[t] \in InitCalls /\ at'[t] = next /\ wants' = wants
        /\ \A u \in Thread : u # t => at'[u] = at[u]
    BY <1>9, <2>1 DEF LeaveLoader, TypeOK
  <2>3. \A o \in Object : cell'[o] = cell[o]
    BY <1>a, <2>1 DEF Recorded, TypeOK
  <2>4. cell'["runtime"] = "running" => next \in InitCalls
    BY <1>a, <2>1 DEF Recorded, TypeOK
  <2>5. \A o \in Object : cell[o] = "running" =>
          \E u \in Thread : at'[u] = "create" /\ wants'[u] = o
    BY <2>2, InitCallsAre DEF RunnerInv
  <2> QED BY <2>2, <2>3, <2>4, <2>5 DEF RunnerInv
<1>10. ASSUME NEW t \in Thread, GetInstance(t) PROVE RunnerInv'
  <2>1. at[t] = "instance" /\ wants' = wants
    BY <1>10 DEF GetInstance
  <2>2. CASE Pass(wants[t]) /\ at' = [at EXCEPT ![t] = "return"]
             /\ cell' = cell
    BY <1>1, <2>1, <2>2, InitCallsAre
  <2>3. CASE Claim(wants[t]) /\ at' = [at EXCEPT ![t] = "create"]
    <3>1. at'[t] = "create" /\ \A u \in Thread : u # t => at'[u] = at[u]
      BY <2>3 DEF TypeOK
    <3>2. \A c \in Cell : c # wants[t] => cell'[c] = cell[c]
      BY <1>a, <2>3 DEF Claim, TypeOK
    <3>3. cell'["runtime"] = "running" =>
            \E u \in Thread : at'[u] \in InitCalls
      BY <1>a, <2>1, <3>1, <3>2, InitCallsAre DEF RunnerInv
    <3>4. ASSUME NEW o \in Object, cell'[o] = "running"
          PROVE  \E u \in Thread : at'[u] = "create" /\ wants'[u] = o
      BY <1>a, <2>1, <3>1, <3>2, <3>4 DEF RunnerInv
    <3> QED BY <3>3, <3>4 DEF RunnerInv
  <2> QED BY <1>10, <2>2, <2>3 DEF GetInstance, GetOrInit
<1>11. ASSUME NEW t \in Thread, Create(t) PROVE RunnerInv'
  <2>1. /\ at[t] = "create" /\ wants' = wants
        /\ \A u \in Thread : u # t => at'[u] = at[u]
        /\ cell' = [cell EXCEPT ![wants[t]] = "full"]
    BY <1>11 DEF Create, Go, TypeOK
  <2>2. cell'[wants[t]] = "full" /\ \A c \in Cell : c # wants[t] =>
                                                       cell'[c] = cell[c]
    BY <1>a, <2>1 DEF TypeOK
  <2>3. cell'["runtime"] = "running" =>
          \E u \in Thread : at'[u] \in InitCalls
    BY <1>a, <2>1, <2>2, InitCallsAre DEF RunnerInv
  <2>4. ASSUME NEW o \in Object, cell'[o] = "running"
        PROVE  \E u \in Thread : at'[u] = "create" /\ wants'[u] = o
    BY <1>a, <2>1, <2>2, <2>4 DEF RunnerInv
  <2> QED BY <2>3, <2>4 DEF RunnerInv
<1>12. CASE UNCHANGED libVars
  BY <1>12 DEF libVars, RunnerInv
<1> QED BY <1>2, <1>3, <1>4, <1>5, <1>6, <1>7, <1>8, <1>9, <1>10, <1>11, <1>12
        DEF LibNext, Run

\* A OnceLock that is being initialized always has a thread that does it.
LEMMA RunnerKnown == LibSpec => [](TypeOK /\ LibInv /\ RunnerInv)
<1>1. LibInit => RunnerInv
  BY DEF LibInit, RunnerInv, Cell, Object
<1>2. TypeOK /\ LibInv /\ RunnerInv /\ [LibNext]_libVars
        => TypeOK' /\ LibInv' /\ RunnerInv'
  BY TypePreserved, LoaderPreserved, RuntimePreserved, ObjectPreserved,
     RunnerPreserved DEF LibInv
<1> QED BY <1>1, <1>2, InitiallyTrue, PTL DEF LibSpec

\* A thread of initialize that waits, waits for a DllMain, and DllMain waits for
\* nothing: that is what keeping initialize out of DllMain is for.
LEMMA WaitsForDllMain ==
  ASSUME TypeOK, LibInv, NEW t \in Thread, at[t] \in InitCalls, Waits(t)
  PROVE  \E u \in Thread : WaitsFor(t, u) /\ at[u] \in Attaching /\ ~Waits(u)
<1>1. loaderLock \in Thread /\ loaderLock # t
  BY PlacesApart DEF Waits, Done, TypeOK
<1>2. at[loaderLock] \in Attaching \cup InitCalls
  BY <1>1, ThreadAssumption DEF LibInv, LoaderInv, NoWaitUnderLoaderLock
<1>3. at[loaderLock] \notin InitCalls
  BY <1>1 DEF LibInv, RuntimeInv
<1>4. ~Waits(loaderLock)
  BY <1>2, <1>3, PlacesApart DEF Waits, Called, Done
<1> QED BY <1>1, <1>2, <1>3, <1>4 DEF WaitsFor

\* However many threads start, load and call, the OnceLocks and the loader lock
\* never leave them waiting for one another: the deadlock lib.rs:36 keeps the
\* initialization outside DllMain for cannot happen.
THEOREM NoDeadlockHolds == LibSpec => []NoDeadlock
<1>1. TypeOK /\ LibInv /\ RunnerInv => NoDeadlock
  <2> SUFFICES ASSUME TypeOK, LibInv, RunnerInv, NEW t \in Thread, Waits(t)
               PROVE  \E u \in Thread :
                        /\ WaitsFor(t, u)
                        /\ \/ ~Waits(u)
                           \/ \E v \in Thread :
                                WaitsFor(u, v) /\ at[v] \in Attaching
                                /\ ~Waits(v)
    BY DEF NoDeadlock
  <2>1. CASE at[t] = "runtime"
    <3>1. PICK u \in Thread : at[u] \in InitCalls
      BY <2>1, PlacesApart DEF Waits, RunnerInv
    <3>2. WaitsFor(t, u)
      BY <2>1, <3>1 DEF WaitsFor
    <3> QED BY <3>1, <3>2, WaitsForDllMain
  <2>2. CASE at[t] = "instance"
    <3>1. cell[wants[t]] = "running" /\ wants[t] \in Object
      BY <2>2, PlacesApart DEF Waits, Done, TypeOK
    <3>2. PICK u \in Thread : at[u] = "create" /\ wants[u] = wants[t]
      BY <3>1 DEF RunnerInv
    <3>3. WaitsFor(t, u) /\ ~Waits(u)
      BY <2>2, <3>2, PlacesApart DEF WaitsFor, Waits, Done
    <3> QED BY <3>3
  <2>3. CASE at[t] \in InitCalls
    BY <2>3, WaitsForDllMain
  <2> QED BY <2>1, <2>2, <2>3 DEF Waits
<1> QED BY <1>1, RunnerKnown, PTL
-----------------------------------------------------------------------------
(* How far a call has got: the provable half of ExportsReturn.             *)

\* The steps left of a call from each place, when every call of initialize's
\* has entered the loader lock and only has to leave it.
StepsFrom ==
  [runtime |-> 12, configPath |-> 10, duniaHandle |-> 8, duniaPath |-> 6,
   logPath |-> 4, instance |-> 3, create |-> 2, return |-> 1,
   processAttach |-> 1, threadAttach |-> 1, game |-> 0, away |-> 0]

\* The step into the loader lock.
Enters(t) == IF at[t] \in InitCalls /\ loaderLock # t THEN 1 ELSE 0

Left(t) == StepsFrom[at[t]] + Enters(t)

Idle(t) == at[t] \in {"game", "away"}

\* A step of a thread's own brings the end of its call nearer, and no step of
\* another's takes it away again: no call goes round in circles.
CallAdvances ==
  \A t \in Thread :
    /\ Left(t) \in Nat
    /\ Run(t) => Left(t)' < Left(t)
    /\ ~Idle(t) => Left(t)' <= Left(t)

\* The loader lock changes hands only by a step of the thread that holds it.
LEMMA OthersKeepLeft ==
  ASSUME TypeOK, LoaderInv, NEW t \in Thread, NEW u \in Thread, u # t,
         \A v \in Thread : v # u => at'[v] = at[v],
         loaderLock' = loaderLock \/ loaderLock = NoThread \/ loaderLock = u,
         loaderLock' \in {loaderLock, NoThread, u}
  PROVE  Left(t)' = Left(t)
<1>1. at'[t] = at[t]
  OBVIOUS
<1>2. Enters(t)' = Enters(t)
  BY <1>1, ThreadAssumption DEF Enters, TypeOK
<1> QED BY <1>1, <1>2 DEF Left

\* What is left is a number, before a step and after it.
LEMMA LeftInNat ==
  ASSUME TypeOK, TypeOK', NEW t \in Thread
  PROVE  Left(t) \in Nat /\ Left(t)' \in Nat
<1>1. \A p \in Place : StepsFrom[p] \in Nat
  BY InitCallsAre DEF Place, Called, Done, Attaching, StepsFrom
<1>2. at[t] \in Place /\ at'[t] \in Place
  BY DEF TypeOK
<1>3. Enters(t) \in Nat /\ Enters(t)' \in Nat
  BY DEF Enters
<1> QED BY <1>1, <1>2, <1>3 DEF Left

\* Every step of t's own leaves less of its call.
LEMMA OwnStepAdvances ==
  ASSUME TypeOK, LoaderInv, NEW t \in Thread, Run(t)
  PROVE  Left(t)' < Left(t)
<1>a. t # NoThread
  BY ThreadAssumption
<1>b. Enters(t) \in 0 .. 1 /\ Enters(t)' \in 0 .. 1
  BY DEF Enters
<1>c. t \in DOMAIN at
  BY DEF TypeOK
<1>1. CASE DllMain(t)
  <2>1. at[t] \in Attaching /\ at'[t] = "game"
    BY <1>c, <1>1 DEF DllMain, Attach, Go
  <2>2. Enters(t)' = 0
    BY <2>1, PlacesApart DEF Enters, Called
  <2>3. StepsFrom[at[t]] = 1 /\ StepsFrom["game"] = 0
    BY <2>1 DEF StepsFrom, Attaching
  <2> QED BY <1>b, <2>1, <2>2, <2>3 DEF Left
<1>2. CASE EnsureRuntimeInitialized(t)
  <2>1. at[t] = "runtime" /\ at'[t] \in {"configPath", "instance"}
    BY <1>c, <1>2 DEF EnsureRuntimeInitialized, GetOrInit
  <2>2. StepsFrom[at[t]] = 12 /\ StepsFrom[at'[t]] \in {3, 10}
    BY <2>1 DEF StepsFrom
  <2> QED BY <1>b, <2>2 DEF Left
<1>3. CASE EnterLoader(t)
  <2>1. at' = at /\ at[t] \in InitCalls
    BY <1>3 DEF EnterLoader
  <2>2. Enters(t) = 1 /\ Enters(t)' = 0
    BY <1>a, <1>3, <2>1 DEF EnterLoader, Lock, Enters
  <2>3. StepsFrom[at[t]] \in Nat
    BY <2>1, InitCallsAre DEF StepsFrom
  <2> QED BY <2>1, <2>2, <2>3 DEF Left
<1>4. CASE LeaveLoader(t)
  <2>1. at[t] \in InitCalls /\ at'[t] \in After[at[t]]
    BY <1>c, <1>4 DEF LeaveLoader
  <2>2. /\ StepsFrom[at[t]] \in Nat /\ StepsFrom[at'[t]] \in Nat
        /\ StepsFrom[at'[t]] < StepsFrom[at[t]]
        /\ at'[t] \in InitCalls => StepsFrom[at'[t]] + 1 < StepsFrom[at[t]]
    BY <2>1, InitCallsAre DEF StepsFrom, After
  <2>3. at'[t] \notin InitCalls => Enters(t)' = 0
    BY DEF Enters
  <2> QED BY <1>b, <2>2, <2>3 DEF Left
<1>5. CASE GetInstance(t)
  <2>1. at[t] = "instance" /\ at'[t] \in {"create", "return"}
    BY <1>c, <1>5 DEF GetInstance, GetOrInit
  <2>2. StepsFrom[at[t]] = 3 /\ StepsFrom[at'[t]] \in {1, 2}
    BY <2>1 DEF StepsFrom
  <2>3. Enters(t)' = 0
    BY <2>1, InitCallsAre DEF Enters
  <2> QED BY <1>b, <2>2, <2>3 DEF Left
<1>6. CASE Create(t)
  <2>1. at[t] = "create" /\ at'[t] = "return"
    BY <1>c, <1>6 DEF Create, Go
  <2>2. StepsFrom[at[t]] = 2 /\ StepsFrom[at'[t]] = 1
    BY <2>1 DEF StepsFrom
  <2>3. Enters(t)' = 0
    BY <2>1, InitCallsAre DEF Enters
  <2> QED BY <1>b, <2>2, <2>3 DEF Left
<1>7. CASE ReturnInstance(t)
  <2>1. at[t] = "return" /\ at'[t] = "game"
    BY <1>c, <1>7 DEF ReturnInstance, Go
  <2>2. StepsFrom[at[t]] = 1 /\ StepsFrom[at'[t]] = 0
    BY <2>1 DEF StepsFrom
  <2>3. Enters(t)' = 0
    BY <2>1, InitCallsAre DEF Enters
  <2> QED BY <1>b, <2>2, <2>3 DEF Left
<1> QED BY <1>1, <1>2, <1>3, <1>4, <1>5, <1>6, <1>7 DEF Run

\* A step of the library is one thread's: the others stay where they are, and
\* the loader lock is taken when it is free and given back by its holder.
LEMMA OneThreadSteps ==
  TypeOK /\ LoaderInv /\ LibNext =>
    \E u \in Thread :
      /\ Run(u) \/ Idle(u)
      /\ \A v \in Thread : v # u => at'[v] = at[v]
      /\ loaderLock' = loaderLock \/ loaderLock = NoThread \/ loaderLock = u
      /\ loaderLock' \in {loaderLock, NoThread, u}
<1> SUFFICES ASSUME TypeOK, LoaderInv, NEW u \in Thread,
                    \/ LoadLibrary(u)
                    \/ StartThread(u)
                    \/ \E o \in Object : Export(u, o)
                    \/ Run(u)
             PROVE  /\ Run(u) \/ Idle(u)
                    /\ \A v \in Thread : v # u => at'[v] = at[v]
                    /\ \/ loaderLock' = loaderLock
                       \/ loaderLock = NoThread
                       \/ loaderLock = u
                    /\ loaderLock' \in {loaderLock, NoThread, u}
  BY DEF LibNext
<1> USE DEF TypeOK, Go
<1>1. CASE LoadLibrary(u)
  BY <1>1 DEF LoadLibrary, Lock, Idle
<1>2. CASE StartThread(u)
  BY <1>2 DEF StartThread, Lock, Idle
<1>3. ASSUME NEW o \in Object, Export(u, o)
      PROVE  /\ Run(u) \/ Idle(u)
             /\ \A v \in Thread : v # u => at'[v] = at[v]
             /\ loaderLock' = loaderLock
  BY <1>3 DEF Export, Idle
<1>4. CASE DllMain(u)
  BY <1>4 DEF Run, DllMain, Attach, LoaderInv
<1>5. CASE EnsureRuntimeInitialized(u)
  BY <1>5 DEF Run, EnsureRuntimeInitialized, GetOrInit
<1>6. CASE EnterLoader(u)
  BY <1>6 DEF Run, EnterLoader, Lock
<1>7. CASE LeaveLoader(u)
  BY <1>7 DEF Run, LeaveLoader
<1>8. CASE GetInstance(u)
  BY <1>8 DEF Run, GetInstance, GetOrInit
<1>9. CASE Create(u)
  BY <1>9 DEF Run, Create
<1>10. CASE ReturnInstance(u)
  BY <1>10 DEF Run, ReturnInstance
<1> QED BY <1>1, <1>2, <1>3, <1>4, <1>5, <1>6, <1>7, <1>8, <1>9, <1>10 DEF Run

\* Every call comes nearer its end with each step of its own thread, whatever
\* the others do: with fair scheduling, and nobody waiting in a circle, it
\* returns.
THEOREM CallsAdvance == LibSpec => [][CallAdvances]_libVars
<1>1. TypeOK /\ LibInv /\ [LibNext]_libVars => [CallAdvances]_libVars
  <2> SUFFICES ASSUME TypeOK, LoaderInv, LibNext, NEW t \in Thread
               PROVE  /\ Left(t) \in Nat
                      /\ Run(t) => Left(t)' < Left(t)
                      /\ ~Idle(t) => Left(t)' <= Left(t)
    BY DEF CallAdvances, LibInv
  <2>1. Left(t) \in Nat /\ Left(t)' \in Nat
    BY LeftInNat, TypePreserved
  <2>2. Run(t) => Left(t)' < Left(t)
    BY OwnStepAdvances
  <2>3. PICK u \in Thread :
          /\ Run(u) \/ Idle(u)
          /\ \A v \in Thread : v # u => at'[v] = at[v]
          /\ loaderLock' = loaderLock \/ loaderLock = NoThread \/ loaderLock = u
          /\ loaderLock' \in {loaderLock, NoThread, u}
    BY OneThreadSteps
  <2>4. CASE u = t
    BY <2>1, <2>2, <2>3, <2>4
  <2>5. CASE u # t
    <3>1. Left(t)' = Left(t)
      BY <2>3, <2>5, OthersKeepLeft
    <3> QED BY <2>1, <2>2, <3>1
  <2> QED BY <2>1, <2>2, <2>4, <2>5
<1> QED BY <1>1, LibKnown, PTL DEF LibSpec
=============================================================================
