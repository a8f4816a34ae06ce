----------------------------- MODULE GearObjects -----------------------------
(***************************************************************************)
(* The objects of src/gear that the game's threads share: the GearHardware *)
(* that creates its GearCPU and GearGraphics when they are first asked     *)
(* for, and the GearScore that computes a score when it is first asked     *)
(* for.  Neither takes a lock (hardware.rs:69-70, score.rs:34-35), so the  *)
(* threads' loads and stores interleave.                                   *)
(*                                                                         *)
(* The destructors are for the game to call, on any of the objects, with   *)
(* the flag that frees it or without, also more than once, and while a     *)
(* OnceLock still owns the object.  What C++ callers do not do either is   *)
(* left out: a call on freed memory, and a destructor beside other calls   *)
(* on its object.  The two objects share nothing, so a behaviour is about  *)
(* the calls on one of them.                                               *)
(***************************************************************************)
EXTENDS Naturals, FiniteSets

CONSTANTS Thread, MaxDestructions   \* bound: of the hardware object

ASSUME ThreadAssumption == IsFiniteSet(Thread) /\ Thread # {}
ASSUME DestructionsAssumption == MaxDestructions \in Nat

Single == {"hardware", "scores"}     \* what the OnceLocks of lib.rs own
Part   == {"cpu", "graphics"}
Score  == {"cpuScore", "gpuScore"}

\* Objects are counted by kind; a OnceLock has the first and only one.
The(single) == <<single, 1>>
IsPart(x) == x[1] \in Part

VARIABLES
  about,           \* the object whose calls the behaviour is about
  member,          \* m_cpu and m_graphics: 0 is null, n the n-th one created
  live,            \* the objects on the heap
  made,            \* how many of each part have been created
  doubleFree,      \* an object was freed that was not on the heap
  score,           \* scores: "uncomputed" is the sentinel
  at,              \* where each thread is
  arg,             \* the part or score its call is about
  known,           \* the part it has loaded or boxed itself
  returned,        \* what its last call returned, and of which kind
  \* History, read by the properties only:
  overlapped,      \* two calls of one getter have been in progress
  destructions,    \* how often the hardware object's destructor was called
  deleted          \* objects the game has freed by their own destructors

heapVars    == <<member, live, made, doubleFree>>
destroyVars == <<destructions, deleted>>
gearVars    == <<about, heapVars, score, at, arg, known, returned, overlapped,
                 destroyVars>>

Getting == {"check", "new", "store", "load"}
Scoring == {"checkScore", "computeScore", "loadScore"}

\* A call on the object: it is on the heap.
On(object) == about = object /\ The(object) \in live

Go(t, from, to) ==
  /\ at[t] = from
  /\ at' = [at EXCEPT ![t] = to]

Return(t, x) == returned' = [returned EXCEPT ![t] = x]
-----------------------------------------------------------------------------
(* The exports, once their OnceLocks are full, and the getters. *)

Export(t) ==
  /\ at[t] = "game"
  /\ Return(t, The(about))
  /\ UNCHANGED <<heapVars, score, at, arg, known, overlapped, destroyVars>>

\* get_cpu or get_graphics is called.
Get(t, p) ==
  /\ On("hardware")
  /\ Go(t, "game", "check")
  /\ arg' = [arg EXCEPT ![t] = p]
  /\ overlapped' = (overlapped \/
       \E u \in Thread \ {t} : at[u] \in Getting /\ arg[u] = p)
  /\ UNCHANGED <<heapVars, score, known, returned, destroyVars>>

\* (Fault) A part is created by every call.
NeverThere(p) == p \in Part

IsNull(p) == member[p] = 0

CheckNull(t) ==
  /\ Go(t, "check", IF IsNull(arg[t]) THEN "new" ELSE "load")
  /\ known' = [known EXCEPT ![t] = member[arg[t]]]
  /\ UNCHANGED <<heapVars, score, arg, returned, overlapped, destroyVars>>

\* GearCPU::new or GearGraphics::new, boxed.
New(t) ==
  LET p == arg[t] IN
    /\ Go(t, "new", "store")
    /\ made' = [made EXCEPT ![p] = @ + 1]
    /\ known' = [known EXCEPT ![t] = made'[p]]
    /\ live' = live \cup {<<p, made'[p]>>}
    /\ UNCHANGED <<member, doubleFree, score, arg, returned, overlapped,
                   destroyVars>>

\* (Fault) The member owns its part, and frees it when it is assigned another.
Replaced(p) == {<<p, member[p]>>}

Dropped(p) == {}     \* a pointer owns nothing

StoreMember(t) ==
  /\ Go(t, "store", "load")
  /\ member' = [member EXCEPT ![arg[t]] = known[t]]
  /\ live' = live \ Dropped(arg[t])
  /\ UNCHANGED <<made, doubleFree, score, arg, known, returned, overlapped,
                 destroyVars>>

\* The member is returned as it is by now, or as this thread loaded or stored
\* it: the compiler need not load it again.
LoadMember(t) ==
  /\ Go(t, "load", "game")
  /\ \E n \in {member[arg[t]], known[t]} \ {0} : Return(t, <<arg[t], n>>)
  /\ known' = [known EXCEPT ![t] = 0]
  /\ arg' = [arg EXCEPT ![t] = "none"]
  /\ UNCHANGED <<heapVars, score, overlapped, destroyVars>>
-----------------------------------------------------------------------------
(* The destructors; "delete" is bit 0 of flags. *)

Free(objects) ==
  /\ live' = live \ objects
  /\ doubleFree' = (doubleFree \/ ~(objects \subseteq live))

Idle(calls) == \A t \in Thread : at[t] \notin calls

\* (Fault) The graphics object is not freed.
CpuOnly == {<<"cpu", member["cpu"]>>} \ {<<"cpu", 0>>}

Members == {<<p, member[p]>> : p \in {q \in Part : ~IsNull(q)}}

\* GearHardware::destructor frees the parts the members point to, and leaves the
\* members as they are.
DestroyHardware(t, delete) ==
  /\ at[t] = "game" /\ Idle(Getting)
  /\ On("hardware")
  /\ destructions < MaxDestructions
  /\ LET itself == IF delete THEN {The("hardware")} ELSE {} IN
       /\ Free(Members \cup itself)
       /\ deleted' = deleted \cup itself
  /\ destructions' = destructions + 1
  /\ UNCHANGED <<member, made, score, at, arg, known, returned, overlapped>>

\* The others' destructors do nothing without the flag: GearScore's, and those
\* of a part the game has been given.
Delete(t, x) ==
  /\ at[t] = "game"
  /\ x \in live
  /\ x = The("scores") => Idle(Scoring)
  /\ Free({x})
  /\ deleted' = deleted \cup {x}
  /\ UNCHANGED <<member, made, score, at, arg, known, returned, overlapped,
                 destructions>>
-----------------------------------------------------------------------------
\* get_score is called with a valid type; for any other it returns 0.0 at once.
GetScore(t, s) ==
  /\ On("scores")
  /\ Go(t, "game", "checkScore")
  /\ arg' = [arg EXCEPT ![t] = s]
  /\ UNCHANGED <<heapVars, score, known, returned, overlapped, destroyVars>>

CheckScore(t) ==
  /\ Go(t, "checkScore", IF score[arg[t]] = "uncomputed" THEN "computeScore"
                                                         ELSE "loadScore")
  /\ UNCHANGED <<heapVars, score, arg, known, returned, overlapped,
                 destroyVars>>

\* (Fault) The score is always stored in the first place.
FirstComputed(s) == [score EXCEPT !["cpuScore"] = "0.8"]

\* compute_score; the confidence it stores is the one new stored already.
Computed(s) == [score EXCEPT ![s] = "0.8"]

ComputeScore(t) ==
  /\ Go(t, "computeScore", "loadScore")
  /\ score' = Computed(arg[t])
  /\ UNCHANGED <<heapVars, arg, known, returned, overlapped, destroyVars>>

\* The game may call compute_score itself.
CallComputeScore(t, s) ==
  /\ On("scores")
  /\ at[t] = "game"
  /\ score' = Computed(s)
  /\ UNCHANGED <<heapVars, at, arg, known, returned, overlapped, destroyVars>>

LoadScore(t) ==
  /\ Go(t, "loadScore", "game")
  /\ Return(t, <<arg[t], score[arg[t]]>>)
  /\ arg' = [arg EXCEPT ![t] = "none"]
  /\ UNCHANGED <<heapVars, score, known, overlapped, destroyVars>>

GearInit ==
  /\ about \in Single
  /\ member = [p \in Part |-> 0]
  /\ live = {The(o) : o \in Single}
  /\ made = [p \in Part |-> 0]
  /\ doubleFree = FALSE
  /\ score = [s \in Score |-> "uncomputed"]
  /\ at = [t \in Thread |-> "game"]
  /\ arg = [t \in Thread |-> "none"]
  /\ known = [t \in Thread |-> 0]
  /\ returned = [t \in Thread |-> <<"none", 0>>]
  /\ overlapped = FALSE
  /\ destructions = 0
  /\ deleted = {}

GearStep(t) ==
  \/ Export(t)
  \/ \E p \in Part : Get(t, p)
  \/ CheckNull(t) \/ New(t) \/ StoreMember(t) \/ LoadMember(t)
  \/ \E delete \in BOOLEAN : DestroyHardware(t, delete)
  \/ \E u \in Thread : returned[u] \in live \ {The("hardware")}
                         /\ Delete(t, returned[u])
  \/ \E s \in Score : GetScore(t, s) \/ CallComputeScore(t, s)
  \/ CheckScore(t) \/ ComputeScore(t) \/ LoadScore(t)

GearNext == (\E t \in Thread : GearStep(t)) /\ UNCHANGED about

GearSpec == GearInit /\ [][GearNext]_gearVars
-----------------------------------------------------------------------------
(* Properties. *)

\* Whoever asks for an object gets one that exists, and it exists until the game
\* frees it by its destructor, or calls the hardware object's in case of a part,
\* whatever other threads ask meanwhile.
ReturnedLives ==
  \A t \in Thread :
    returned[t][1] \in Single \cup Part =>
      \/ returned[t] \in live \cup deleted
      \/ IsPart(returned[t]) /\ destructions # 0

\* As long as the getter is not called by two threads at once there is one part
\* of each kind, and everyone is given that one.
OnePart ==
  ~overlapped =>
    /\ \A p \in Part : made[p] <= 1
    /\ \A t, u \in Thread :
         IsPart(returned[t]) /\ returned[t][1] = returned[u][1]
           => returned[t] = returned[u]

\* Nothing is freed twice, unless the game calls the hardware object's
\* destructor twice or frees a part itself.  When the hardware object is gone,
\* no part is left, except that threads that raced each other in a getter leave
\* parts behind, but no more than one each, and at least one of them is freed.
PartsFreed ==
  LET left(p) == {x \in live : x[1] = p} IN
    /\ doubleFree => destructions > 1 \/ \E x \in deleted : IsPart(x)
    /\ The("hardware") \notin live =>
         \A p \in Part : /\ ~overlapped => left(p) = {}
                         /\ Cardinality(left(p)) < Cardinality(Thread)

\* No caller ever sees the sentinel, not even one that finds the score being
\* computed by another thread.
NoSentinel ==
  \A t \in Thread : returned[t][1] \in Score => returned[t][2] = "0.8"
=============================================================================
