-------------------------- MODULE GearObjects_proofs --------------------------
(***************************************************************************)
(* Proofs about the objects of src/gear: those the game's threads share,   *)
(* for any finite set of threads and any number of destructions; and the   *)
(* processors GearCPU::new counts, for words of any width.                 *)
(***************************************************************************)
EXTENDS GearObjects, CpuTopology, FiniteSetTheorems, TLAPS

Object == (Single \cup Part) \X Nat

TypeOK ==
  /\ about \in Single
  /\ member \in [Part -> Nat]
  /\ live \subseteq Object
  /\ made \in [Part -> Nat]
  /\ doubleFree \in BOOLEAN
  /\ score \in [Score -> {"uncomputed", "0.8"}]
  /\ at \in [Thread -> {"game"} \cup Getting \cup Scoring]
  /\ arg \in [Thread -> Part \cup Score \cup {"none"}]
  /\ known \in [Thread -> Nat]
  /\ returned \in [Thread -> Object \cup (Score \X {"uncomputed", "0.8"})
                                    \cup {<<"none", 0>>}]
  /\ overlapped \in BOOLEAN
  /\ destructions \in Nat
  /\ deleted \subseteq Object

\* A call of a getter is about a part, and what it has loaded or boxed by the
\* time it returns is one that was created; a call of get_score is about a
\* score, which is there once it is loaded.
CallInv ==
  \A t \in Thread :
    /\ at[t] \in Getting => arg[t] \in Part
    /\ at[t] \in {"store", "load"} => known[t] \in 1..made[arg[t]]
    /\ at[t] = "load" => member[arg[t]] # 0
    /\ at[t] \in Scoring => arg[t] \in Score
    /\ at[t] = "loadScore" => score[arg[t]] = "0.8"

\* The heap holds what was created and not freed since: the game's own deletions
\* and the hardware object's destructor are the only ones that free.
HeapInv ==
  /\ \A x \in live : IF IsPart(x) THEN x[2] \in 1..made[x[1]]
                                  ELSE x = The(x[1])
  /\ \A o \in Single : The(o) \in live \cup deleted
  /\ \A p \in Part :
       /\ member[p] <= made[p]
       /\ destructions = 0 =>
            \A n \in 1..made[p] : <<p, n>> \in live \cup deleted
  /\ doubleFree => destructions > 1 \/ \E x \in deleted : IsPart(x)

\* What was returned is an object of its kind that was created, or a score.
ReturnInv ==
  \A t \in Thread :
    /\ IsPart(returned[t]) => returned[t][2] \in 1..made[returned[t][1]]
    /\ returned[t][1] \in Single => returned[t] = The(returned[t][1])
    /\ returned[t][1] \in Score => returned[t][2] = "0.8"

Boxing(p) == {t \in Thread : at[t] = "new" /\ arg[t] = p}
Storing(p) == {t \in Thread : at[t] = "store" /\ arg[t] = p}

\* Only threads that found the member null create a part, so each creates one;
\* one that is not overtaken creates the only one.
RaceInv ==
  \A p \in Part :
    /\ IF member[p] = 0
         THEN made[p] = Cardinality(Storing(p))
         ELSE made[p] + Cardinality(Boxing(p)) <= Cardinality(Thread)
    /\ ~overlapped =>
         /\ \A t, u \in Thread :
              /\ at[t] \in Getting /\ at[u] \in Getting
              /\ arg[t] = p /\ arg[u] = p
              => t = u
         /\ member[p] # 0 => Boxing(p) = {} /\ Storing(p) = {}
         /\ made[p] <= 1

\* Once the hardware object is freed its members are, and nobody is in a getter.
GoneInv ==
  The("hardware") \notin live =>
    /\ Idle(Getting)
    /\ \A p \in Part : <<p, member[p]>> \notin live

GearInv == CallInv /\ HeapInv /\ ReturnInv /\ RaceInv /\ GoneInv
-----------------------------------------------------------------------------
(* The steps. *)

\* Every step is one of the calls of one thread.
LEMMA Steps ==
  ASSUME [GearNext]_gearVars
  PROVE  \/ \E t \in Thread :
              \/ Export(t) \/ CheckNull(t) \/ New(t) \/ StoreMember(t)
              \/ LoadMember(t) \/ CheckScore(t) \/ ComputeScore(t)
              \/ LoadScore(t)
              \/ \E p \in Part : Get(t, p)
              \/ \E delete \in BOOLEAN : DestroyHardware(t, delete)
              \/ \E x \in live \ {The("hardware")} : Delete(t, x)
              \/ \E s \in Score : GetScore(t, s) \/ CallComputeScore(t, s)
         \/ UNCHANGED gearVars
  BY DEF GearNext, GearStep

\* Every call keeps the types.
LEMMA TypePreserved == TypeOK /\ CallInv /\ [GearNext]_gearVars => TypeOK'
<1> SUFFICES ASSUME TypeOK, CallInv, [GearNext]_gearVars PROVE TypeOK'
  OBVIOUS
<1> USE DEF TypeOK, CallInv, Go, Return, heapVars, destroyVars, Getting, Scoring
<1>0. about' = about
  BY DEF GearNext, gearVars
<1>1. ASSUME NEW t \in Thread, Export(t) PROVE TypeOK'
  <2>1. The(about) \in Object
    BY DEF The, Object
  <2> QED BY <1>0, <1>1, <2>1 DEF Export
<1>2. ASSUME NEW t \in Thread, NEW p \in Part, Get(t, p) PROVE TypeOK'
  <2>1. overlapped' \in BOOLEAN
    BY <1>2 DEF Get
  <2> QED BY <1>0, <1>2, <2>1 DEF Get
<1>3. ASSUME NEW t \in Thread, CheckNull(t) PROVE TypeOK'
  BY <1>0, <1>3 DEF CheckNull
<1>4. ASSUME NEW t \in Thread, New(t) PROVE TypeOK'
  <2>1. <<arg[t], made'[arg[t]]>> \in Object
    BY <1>4 DEF New, Object
  <2> QED BY <1>0, <1>4, <2>1 DEF New
<1>5. ASSUME NEW t \in Thread, StoreMember(t) PROVE TypeOK'
  BY <1>0, <1>5 DEF StoreMember, Dropped
<1>6. ASSUME NEW t \in Thread, LoadMember(t) PROVE TypeOK'
  <2>1. \A n \in {member[arg[t]], known[t]} \ {0} : <<arg[t], n>> \in Object
    BY <1>6 DEF LoadMember, Object
  <2> QED BY <1>0, <1>6, <2>1 DEF LoadMember
<1>7. ASSUME NEW t \in Thread, NEW delete \in BOOLEAN,
             DestroyHardware(t, delete)
      PROVE  TypeOK'
  <2>1. The("hardware") \in Object
    BY DEF The, Object, Single
  <2> QED BY <1>0, <1>7, <2>1 DEF DestroyHardware, Free
<1>8. ASSUME NEW t \in Thread, NEW x \in live, Delete(t, x) PROVE TypeOK'
  BY <1>0, <1>8 DEF Delete, Free
<1>9. ASSUME NEW t \in Thread, NEW s \in Score,
             GetScore(t, s) \/ CallComputeScore(t, s)
      PROVE  TypeOK'
  BY <1>0, <1>9 DEF GetScore, CallComputeScore, Computed
<1>10. ASSUME NEW t \in Thread, CheckScore(t) \/ ComputeScore(t)
       PROVE  TypeOK'
  BY <1>0, <1>10 DEF CheckScore, ComputeScore, Computed
<1>11. ASSUME NEW t \in Thread, LoadScore(t) PROVE TypeOK'
  <2>1. <<arg[t], score[arg[t]]>> \in Score \X {"uncomputed", "0.8"}
    BY <1>11 DEF LoadScore
  <2> QED BY <1>0, <1>11, <2>1 DEF LoadScore
<1>12. CASE UNCHANGED gearVars
  BY <1>12 DEF gearVars
<1> QED BY <1>1, <1>2, <1>3, <1>4, <1>5, <1>6, <1>7, <1>8, <1>9, <1>10, <1>11,
           <1>12, Steps

\* The calls that touch no member and create nothing.
Others(t) ==
  \/ Export(t) \/ CheckScore(t) \/ ComputeScore(t) \/ LoadScore(t)
  \/ \E delete \in BOOLEAN : DestroyHardware(t, delete)
  \/ \E x \in live \ {The("hardware")} : Delete(t, x)
  \/ \E s \in Score : GetScore(t, s) \/ CallComputeScore(t, s)

\* What was loaded or boxed stays created, and what was computed stays so.
LEMMA CallPreserved ==
  TypeOK /\ CallInv /\ HeapInv /\ [GearNext]_gearVars => CallInv'
<1> SUFFICES ASSUME TypeOK, CallInv, HeapInv, [GearNext]_gearVars
             PROVE  CallInv'
  OBVIOUS
<1> USE DEF TypeOK, CallInv, Go, heapVars, Getting, Scoring
<1>1. ASSUME NEW t \in Thread, NEW p \in Part, Get(t, p) PROVE CallInv'
  BY <1>1 DEF Get
<1>2. ASSUME NEW t \in Thread, CheckNull(t) PROVE CallInv'
  <2>1. arg[t] \in Part /\ UNCHANGED <<heapVars, score, arg>>
        /\ known' = [known EXCEPT ![t] = member[arg[t]]]
    BY <1>2 DEF CheckNull
  <2>2. CASE IsNull(arg[t])
    BY <1>2, <2>1, <2>2 DEF CheckNull
  <2>3. CASE ~IsNull(arg[t])
    <3>1. member[arg[t]] \in 1..made[arg[t]]
      BY <2>1, <2>3 DEF HeapInv, IsNull
    <3>2. at' = [at EXCEPT ![t] = "load"]
      BY <1>2, <2>3 DEF CheckNull
    <3> QED BY <2>1, <2>3, <3>1, <3>2 DEF IsNull
  <2> QED BY <2>2, <2>3
<1>3. ASSUME NEW t \in Thread, New(t) PROVE CallInv'
  <2>1. \A p \in Part : made[p] <= made'[p] /\ made'[p] \in Nat
    BY <1>3 DEF New
  <2>2. known' = [known EXCEPT ![t] = made'[arg[t]]] /\ made'[arg[t]] >= 1
    BY <1>3 DEF New
  <2> QED BY <1>3, <2>1, <2>2 DEF New
<1>4. ASSUME NEW t \in Thread, StoreMember(t) PROVE CallInv'
  <2>1. known[t] # 0
    BY <1>4 DEF StoreMember
  <2> QED BY <1>4, <2>1 DEF StoreMember
<1>5. ASSUME NEW t \in Thread, LoadMember(t) PROVE CallInv'
  BY <1>5 DEF LoadMember
<1>6. ASSUME NEW t \in Thread, Others(t) PROVE CallInv'
  <2>1. \A s \in Score : score[s] = "0.8" => score'[s] = "0.8"
    BY <1>6 DEF Others, Export, CheckScore, ComputeScore, LoadScore,
       DestroyHardware, Delete, GetScore, CallComputeScore, Computed
  <2>2. UNCHANGED <<member, made, known>>
    BY <1>6 DEF Others, Export, CheckScore, ComputeScore, LoadScore,
       DestroyHardware, Delete, GetScore, CallComputeScore
  <2>3. CASE Export(t) \/ (\E delete \in BOOLEAN : DestroyHardware(t, delete))
             \/ (\E x \in live \ {The("hardware")} : Delete(t, x))
    BY <2>2, <2>3 DEF Export, DestroyHardware, Delete
  <2>4. CASE CheckScore(t) \/ LoadScore(t)
    BY <2>2, <2>4 DEF CheckScore, LoadScore
  <2>5. CASE ComputeScore(t)
    BY <2>1, <2>2, <2>5 DEF ComputeScore, Computed
  <2>6. ASSUME NEW s \in Score, GetScore(t, s) \/ CallComputeScore(t, s)
        PROVE  CallInv'
    BY <2>1, <2>2, <2>6 DEF GetScore, CallComputeScore
  <2> QED BY <1>6, <2>3, <2>4, <2>5, <2>6 DEF Others
<1>7. CASE UNCHANGED gearVars
  BY <1>7 DEF gearVars
<1> QED BY <1>1, <1>2, <1>3, <1>4, <1>5, <1>6, <1>7, Steps DEF Others

\* The heap.
LEMMA HeapPreserved ==
  TypeOK /\ CallInv /\ HeapInv /\ [GearNext]_gearVars => HeapInv'
<1> SUFFICES ASSUME TypeOK, CallInv, HeapInv, [GearNext]_gearVars
             PROVE  HeapInv'
  OBVIOUS
<1> USE DEF TypeOK, HeapInv, Go, heapVars, destroyVars, Getting
<1>1. ASSUME NEW t \in Thread, NEW p \in Part, Get(t, p) PROVE HeapInv'
  BY <1>1 DEF Get
<1>2. ASSUME NEW t \in Thread, CheckNull(t) \/ LoadMember(t) PROVE HeapInv'
  BY <1>2 DEF CheckNull, LoadMember
<1>3. ASSUME NEW t \in Thread, New(t) PROVE HeapInv'
  <2> DEFINE q == arg[t]
  <2>1. q \in Part
    BY <1>3 DEF New, CallInv
  <2>2. /\ made' = [made EXCEPT ![q] = made[q] + 1]
        /\ live' = live \cup {<<q, made[q] + 1>>}
        /\ UNCHANGED <<member, doubleFree, destructions, deleted>>
    BY <1>3, <2>1 DEF New
  <2>3. \A p \in Part : made'[p] = IF p = q THEN made[p] + 1 ELSE made[p]
    BY <2>1, <2>2
  <2>4. \A x \in live' : IF IsPart(x) THEN x[2] \in 1..made'[x[1]]
                                     ELSE x = The(x[1])
    BY <2>1, <2>2, <2>3 DEF IsPart
  <2>5. \A p \in Part :
          /\ member[p] <= made'[p]
          /\ destructions = 0 =>
               \A n \in 1..made'[p] : <<p, n>> \in live' \cup deleted
    BY <2>1, <2>2, <2>3
  <2> QED BY <2>2, <2>4, <2>5
<1>4. ASSUME NEW t \in Thread, StoreMember(t) PROVE HeapInv'
  <2>1. arg[t] \in Part /\ known[t] \in 1..made[arg[t]]
    BY <1>4 DEF StoreMember, CallInv
  <2>2. \A p \in Part : member'[p] <= made[p]
    BY <1>4, <2>1 DEF StoreMember
  <2> QED BY <1>4, <2>2 DEF StoreMember, Dropped
<1>5. ASSUME NEW t \in Thread, NEW delete \in BOOLEAN,
             DestroyHardware(t, delete)
      PROVE  HeapInv'
  <2> DEFINE itself == IF delete THEN {The("hardware")} ELSE {}
  <2>1. /\ live' = live \ (Members \cup itself)
        /\ doubleFree' = (doubleFree \/ ~((Members \cup itself) \subseteq live))
        /\ deleted' = deleted \cup itself
        /\ destructions' = destructions + 1
        /\ UNCHANGED <<member, made>>
        /\ The("hardware") \in live
    BY <1>5 DEF DestroyHardware, Free, On
  <2>2. \A o \in Single : The(o) \notin Members
    BY DEF The, Members, Single, Part
  <2>3. The("scores") \notin itself
    BY DEF The
  <2>4. \A o \in Single : The(o) \in live' \cup deleted'
    BY <2>1, <2>2, <2>3 DEF Single
  <2>5. doubleFree' => destructions' > 1 \/ \E x \in deleted' : IsPart(x)
    <3>1. CASE destructions = 0 /\ ~\E x \in deleted : IsPart(x)
      <4>1. Members \subseteq live
        <5>1. \A p \in Part : ~IsNull(p) => /\ member[p] \in 1..made[p]
                                            /\ IsPart(<<p, member[p]>>)
          BY DEF IsNull, IsPart
        <5> QED BY <3>1, <5>1 DEF Members
      <4>2. itself \subseteq live
        BY <2>1
      <4> QED BY <2>1, <3>1, <4>1, <4>2
    <3>2. CASE destructions # 0 \/ \E x \in deleted : IsPart(x)
      BY <2>1, <3>2
    <3> QED BY <3>1, <3>2
  <2> QED BY <2>1, <2>4, <2>5
<1>6. ASSUME NEW t \in Thread, NEW x \in live, Delete(t, x) PROVE HeapInv'
  BY <1>6 DEF Delete, Free
<1>7. ASSUME NEW t \in Thread,
             Export(t) \/ CheckScore(t) \/ ComputeScore(t) \/ LoadScore(t)
               \/ \E s \in Score : GetScore(t, s) \/ CallComputeScore(t, s)
      PROVE  HeapInv'
  <2>1. UNCHANGED <<heapVars, destroyVars>>
    BY <1>7 DEF Export, CheckScore, ComputeScore, LoadScore, GetScore,
       CallComputeScore
  <2> QED BY <2>1
<1>8. CASE UNCHANGED gearVars
  BY <1>8 DEF gearVars
<1> QED BY <1>1, <1>2, <1>3, <1>4, <1>5, <1>6, <1>7, <1>8, Steps

\* What was returned stays an object that was created, or a computed score.
LEMMA ReturnPreserved ==
  TypeOK /\ CallInv /\ HeapInv /\ ReturnInv /\ [GearNext]_gearVars
    => ReturnInv'
<1> SUFFICES ASSUME TypeOK, CallInv, HeapInv, ReturnInv, [GearNext]_gearVars
             PROVE  ReturnInv'
  OBVIOUS
<1> USE DEF TypeOK, ReturnInv, Go, Return, heapVars, IsPart
<1>1. ASSUME NEW t \in Thread, Export(t) PROVE ReturnInv'
  <2>1. returned' = [returned EXCEPT ![t] = <<about, 1>>] /\ made' = made
    BY <1>1 DEF Export, The
  <2>2. about \notin Part /\ about \notin Score
    BY DEF Single, Part, Score
  <2> QED BY <2>1, <2>2 DEF The
<1>2. ASSUME NEW t \in Thread, New(t) PROVE ReturnInv'
  <2>1. \A p \in Part : made[p] <= made'[p] /\ made'[p] \in Nat
    BY <1>2 DEF New
  <2> QED BY <1>2, <2>1 DEF New
<1>3. ASSUME NEW t \in Thread, LoadMember(t) PROVE ReturnInv'
  <2>1. arg[t] \in Part /\ known[t] \in 1..made[arg[t]]
    BY <1>3 DEF LoadMember, CallInv, Getting
  <2>2. PICK n \in {member[arg[t]], known[t]} \ {0} :
               returned' = [returned EXCEPT ![t] = <<arg[t], n>>]
    BY <1>3 DEF LoadMember
  <2>3. n \in 1..made[arg[t]] /\ made' = made
    BY <1>3, <2>1, <2>2 DEF LoadMember, HeapInv
  <2>4. arg[t] \notin Single /\ arg[t] \notin Score
    BY <2>1 DEF Single, Part, Score
  <2> QED BY <2>1, <2>2, <2>3, <2>4
<1>4. ASSUME NEW t \in Thread, LoadScore(t) PROVE ReturnInv'
  <2>1. arg[t] \in Score /\ score[arg[t]] = "0.8"
    BY <1>4 DEF LoadScore, CallInv, Scoring
  <2>2. returned' = [returned EXCEPT ![t] = <<arg[t], "0.8">>] /\ made' = made
    BY <1>4, <2>1 DEF LoadScore
  <2>3. arg[t] \notin Single /\ arg[t] \notin Part
    BY <2>1 DEF Single, Part, Score
  <2> QED BY <2>1, <2>2, <2>3
<1>5. ASSUME NEW t \in Thread,
             \/ CheckNull(t) \/ StoreMember(t) \/ CheckScore(t)
             \/ ComputeScore(t)
             \/ \E p \in Part : Get(t, p)
             \/ \E delete \in BOOLEAN : DestroyHardware(t, delete)
             \/ \E x \in live \ {The("hardware")} : Delete(t, x)
             \/ \E s \in Score : GetScore(t, s) \/ CallComputeScore(t, s)
      PROVE  ReturnInv'
  <2>1. UNCHANGED <<made, returned>>
    BY <1>5 DEF CheckNull, StoreMember, CheckScore, ComputeScore, Get,
       DestroyHardware, Delete, GetScore, CallComputeScore
  <2> QED BY <2>1
<1>6. CASE UNCHANGED gearVars
  BY <1>6 DEF gearVars
<1> QED BY <1>1, <1>2, <1>3, <1>4, <1>5, <1>6, Steps

\* The threads that box or store a part are different ones.
LEMMA Racers ==
  ASSUME NEW p
  PROVE  /\ IsFiniteSet(Boxing(p)) /\ IsFiniteSet(Storing(p))
         /\ Cardinality(Boxing(p)) \in Nat /\ Cardinality(Storing(p)) \in Nat
         /\ Cardinality(Thread) \in Nat
         /\ Cardinality(Boxing(p)) + Cardinality(Storing(p))
              <= Cardinality(Thread)
<1>1. Boxing(p) \subseteq Thread /\ Storing(p) \subseteq Thread
  BY DEF Boxing, Storing
<1>2. Boxing(p) \cap Storing(p) = {}
  BY DEF Boxing, Storing
<1>3. IsFiniteSet(Boxing(p)) /\ IsFiniteSet(Storing(p)) /\ IsFiniteSet(Thread)
  BY <1>1, ThreadAssumption, FS_Subset
<1>4. Cardinality(Boxing(p) \cup Storing(p))
        = Cardinality(Boxing(p)) + Cardinality(Storing(p)) - Cardinality({})
  BY <1>2, <1>3, FS_Union
<1>5. Boxing(p) \cup Storing(p) \subseteq Thread
  BY <1>1
<1>6. Cardinality(Boxing(p) \cup Storing(p)) <= Cardinality(Thread)
  BY <1>5, ThreadAssumption, FS_Subset
<1>7. Cardinality({}) = 0
  BY FS_EmptySet
<1>8. /\ Cardinality(Boxing(p)) \in Nat /\ Cardinality(Storing(p)) \in Nat
      /\ Cardinality(Thread) \in Nat
  BY <1>3, FS_CardinalityType
<1> QED BY <1>3, <1>4, <1>6, <1>7, <1>8

\* The race for the members.
LEMMA RacePreserved ==
  TypeOK /\ CallInv /\ RaceInv /\ [GearNext]_gearVars => RaceInv'
<1> SUFFICES ASSUME TypeOK, CallInv, RaceInv, [GearNext]_gearVars
             PROVE  RaceInv'
  OBVIOUS
<1> USE DEF TypeOK, Go, heapVars
<1>1. ASSUME UNCHANGED <<member, made, overlapped>>,
             \A p \in Part : Boxing(p)' = Boxing(p) /\ Storing(p)' = Storing(p),
             \A u \in Thread : at'[u] \in Getting =>
                                 at[u] \in Getting /\ arg'[u] = arg[u]
      PROVE  RaceInv'
  BY <1>1 DEF RaceInv
<1>2. ASSUME NEW t \in Thread, NEW q \in Part, Get(t, q) PROVE RaceInv'
  <2>1. /\ at' = [at EXCEPT ![t] = "check"] /\ at[t] = "game"
        /\ arg' = [arg EXCEPT ![t] = q]
        /\ UNCHANGED <<member, made>>
    BY <1>2 DEF Get
  <2>2. \A p \in Part : Boxing(p)' = Boxing(p) /\ Storing(p)' = Storing(p)
    BY <2>1 DEF Boxing, Storing
  <2>3. ~overlapped' =>
          /\ ~overlapped
          /\ ~\E u \in Thread \ {t} : at[u] \in Getting /\ arg[u] = q
    BY <1>2 DEF Get
  <2>4. ~overlapped' => \A p \in Part, u, v \in Thread :
          /\ at'[u] \in Getting /\ at'[v] \in Getting
          /\ arg'[u] = p /\ arg'[v] = p
          => u = v
    BY <2>1, <2>3 DEF RaceInv
  <2> QED BY <2>1, <2>2, <2>3, <2>4 DEF RaceInv
<1>3. ASSUME NEW t \in Thread, CheckNull(t) PROVE RaceInv'
  <2>1. /\ at[t] = "check" /\ arg[t] \in Part
        /\ at' = [at EXCEPT ![t] = IF member[arg[t]] = 0 THEN "new" ELSE "load"]
        /\ UNCHANGED <<member, made, arg, overlapped>>
    BY <1>3 DEF CheckNull, CallInv, Getting, IsNull
  <2>2. \A p \in Part :
          /\ Storing(p)' = Storing(p)
          /\ member[p] # 0 => Boxing(p)' = Boxing(p)
    BY <2>1 DEF Boxing, Storing
  <2>3. \A u \in Thread : at'[u] \in Getting => at[u] \in Getting
    BY <2>1 DEF Getting
  <2> QED BY <2>1, <2>2, <2>3 DEF RaceInv
<1>4. ASSUME NEW t \in Thread, New(t) PROVE RaceInv'
  <2> DEFINE q == arg[t]
  <2>1. /\ at[t] = "new" /\ q \in Part
        /\ at' = [at EXCEPT ![t] = "store"]
        /\ made' = [made EXCEPT ![q] = made[q] + 1]
        /\ UNCHANGED <<member, arg, overlapped>>
    BY <1>4 DEF New, CallInv, Getting
  <2>2. \A u \in Thread : at'[u] \in Getting <=> at[u] \in Getting
    BY <2>1 DEF Getting
  <2>3. \A p \in Part \ {q} : /\ Boxing(p)' = Boxing(p)
                              /\ Storing(p)' = Storing(p)
                              /\ made'[p] = made[p]
    BY <2>1 DEF Boxing, Storing
  <2>4. /\ Boxing(q)' = Boxing(q) \ {t} /\ t \in Boxing(q)
        /\ Storing(q)' = Storing(q) \cup {t} /\ t \notin Storing(q)
    BY <2>1 DEF Boxing, Storing
  <2>5. /\ Cardinality(Boxing(q)') = Cardinality(Boxing(q)) - 1
        /\ Cardinality(Storing(q)') = Cardinality(Storing(q)) + 1
    <3>1. IsFiniteSet(Boxing(q)) /\ IsFiniteSet(Storing(q))
      BY Racers
    <3>2. Cardinality(Boxing(q) \ {t}) = Cardinality(Boxing(q)) - 1
      BY <3>1, <2>4, FS_RemoveElement
    <3>3. Cardinality(Storing(q) \cup {t}) = Cardinality(Storing(q)) + 1
      BY <3>1, <2>4, FS_AddElement
    <3> QED BY <3>2, <3>3, <2>4
  <2>6. Cardinality(Boxing(q)) \in Nat /\ Cardinality(Storing(q)) \in Nat
        /\ Cardinality(Thread) \in Nat
    BY Racers
  <2>7. made'[q] = made[q] + 1
    BY <2>1
  <2>8. IF member[q] = 0
          THEN made'[q] = Cardinality(Storing(q)')
          ELSE made'[q] + Cardinality(Boxing(q)') <= Cardinality(Thread)
    BY <2>1, <2>5, <2>6, <2>7 DEF RaceInv
  <2>9. ~overlapped => member[q] = 0 /\ made'[q] = 1
    <3> SUFFICES ASSUME ~overlapped PROVE member[q] = 0 /\ made'[q] = 1
      OBVIOUS
    <3>1. member[q] = 0
      BY <2>1, <2>4 DEF RaceInv
    <3>2. Storing(q) = {}
      BY <2>1 DEF RaceInv, Storing, Getting
    <3>3. made[q] = 0
      BY <2>1, <3>1, <3>2, FS_EmptySet DEF RaceInv
    <3> QED BY <3>1, <3>3, <2>7
  <2>10. \A p \in Part :
           IF member'[p] = 0
             THEN made'[p] = Cardinality(Storing(p)')
             ELSE made'[p] + Cardinality(Boxing(p)') <= Cardinality(Thread)
    BY <2>1, <2>3, <2>8 DEF RaceInv
  <2>11. ASSUME ~overlapped', NEW p \in Part
         PROVE  /\ \A u, v \in Thread :
                     /\ at'[u] \in Getting /\ at'[v] \in Getting
                     /\ arg'[u] = p /\ arg'[v] = p
                     => u = v
                /\ member'[p] # 0 => Boxing(p)' = {} /\ Storing(p)' = {}
                /\ made'[p] <= 1
    <3>1. \A u, v \in Thread :
            /\ at'[u] \in Getting /\ at'[v] \in Getting
            /\ arg'[u] = p /\ arg'[v] = p
            => u = v
      BY <2>1, <2>2, <2>11 DEF RaceInv
    <3>2. CASE p = q
      BY <2>1, <2>9, <2>11, <3>1, <3>2
    <3>3. CASE p # q
      BY <2>1, <2>3, <2>11, <3>1, <3>3 DEF RaceInv
    <3> QED BY <3>2, <3>3
  <2> QED BY <2>10, <2>11 DEF RaceInv
<1>5. ASSUME NEW t \in Thread, StoreMember(t) PROVE RaceInv'
  <2> DEFINE q == arg[t]
  <2>1. /\ at[t] = "store" /\ q \in Part /\ known[t] # 0
        /\ at' = [at EXCEPT ![t] = "load"]
        /\ member' = [member EXCEPT ![q] = known[t]]
        /\ UNCHANGED <<made, arg, overlapped>>
    BY <1>5 DEF StoreMember, CallInv, Getting
  <2>2. \A u \in Thread : at'[u] \in Getting <=> at[u] \in Getting
    BY <2>1 DEF Getting
  <2>3. \A p \in Part \ {q} : /\ Storing(p)' = Storing(p)
                              /\ member'[p] = member[p]
    BY <2>1 DEF Storing
  <2>4. \A p \in Part : Boxing(p)' = Boxing(p)
    BY <2>1 DEF Boxing
  <2>5. Storing(q)' \subseteq Storing(q) /\ t \notin Storing(q)'
        /\ t \in Storing(q)
    BY <2>1 DEF Storing
  <2>6. member'[q] # 0
    BY <2>1
  <2>7. made[q] + Cardinality(Boxing(q)) <= Cardinality(Thread)
    BY <2>1, Racers DEF RaceInv
  <2>8. \A p \in Part :
          IF member'[p] = 0
            THEN made'[p] = Cardinality(Storing(p)')
            ELSE made'[p] + Cardinality(Boxing(p)') <= Cardinality(Thread)
    BY <2>1, <2>3, <2>4, <2>6, <2>7 DEF RaceInv
  <2>9. ASSUME ~overlapped', NEW p \in Part
        PROVE  /\ \A u, v \in Thread :
                    /\ at'[u] \in Getting /\ at'[v] \in Getting
                    /\ arg'[u] = p /\ arg'[v] = p
                    => u = v
               /\ member'[p] # 0 => Boxing(p)' = {} /\ Storing(p)' = {}
               /\ made'[p] <= 1
    <3>1. \A u, v \in Thread :
            /\ at'[u] \in Getting /\ at'[v] \in Getting
            /\ arg'[u] = p /\ arg'[v] = p
            => u = v
      BY <2>1, <2>2, <2>9 DEF RaceInv
    <3>2. made'[p] <= 1
      BY <2>1, <2>9 DEF RaceInv
    <3>3. CASE p = q
      <4>1. \A u \in Thread : at[u] \in Getting /\ arg[u] = q => u = t
        BY <2>1, <2>9 DEF RaceInv, Getting
      <4>2. Boxing(q) = {}
        BY <2>1, <4>1 DEF Boxing, Getting
      <4>3. Storing(q)' = {}
        <5>1. \A u \in Storing(q) : u = t
          BY <4>1 DEF Storing, Getting
        <5> QED BY <5>1, <2>5
      <4>4. Boxing(p)' = {}
        BY <2>4, <3>3, <4>2
      <4>5. Storing(p)' = {}
        BY <2>1, <3>3, <4>3 DEF Storing
      <4> QED BY <3>1, <3>2, <4>4, <4>5
    <3>4. CASE p # q
      BY <2>1, <2>3, <2>4, <2>9, <3>1, <3>2, <3>4 DEF RaceInv
    <3> QED BY <3>3, <3>4
  <2> QED BY <2>8, <2>9 DEF RaceInv
<1>6. ASSUME NEW t \in Thread, LoadMember(t) \/ Others(t) PROVE RaceInv'
  <2>1. /\ UNCHANGED <<member, made, overlapped>>
        /\ \A u \in Thread \ {t} : at'[u] = at[u] /\ arg'[u] = arg[u]
    BY <1>6 DEF LoadMember, Others, Export, CheckScore, ComputeScore, LoadScore,
       DestroyHardware, Delete, GetScore, CallComputeScore
  <2>2. at'[t] \notin Getting /\ at[t] \notin {"new", "store"}
    BY <1>6 DEF LoadMember, Others, Export, CheckScore, ComputeScore, LoadScore,
       DestroyHardware, Delete, GetScore, CallComputeScore, Getting
  <2>3. \A p \in Part : Boxing(p)' = Boxing(p) /\ Storing(p)' = Storing(p)
    BY <2>1, <2>2 DEF Boxing, Storing, Getting
  <2> QED BY <1>1, <2>1, <2>2, <2>3
<1>7. CASE UNCHANGED gearVars
  <2>1. UNCHANGED <<member, made, at, arg, overlapped>>
    BY <1>7 DEF gearVars
  <2>2. \A p \in Part : Boxing(p)' = Boxing(p) /\ Storing(p)' = Storing(p)
    BY <2>1 DEF Boxing, Storing
  <2> QED BY <1>1, <2>1, <2>2
<1> QED BY <1>2, <1>3, <1>4, <1>5, <1>6, <1>7, Steps DEF Others

\* Once the hardware object is gone nobody enters a getter, so no member is
\* stored and no part created.
LEMMA GonePreserved ==
  TypeOK /\ HeapInv /\ GoneInv /\ [GearNext]_gearVars => GoneInv'
<1> SUFFICES ASSUME TypeOK, HeapInv, GoneInv, [GearNext]_gearVars,
                    The("hardware") \notin live'
             PROVE  /\ \A u \in Thread : at'[u] \notin Getting
                    /\ \A p \in Part : <<p, member'[p]>> \notin live'
  BY DEF GoneInv, Idle, The
<1> USE DEF TypeOK, Go, heapVars
<1>1. ASSUME NEW t \in Thread, NEW p \in Part, Get(t, p)
      PROVE  FALSE
  BY <1>1 DEF Get, On
<1>2. ASSUME NEW t \in Thread,
             CheckNull(t) \/ New(t) \/ StoreMember(t) \/ LoadMember(t)
      PROVE  FALSE
  <2>1. at[t] \in Getting
    BY <1>2 DEF CheckNull, New, StoreMember, LoadMember, Getting
  <2>2. The("hardware") \notin live
    BY <1>2 DEF CheckNull, New, StoreMember, LoadMember, Dropped
  <2> QED BY <2>1, <2>2 DEF GoneInv, Idle
<1>3. ASSUME NEW t \in Thread, NEW delete \in BOOLEAN,
             DestroyHardware(t, delete)
      PROVE  /\ \A u \in Thread : at'[u] \notin Getting
             /\ \A p \in Part : <<p, member'[p]>> \notin live'
  <2>1. UNCHANGED <<at, member>> /\ Idle(Getting) /\ live' \subseteq live
        /\ Members \cap live' = {}
    BY <1>3 DEF DestroyHardware, Free
  <2>2. \A p \in Part : <<p, member[p]>> \notin live'
    <3> SUFFICES ASSUME NEW p \in Part, <<p, member[p]>> \in live' PROVE FALSE
      OBVIOUS
    <3>1. CASE IsNull(p)
      <4>1. <<p, 0>> \in live
        BY <2>1, <3>1 DEF IsNull
      <4> QED BY <4>1 DEF HeapInv, IsPart
    <3>2. CASE ~IsNull(p)
      BY <2>1, <3>2 DEF Members
    <3> QED BY <3>1, <3>2
  <2> QED BY <2>1, <2>2 DEF Idle
<1>4. ASSUME NEW t \in Thread, NEW x \in live \ {The("hardware")},
             Delete(t, x)
      PROVE  /\ \A u \in Thread : at'[u] \notin Getting
             /\ \A p \in Part : <<p, member'[p]>> \notin live'
  <2>1. UNCHANGED <<at, member>> /\ live' = live \ {x}
    BY <1>4 DEF Delete, Free
  <2> QED BY <2>1, <1>4 DEF GoneInv, Idle
<1>5. ASSUME NEW t \in Thread,
             Export(t) \/ CheckScore(t) \/ ComputeScore(t) \/ LoadScore(t)
               \/ \E s \in Score : GetScore(t, s) \/ CallComputeScore(t, s)
      PROVE  /\ \A u \in Thread : at'[u] \notin Getting
             /\ \A p \in Part : <<p, member'[p]>> \notin live'
  <2>1. UNCHANGED <<live, member>>
    BY <1>5 DEF Export, CheckScore, ComputeScore, LoadScore, GetScore,
       CallComputeScore
  <2>2. \A u \in Thread : at'[u] \in Getting => at[u] \in Getting
    BY <1>5 DEF Export, CheckScore, ComputeScore, LoadScore, GetScore,
       CallComputeScore, Getting
  <2> QED BY <2>1, <2>2 DEF GoneInv, Idle
<1>6. CASE UNCHANGED gearVars
  BY <1>6 DEF gearVars, GoneInv, Idle
<1> QED BY <1>1, <1>2, <1>3, <1>4, <1>5, <1>6, Steps

\* Everything holds of the objects as they are constructed.
LEMMA InitiallyTrue == GearInit => TypeOK /\ GearInv
<1> SUFFICES ASSUME GearInit PROVE TypeOK /\ GearInv
  OBVIOUS
<1> USE DEF GearInit
<1>1. TypeOK
  <2>1. live \subseteq Object
    BY DEF Object, The
  <2>2. deleted \subseteq Object
    OBVIOUS
  <2> QED BY <2>1, <2>2 DEF TypeOK
<1>2. CallInv
  BY DEF CallInv, Getting, Scoring
<1>3. HeapInv
  BY DEF HeapInv, IsPart, The, Single, Part
<1>4. ReturnInv
  BY DEF ReturnInv, IsPart, Part, Single, Score
<1>5. RaceInv
  <2>1. \A p \in Part : Boxing(p) = {} /\ Storing(p) = {}
    BY DEF Boxing, Storing
  <2>2. \A p \in Part : Cardinality(Storing(p)) = 0
    BY <2>1, FS_EmptySet
  <2>3. \A p \in Part : member[p] = 0 /\ made[p] = 0
    OBVIOUS
  <2>4. \A t \in Thread : at[t] \notin Getting
    BY DEF Getting
  <2> QED BY <2>1, <2>2, <2>3, <2>4 DEF RaceInv
<1>6. GoneInv
  BY DEF GoneInv, Single
<1> QED BY <1>1, <1>2, <1>3, <1>4, <1>5, <1>6 DEF GearInv

\* The invariant holds of every behaviour.
LEMMA GearCorrect == GearSpec => [](TypeOK /\ GearInv)
<1>1. TypeOK /\ GearInv /\ [GearNext]_gearVars => (TypeOK /\ GearInv)'
  BY TypePreserved, CallPreserved, HeapPreserved, ReturnPreserved,
     RacePreserved, GonePreserved DEF GearInv
<1> QED BY InitiallyTrue, <1>1, PTL DEF GearSpec
-----------------------------------------------------------------------------
(* What the invariant means for the callers. *)

\* Whatever the threads call in whatever order, the fields keep their types: a
\* member is null or the number of a part.
THEOREM TypeCorrect == GearSpec => []TypeOK
BY GearCorrect, PTL

\* What a getter or an export of hardware.rs or lib.rs returned exists until the
\* game destroys it, whatever other threads ask meanwhile.
THEOREM ReturnedLivesHolds == GearSpec => []ReturnedLives
<1>1. ASSUME TypeOK, GearInv PROVE ReturnedLives
  <2> SUFFICES ASSUME NEW t \in Thread, returned[t][1] \in Single \cup Part
               PROVE  \/ returned[t] \in live \cup deleted
                      \/ IsPart(returned[t]) /\ destructions # 0
    BY DEF ReturnedLives
  <2>1. CASE returned[t][1] \in Single
    BY <1>1, <2>1 DEF GearInv, ReturnInv, HeapInv
  <2>2. CASE returned[t][1] \in Part /\ destructions = 0
    <3>1. returned[t] \in Object
      BY <1>1, <2>2 DEF TypeOK, Part, Score
    <3>2. returned[t] = <<returned[t][1], returned[t][2]>>
      BY <3>1 DEF Object
    <3>3. returned[t][2] \in 1..made[returned[t][1]]
      BY <1>1, <2>2 DEF GearInv, ReturnInv, IsPart
    <3> QED BY <1>1, <2>2, <3>2, <3>3 DEF GearInv, HeapInv
  <2> QED BY <1>1, <2>1, <2>2 DEF IsPart, TypeOK
<1> QED BY <1>1, GearCorrect, PTL

\* As long as the calls of a getter do not overlap, it hands out one part.
THEOREM OnePartHolds == GearSpec => []OnePart
<1>1. ASSUME TypeOK, GearInv PROVE OnePart
  <2> SUFFICES ASSUME ~overlapped PROVE OnePart
    BY DEF OnePart
  <2>1. \A p \in Part : made[p] <= 1
    BY <1>1 DEF GearInv, RaceInv
  <2>2. ASSUME NEW t \in Thread, NEW u \in Thread,
               IsPart(returned[t]), returned[t][1] = returned[u][1]
        PROVE  returned[t] = returned[u]
    <3>1. returned[t] \in Object /\ returned[u] \in Object
      BY <1>1, <2>2 DEF TypeOK, IsPart, Part, Score
    <3>2. /\ returned[t] = <<returned[t][1], returned[t][2]>>
          /\ returned[u] = <<returned[u][1], returned[u][2]>>
      BY <3>1 DEF Object
    <3>3. /\ returned[t][2] \in 1..made[returned[t][1]]
          /\ returned[u][2] \in 1..made[returned[t][1]]
      BY <1>1, <2>2 DEF GearInv, ReturnInv, IsPart
    <3>4. made[returned[t][1]] \in 0..1
      BY <1>1, <2>1, <2>2 DEF IsPart, TypeOK
    <3>5. returned[t][2] = 1 /\ returned[u][2] = 1
      BY <3>3, <3>4
    <3> QED BY <2>2, <3>2, <3>5
  <2> QED BY <2>1, <2>2 DEF OnePart
<1> QED BY <1>1, GearCorrect, PTL

\* No caller of get_score sees the sentinel that score.rs starts with.
THEOREM NoSentinelHolds == GearSpec => []NoSentinel
<1>1. TypeOK /\ GearInv => NoSentinel
  BY DEF GearInv, ReturnInv, NoSentinel
<1> QED BY <1>1, GearCorrect, PTL

\* The parts that are left when the hardware object is gone are fewer than the
\* threads: each was created by a thread that found the member null, and the one
\* that the member names was freed.
LEMMA FewLeft ==
  ASSUME TypeOK, GearInv, The("hardware") \notin live, NEW p \in Part
  PROVE  LET left == {x \in live : x[1] = p} IN
           /\ ~overlapped => left = {}
           /\ Cardinality(left) < Cardinality(Thread)
<1> DEFINE left == {x \in live : x[1] = p}
           names == 1..made[p]
<1>1. made[p] \in Nat /\ member[p] \in Nat /\ Cardinality(Thread) \in Nat
  BY Racers DEF TypeOK
<1>2. Boxing(p) = {} /\ Storing(p) = {}
  BY DEF GearInv, GoneInv, Idle, Boxing, Storing, Getting
<1>3. \A x \in left : x = <<p, x[2]>> /\ x[2] \in names \ {member[p]}
  <2> TAKE x \in left
  <2>1. x = <<p, x[2]>>
    BY DEF TypeOK, Object
  <2>2. x[2] \in names
    BY DEF GearInv, HeapInv, IsPart
  <2>3. x[2] # member[p]
    BY <2>1 DEF GearInv, GoneInv
  <2> QED BY <2>1, <2>2, <2>3
<1>4. member[p] = 0 => made[p] = 0
  BY <1>2, FS_EmptySet DEF GearInv, RaceInv
<1>5. ~overlapped => left = {}
  <2>1. ~overlapped => made[p] <= 1
    BY DEF GearInv, RaceInv
  <2>2. member[p] <= made[p]
    BY DEF GearInv, HeapInv
  <2>3. ~overlapped => names \ {member[p]} = {}
    BY <1>1, <1>4, <2>1, <2>2
  <2> QED BY <1>3, <2>3
<1>6. IsFiniteSet(names) /\ Cardinality(names) = made[p]
  <2>1. IsFiniteSet(names)
        /\ Cardinality(names) = IF 1 > made[p] THEN 0 ELSE made[p] - 1 + 1
    <3>1. 1 \in Int /\ made[p] \in Int
      BY <1>1
    <3>2. IsFiniteSet(1..made[p])
          /\ Cardinality(1..made[p])
               = IF 1 > made[p] THEN 0 ELSE made[p] - 1 + 1
      BY <3>1, FS_Interval, Zenon
    <3> QED BY <3>2
  <2> QED BY <1>1, <2>1
<1>7. IsFiniteSet(left)
      /\ Cardinality(left) <= Cardinality(names \ {member[p]})
  <2> DEFINE number == [x \in left |-> x[2]]
             others == names \ {member[p]}
  <2>1. IsFiniteSet(others)
    BY <1>6, FS_RemoveElement
  <2>2. number \in [left -> others]
    BY <1>3
  <2>3. \A x, y \in left : number[x] = number[y] => x = y
    BY <1>3
  <2>4. number \in Injection(left, others)
    BY <2>2, <2>3 DEF Injection, IsInjective
  <2> HIDE DEF number, others, left
  <2>5. IsFiniteSet(left) /\ Cardinality(left) <= Cardinality(others)
    BY <2>1, <2>4, FS_Injection
  <2> QED BY <2>5 DEF others
<1>8. Cardinality(names \ {member[p]}) < Cardinality(Thread)
  <2>1. CASE member[p] = 0
    <3>1. names = {}
      BY <1>4, <2>1
    <3>2. Cardinality(names \ {member[p]}) = 0
      BY <3>1, FS_EmptySet
    <3>3. Cardinality(Thread) # 0
      BY ThreadAssumption, FS_EmptySet
    <3> QED BY <1>1, <3>2, <3>3
  <2>2. CASE member[p] # 0
    <3>1. member[p] \in names
      BY <1>1, <2>2 DEF GearInv, HeapInv
    <3>2. Cardinality(names \ {member[p]}) = made[p] - 1
      BY <1>6, <3>1, FS_RemoveElement
    <3>3. made[p] + Cardinality(Boxing(p)) <= Cardinality(Thread)
      BY <2>2 DEF GearInv, RaceInv
    <3>4. Cardinality(Boxing(p)) = 0
      BY <1>2, FS_EmptySet
    <3> QED BY <1>1, <3>2, <3>3, <3>4
  <2> QED BY <2>1, <2>2
<1>9. Cardinality(left) \in Nat /\ Cardinality(names \ {member[p]}) \in Nat
  BY <1>6, <1>7, FS_RemoveElement, FS_CardinalityType
<1> QED BY <1>1, <1>5, <1>7, <1>8, <1>9

\* The destructors free everything once, but for what the getters' race leaks.
THEOREM PartsFreedHolds == GearSpec => []PartsFreed
<1>1. ASSUME TypeOK, GearInv PROVE PartsFreed
  <2>1. doubleFree => destructions > 1 \/ \E x \in deleted : IsPart(x)
    BY <1>1 DEF GearInv, HeapInv
  <2> QED BY <1>1, <2>1, FewLeft DEF PartsFreed
<1> QED BY <1>1, GearCorrect, PTL
-----------------------------------------------------------------------------
(* The processors that are counted, for words of any width. *)

CpuTypeOK ==
  /\ system \subseteq Cpu
  /\ process \subseteq system /\ process # {}
  /\ systemAffinity \subseteq Cpu
  /\ logical \in Nat
  /\ pc \in {"query", "probe", "count", "clock", "done"}

\* The processors of the process below k.
Below(k) == {i \in process : i < k}

\* The mask has one bit, or has left the word.
MaskInv ==
  /\ pc = "query" => mask = {0} /\ logical = 0
  /\ pc = "probe" => \E k \in 0..W : mask = {k} \cap Cpu

\* What the code has read is what it read it from, unless others changed it.
AffinityInv ==
  systemAffinity # {} =>
    /\ pc # "query"
    /\ systemAffinity = system
    /\ ~changed => processAffinity = process

\* The processors below the mask have been counted; after the loop all have.
CountInv ==
  systemAffinity # {} /\ ~changed =>
    /\ pc = "probe" =>
         \A k \in 0..W : mask = {k} \cap Cpu => logical = Cardinality(Below(k))
    /\ pc \in {"count", "clock", "done"} =>
         logical = Cardinality(process) /\ thread = process

\* The counts that are handed out.
PhysicalInv ==
  pc \in {"clock", "done"} =>
    logical >= 1 /\ physical \in 1..logical /\ 2 * physical >= logical

CpuInv == MaskInv /\ AffinityInv /\ CountInv /\ PhysicalInv

\* What is left to do: the bits the mask has not passed, and the steps around
\* the loop.
Ahead == {i \in Cpu : \E j \in mask : j <= i}
StepsLeft ==
  Cardinality(Ahead)
    + CASE pc = "query" -> 4 [] pc = "probe" -> 3 [] pc = "count" -> 2
        [] pc = "clock" -> 1 [] pc = "done" -> 0

\* The processors are finitely many.
LEMMA CpuFinite ==
  /\ W \in Nat /\ IsFiniteSet(Cpu)
  /\ \A s : s \subseteq Cpu => IsFiniteSet(s) /\ Cardinality(s) \in Nat
<1>1. W \in Nat /\ 0 \in Int /\ W - 1 \in Int
  BY WAssumption
<1>2. IsFiniteSet(Cpu)
  BY <1>1, FS_Interval DEF Cpu
<1>3. \A s : s \subseteq Cpu => IsFiniteSet(s) /\ Cardinality(s) \in Nat
  BY <1>2, FS_Subset, FS_CardinalityType
<1> QED BY <1>1, <1>2, <1>3

\* A mask of one bit is in the word as long as there is a processor from that
\* bit on, whatever the processors are.
LEMMA InWordWhile ==
  ASSUME NEW k \in 0..W, mask = {k} \cap Cpu, systemAffinity \subseteq Cpu
  PROVE  InWord <=> \E i \in systemAffinity : i >= k
<1>1. W \in Nat /\ k \in Nat /\ \A i \in Cpu : i \in Nat /\ i < W
  BY WAssumption DEF Cpu
<1>2. k \in Cpu <=> k < W
  BY <1>1 DEF Cpu
<1>3. CASE k \in Cpu
  <2>1. mask = {k}
    BY <1>3
  <2>2. LessEq({k}, systemAffinity)
          <=> (k \in systemAffinity \/ \E i \in systemAffinity \ {k} : i > k)
    BY DEF LessEq
  <2>3. (k \in systemAffinity \/ \E i \in systemAffinity \ {k} : i > k)
          <=> \E i \in systemAffinity : i >= k
    BY <1>1
  <2> QED BY <2>1, <2>2, <2>3 DEF InWord
<1>4. CASE k \notin Cpu
  <2>1. mask = {}
    BY <1>4
  <2>2. \A i \in systemAffinity : ~(i >= k)
    BY <1>1, <1>2, <1>4
  <2> QED BY <2>1, <2>2 DEF InWord
<1> QED BY <1>3, <1>4

\* The shift moves the one bit to the next place, or out of the word.
LEMMA ShiftsOn ==
  ASSUME NEW k \in 0..W, mask = {k} \cap Cpu, mask # {}
  PROVE  k \in Cpu /\ k + 1 \in 0..W /\ ShiftLeft(mask) = {k + 1} \cap Cpu
<1>1. k \in Cpu /\ mask = {k}
  OBVIOUS
<1>2. k + 1 \in 0..W
  BY <1>1, WAssumption DEF Cpu
<1>3. {i + 1 : i \in {k}} = {k + 1}
  OBVIOUS
<1> QED BY <1>1, <1>2, <1>3 DEF ShiftLeft

\* The mask says which processors are below it.
LEMMA OneMask ==
  ASSUME NEW k \in 0..W, NEW n \in 0..W, {k} \cap Cpu = {n} \cap Cpu
  PROVE  k = n
<1>1. W \in Nat /\ (k \in Cpu \/ k = W) /\ (n \in Cpu \/ n = W) /\ W \notin Cpu
  BY WAssumption DEF Cpu
<1> QED BY <1>1

\* One more processor is counted where there is one.
LEMMA BelowNext ==
  ASSUME CpuTypeOK, NEW k \in Nat
  PROVE  /\ k \in process =>
              Cardinality(Below(k + 1)) = Cardinality(Below(k)) + 1
         /\ k \notin process => Below(k + 1) = Below(k)
<1>1. process \subseteq Cpu /\ \A i \in process : i \in Nat
  BY WAssumption DEF CpuTypeOK, Cpu
<1>2. IsFiniteSet(Below(k))
  BY <1>1, CpuFinite DEF Below
<1>0. \A i \in process : i < k + 1 <=> i < k \/ i = k
  BY <1>1
<1>3. k \in process => Below(k + 1) = Below(k) \cup {k}
  BY <1>0 DEF Below
<1>4. k \notin process => Below(k + 1) = Below(k)
  BY <1>0 DEF Below
<1>5. k \notin Below(k)
  BY DEF Below
<1>6. Cardinality(Below(k) \cup {k}) = Cardinality(Below(k)) + 1
  BY <1>2, <1>5, FS_AddElement
<1> QED BY <1>3, <1>4, <1>6

\* Every step keeps the types.
LEMMA CpuTypePreserved ==
  CpuTypeOK /\ [CpuNext]_cpuVars => CpuTypeOK'
<1> SUFFICES ASSUME CpuTypeOK, [CpuNext]_cpuVars PROVE CpuTypeOK'
  OBVIOUS
<1> USE DEF CpuTypeOK, osVars, affinityVars, clockVars
<1>1. CASE Query
  BY <1>1 DEF Query
<1>2. CASE Probe
  BY <1>2 DEF Probe
<1>3. CASE Restore
  BY <1>3 DEF Restore
<1>4. CASE Count
  <2>1. logical' \in Nat
    BY <1>4, ProcessorsAssumption DEF Count, AtLeastOne
  <2> QED BY <1>4, <2>1 DEF Count
<1>5. CASE Clock
  BY <1>5 DEF Clock
<1>6. CASE ChangeAffinity
  <2>1. process' \subseteq system /\ process' # {}
    BY <1>6 DEF ChangeAffinity
  <2>2. pc' = pc /\ UNCHANGED <<system, systemAffinity, logical>>
    BY <1>6 DEF ChangeAffinity
  <2> QED BY <2>1, <2>2
<1>7. CASE UNCHANGED cpuVars
  BY <1>7 DEF cpuVars
<1> QED BY <1>1, <1>2, <1>3, <1>4, <1>5, <1>6, <1>7 DEF CpuNext, TopologyStep

\* The mask moves on by one bit, and the code's copies of the affinity stay.
LEMMA MaskPreserved ==
  CpuTypeOK /\ MaskInv /\ AffinityInv /\ [CpuNext]_cpuVars
    => MaskInv' /\ AffinityInv'
<1> SUFFICES ASSUME CpuTypeOK, MaskInv, AffinityInv, [CpuNext]_cpuVars
             PROVE  MaskInv' /\ AffinityInv'
  OBVIOUS
<1> USE DEF MaskInv, AffinityInv, osVars, affinityVars, clockVars
<1>1. CASE Query
  <2>1. 0 \in 0..W /\ 0 \in Cpu
    BY WAssumption DEF Cpu
  <2>2. mask' = {0} \cap Cpu
    BY <1>1, <2>1 DEF Query
  <2>3. AffinityInv'
    BY <1>1 DEF Query, CpuTypeOK
  <2> QED BY <1>1, <2>1, <2>2, <2>3 DEF Query
<1>2. CASE Probe
  <2>1. PICK k \in 0..W : mask = {k} \cap Cpu
    BY <1>2 DEF Probe
  <2>2. k + 1 \in 0..W /\ mask' = {k + 1} \cap Cpu
    BY <1>2, <2>1, ShiftsOn DEF Probe, InWord
  <2> QED BY <1>2, <2>2 DEF Probe
<1>3. CASE Restore \/ Count \/ Clock
  BY <1>3 DEF Restore, Count, Clock
<1>4. CASE ChangeAffinity
  BY <1>4 DEF ChangeAffinity
<1>5. CASE UNCHANGED cpuVars
  BY <1>5 DEF cpuVars
<1> QED BY <1>1, <1>2, <1>3, <1>4, <1>5 DEF CpuNext, TopologyStep

\* The loop counts the processors it passes, and stops behind the last one.
LEMMA CountPreserved ==
  CpuTypeOK /\ MaskInv /\ AffinityInv /\ CountInv /\ [CpuNext]_cpuVars
    => CountInv'
<1> SUFFICES ASSUME CpuTypeOK, MaskInv, AffinityInv, CountInv,
                    [CpuNext]_cpuVars, systemAffinity' # {}, ~changed'
             PROVE  (/\ pc = "probe" =>
                          \A k \in 0..W : mask = {k} \cap Cpu =>
                            logical = Cardinality(Below(k))
                     /\ pc \in {"count", "clock", "done"} =>
                          logical = Cardinality(process)
                          /\ thread = process)'
  BY DEF CountInv
<1>0. process \subseteq Cpu /\ \A i \in process : i \in Nat
  BY WAssumption DEF CpuTypeOK, Cpu
<1> USE DEF osVars, affinityVars, clockVars
<1>1. CASE Query
  <2>1. mask' = {0} /\ logical' = 0 /\ process' = process /\ pc' = "probe"
    BY <1>1 DEF Query, MaskInv
  <2>2. 0 \in Cpu /\ 0 \in 0..W
    BY WAssumption DEF Cpu
  <2>3. ASSUME NEW k \in 0..W, mask' = {k} \cap Cpu
        PROVE  logical' = Cardinality({i \in process' : i < k})
    <3>1. k = 0
      BY <2>1, <2>2, <2>3
    <3>2. {i \in process' : i < k} = {}
      BY <1>0, <2>1, <3>1
    <3> QED BY <2>1, <3>2, FS_EmptySet
  <2> QED BY <2>1, <2>3 DEF Below
<1>2. CASE Probe
  <2>1. /\ pc = "probe" /\ pc' = "probe" /\ InWord /\ mask # {}
        /\ mask' = ShiftLeft(mask)
        /\ systemAffinity # {} /\ ~changed /\ process' = process
        /\ logical' = IF Allowed(mask) THEN logical + 1 ELSE logical
    BY <1>2 DEF Probe, InWord
  <2>2. PICK k \in 0..W : mask = {k} \cap Cpu
    BY <2>1 DEF MaskInv
  <2>3. /\ k \in Cpu /\ k \in Nat /\ mask = {k} /\ k + 1 \in 0..W
        /\ mask' = {k + 1} \cap Cpu
    <3>1. k \in Cpu /\ k + 1 \in 0..W /\ ShiftLeft(mask) = {k + 1} \cap Cpu
      BY <2>1, <2>2, ShiftsOn
    <3>2. k \in Nat
      BY WAssumption
    <3> QED BY <2>1, <2>2, <3>1, <3>2
  <2>4. logical = Cardinality(Below(k))
    BY <2>1, <2>2 DEF CountInv
  <2>5. Allowed(mask) <=> k \in process
    BY <2>3 DEF Allowed
  <2>6. logical' = Cardinality(Below(k + 1))
    BY <2>1, <2>3, <2>4, <2>5, BelowNext
  <2>7. ASSUME NEW n \in 0..W, mask' = {n} \cap Cpu
        PROVE  logical' = Cardinality({i \in process' : i < n})
    <3>1. n = k + 1
      BY <2>3, <2>7, OneMask
    <3> QED BY <2>1, <2>6, <3>1 DEF Below
  <2> QED BY <2>1, <2>7 DEF Below
<1>3. CASE Restore
  <2>1. /\ pc = "probe" /\ pc' = "count" /\ ~InWord
        /\ systemAffinity # {} /\ ~changed
        /\ process' = process /\ logical' = logical
    BY <1>3 DEF Restore
  <2>2. PICK k \in 0..W : mask = {k} \cap Cpu
    BY <2>1 DEF MaskInv
  <2>3. systemAffinity = system /\ processAffinity = process
    BY <2>1 DEF AffinityInv
  <2>4. \A i \in system : ~(i >= k)
    BY <2>1, <2>2, <2>3, InWordWhile DEF CpuTypeOK
  <2>5. Below(k) = process
    <3>1. k \in Nat /\ \A i \in process : i \in system
      BY WAssumption DEF CpuTypeOK
    <3> QED BY <1>0, <2>4, <3>1 DEF Below
  <2>6. logical = Cardinality(process)
    BY <2>1, <2>2, <2>5 DEF CountInv
  <2>7. thread' = process
    BY <1>3, <2>3 DEF Restore, Before, Allowed, CpuTypeOK
  <2> QED BY <2>1, <2>6, <2>7
<1>4. CASE Count
  <2>1. /\ pc = "count" /\ pc' = "clock" /\ systemAffinity # {} /\ ~changed
        /\ process' = process /\ thread' = thread
    BY <1>4 DEF Count
  <2>2. logical = Cardinality(process) /\ thread = process
    BY <2>1 DEF CountInv
  <2>3. logical # 0
    BY <1>0, <2>2, CpuFinite, FS_EmptySet DEF CpuTypeOK
  <2>4. logical' = logical
    BY <1>4, <2>3 DEF Count, AtLeastOne
  <2> QED BY <2>1, <2>2, <2>4
<1>5. CASE Clock
  BY <1>5 DEF Clock, CountInv
<1>6. CASE ChangeAffinity
  BY <1>6 DEF ChangeAffinity
<1>7. CASE UNCHANGED cpuVars
  BY <1>7 DEF cpuVars, CountInv, Below
<1> QED BY <1>1, <1>2, <1>3, <1>4, <1>5, <1>6, <1>7 DEF CpuNext, TopologyStep

\* Half of the processors, rounded up, are no more than there are.
LEMMA PhysicalPreserved ==
  CpuTypeOK /\ PhysicalInv /\ [CpuNext]_cpuVars => PhysicalInv'
<1> SUFFICES ASSUME CpuTypeOK, PhysicalInv, [CpuNext]_cpuVars
             PROVE  PhysicalInv'
  OBVIOUS
<1> USE DEF PhysicalInv, osVars, affinityVars, clockVars
<1>1. CASE Count
  <2>1. PICK n \in Nat : /\ logical' = AtLeastOne(n)
                         /\ physical' = AtLeastOne((n + 1) \div 2)
    BY <1>1, ProcessorsAssumption DEF Count, CpuTypeOK
  <2>2. CASE n = 0
    <3>1. (n + 1) \div 2 = 0
      BY <2>2
    <3>2. logical' = 1 /\ physical' = 1
      BY <2>1, <2>2, <3>1 DEF AtLeastOne
    <3> QED BY <3>2
  <2>3. CASE n # 0
    <3> DEFINE h == (n + 1) \div 2
    <3>1. h \in Nat /\ h >= 1 /\ h <= n /\ 2 * h >= n
      BY <2>3
    <3>2. logical' = n /\ physical' = h
      BY <2>1, <2>3, <3>1 DEF AtLeastOne
    <3> HIDE DEF h
    <3> QED BY <2>3, <3>1, <3>2
  <2> QED BY <2>2, <2>3
<1>2. CASE Clock
  BY <1>2 DEF Clock
<1>3. CASE Query \/ Probe \/ Restore \/ ChangeAffinity
  <2>1. pc' \notin {"clock", "done"}
    BY <1>3 DEF Query, Probe, Restore, ChangeAffinity
  <2> QED BY <2>1
<1>4. CASE UNCHANGED cpuVars
  BY <1>4 DEF cpuVars
<1> QED BY <1>1, <1>2, <1>3, <1>4 DEF CpuNext, TopologyStep

\* The invariant holds of every behaviour.
LEMMA CpuCorrect == CpuSpec => [](CpuTypeOK /\ CpuInv)
<1>1. CpuInit => CpuTypeOK /\ CpuInv
  <2> SUFFICES ASSUME CpuInit PROVE CpuTypeOK /\ CpuInv
    OBVIOUS
  <2> USE DEF CpuInit
  <2>1. process \subseteq system /\ process # {} /\ system \subseteq Cpu
    OBVIOUS
  <2>2. pc = "query" /\ systemAffinity = {} /\ logical = 0 /\ mask = {0}
    OBVIOUS
  <2> QED BY <2>1, <2>2 DEF CpuTypeOK, CpuInv, MaskInv, AffinityInv, CountInv,
     PhysicalInv
<1>2. CpuTypeOK /\ CpuInv /\ [CpuNext]_cpuVars => (CpuTypeOK /\ CpuInv)'
  BY CpuTypePreserved, MaskPreserved, CountPreserved, PhysicalPreserved
     DEF CpuInv
<1> QED BY <1>1, <1>2, PTL DEF CpuSpec

\* GearCPU::new counts the processors the process may use, for words of any
\* width, any machine and any affinity.
THEOREM ProcessorsCountedHolds == CpuSpec => []ProcessorsCounted
<1>1. CpuInv => ProcessorsCounted
  BY DEF CpuInv, PhysicalInv, CountInv, ProcessorsCounted
<1> QED BY <1>1, CpuCorrect, PTL

\* The thread may use all processors of its process again.
THEOREM ThreadReleasedHolds == CpuSpec => []ThreadReleased
<1>1. CpuInv => ThreadReleased
  BY DEF CpuInv, CountInv, ThreadReleased
<1> QED BY <1>1, CpuCorrect, PTL

\* Each step of the detection leaves fewer to do, and others add none: what
\* DetectionEnds needs besides fairness.
THEOREM DetectionAdvances ==
  CpuSpec => [][/\ StepsLeft' \in Nat /\ StepsLeft' <= StepsLeft
                /\ TopologyStep => StepsLeft' < StepsLeft]_cpuVars
<1> DEFINE Advances == /\ StepsLeft' \in Nat /\ StepsLeft' <= StepsLeft
                       /\ TopologyStep => StepsLeft' < StepsLeft
<1>1. ASSUME CpuTypeOK, CpuInv, CpuNext PROVE Advances
  <2>0. /\ Ahead \subseteq Cpu /\ Ahead' \subseteq Cpu
        /\ IsFiniteSet(Ahead) /\ IsFiniteSet(Ahead')
        /\ Cardinality(Ahead) \in Nat /\ Cardinality(Ahead') \in Nat
    <3>1. Ahead \subseteq Cpu /\ Ahead' \subseteq Cpu
      BY DEF Ahead
    <3> QED BY <3>1, CpuFinite
  <2>1. ASSUME mask' = mask PROVE Cardinality(Ahead') = Cardinality(Ahead)
    BY <2>1 DEF Ahead
  <2> USE DEF osVars, affinityVars, clockVars
  <2>2. CASE Query \/ Restore \/ Count \/ Clock
    <3>1. mask' = mask
      BY <2>2 DEF Query, Restore, Count, Clock
    <3>2. \/ pc = "query" /\ pc' = "probe"
          \/ pc = "probe" /\ pc' = "count"
          \/ pc = "count" /\ pc' = "clock"
          \/ pc = "clock" /\ pc' = "done"
      BY <2>2 DEF Query, Restore, Count, Clock
    <3>3. Cardinality(Ahead') = Cardinality(Ahead)
      BY <2>1, <3>1
    <3> QED BY <2>0, <3>2, <3>3 DEF StepsLeft
  <2>3. CASE Probe
    <3>1. pc = "probe" /\ pc' = "probe" /\ mask # {} /\ mask' = ShiftLeft(mask)
      BY <2>3 DEF Probe, InWord
    <3>2. PICK k \in 0..W : mask = {k} \cap Cpu
      BY <1>1, <3>1 DEF CpuInv, MaskInv
    <3>3. k \in Cpu /\ k \in Nat /\ mask = {k} /\ mask' = {k + 1} \cap Cpu
      <4>1. k \in Nat
        BY WAssumption
      <4> QED BY <3>1, <3>2, <4>1, ShiftsOn
    <3>4. k \in Ahead /\ k \notin Ahead' /\ Ahead' \subseteq Ahead
      <4>1. \A i \in Cpu : i \in Nat
        BY WAssumption DEF Cpu
      <4>2. \A i \in Cpu : i \in Ahead <=> k <= i
        BY <3>3 DEF Ahead
      <4>3. \A i \in Ahead' : i \in Cpu /\ k + 1 <= i
        BY <3>3 DEF Ahead
      <4>4. k \in Ahead /\ k \notin Ahead'
        BY <3>3, <4>2, <4>3
      <4>5. ASSUME NEW i \in Ahead' PROVE i \in Ahead
        <5>1. i \in Nat /\ k + 1 <= i
          BY <4>1, <4>3
        <5>2. k <= i
          BY <3>3, <5>1
        <5> QED BY <4>2, <4>3, <5>2
      <4> QED BY <4>4, <4>5
    <3>5. Cardinality(Ahead') < Cardinality(Ahead)
      <4>1. Ahead' \subseteq Ahead \ {k}
        BY <3>4
      <4>2. /\ IsFiniteSet(Ahead \ {k})
            /\ Cardinality(Ahead \ {k}) = Cardinality(Ahead) - 1
        BY <2>0, <3>4, FS_RemoveElement
      <4>3. Cardinality(Ahead') <= Cardinality(Ahead \ {k})
        BY <4>1, <4>2, FS_Subset
      <4> QED BY <2>0, <4>2, <4>3
    <3> QED BY <2>0, <3>1, <3>5 DEF StepsLeft
  <2>4. CASE ChangeAffinity
    <3>1. mask' = mask /\ pc' = pc /\ pc \in {"query", "probe", "count"}
      BY <2>4 DEF ChangeAffinity
    <3>2. ~TopologyStep
      <4>1. process' # process
        BY <2>4 DEF ChangeAffinity
      <4> QED BY <4>1 DEF TopologyStep, Query, Probe, Restore, Count, Clock
    <3>3. StepsLeft' = StepsLeft /\ StepsLeft' \in Nat
      BY <2>0, <2>1, <3>1 DEF StepsLeft
    <3> QED BY <3>2, <3>3
  <2> QED BY <1>1, <2>2, <2>3, <2>4 DEF CpuNext, TopologyStep
<1> HIDE DEF Advances
<1>2. CpuTypeOK /\ CpuInv /\ [CpuNext]_cpuVars => [Advances]_cpuVars
  BY <1>1
<1>3. CpuSpec => [][Advances]_cpuVars
  BY <1>2, CpuCorrect, PTL DEF CpuSpec
<1> QED BY <1>3 DEF Advances
=============================================================================
