----------------------- MODULE OfflineValidation_proofs -----------------------
(***************************************************************************)
(* Proofs about validate_dunia_file, for any patches, any plans and any    *)
(* file.                                                                   *)
(***************************************************************************)
EXTENDS OfflineValidation, TLAPS

Plans   == Writes \cup {<<>>}
Results == {"none", "unreadable", "planFailed", "unknownRvas", "applyFailed",
            "replanFailed", "notIdempotent", "valid"}

TypeOK ==
  /\ file \in [Place -> Contents]
  /\ copy \in [Place -> Contents]
  /\ leadsTo \in [Patch -> Plans]
  /\ known \in BOOLEAN
  /\ pc \in {"map", "plan", "apply", "done"}
  /\ round \in {1, 2}
  /\ turn \in Nat
  /\ write \in Nat
  /\ changed \in BOOLEAN
  /\ prepared \in [Patch -> Plans]
  /\ failures \subseteq Patch
  /\ state \in [Patch -> {"none", "AppliedToCopy", "AlreadyPresent"}]
  /\ result \in Results
  /\ refused \in BOOLEAN

Leads(p) == {leadsTo[p][i] : i \in DOMAIN leadsTo[p]}
Alone(p, t) == \A q \in Patch \ {p} : t \notin Leads(q)

\* The patch can be applied to the file, at the known places if there are any.
Sound(p) ==
  /\ leadsTo[p] # <<>>
  /\ \A t \in Leads(p) : file[t] # "other"
  /\ known /\ Known[p] # <<>> => leadsTo[p] = Known[p]

\* What is reported of the patch is what the file holds.
Told(p) ==
  /\ (\E t \in Leads(p) : file[t] = "original" /\ Alone(p, t))
       => state[p] = "AppliedToCopy"
  /\ (\A t \in Leads(p) : file[t] = "patched") => state[p] = "AlreadyPresent"

\* The turn begins at the first patch.
TurnInv ==
  /\ turn \in 1..(Len(Order) + 1)
  /\ pc = "map" => turn = 1 /\ round = 1
  /\ write # 0

\* The plans of the first round are made on what the file holds.
FirstInv ==
  pc \in {"map", "plan"} /\ round = 1 =>
    /\ copy = file
    /\ \A i \in 1..(turn - 1) :
         Order[i] \in failures \/ (/\ Plannable(Order[i])
                                   /\ prepared[Order[i]] = leadsTo[Order[i]])
    /\ ~refused => \A p \in failures : ~Plannable(p)

\* The places the first round has written.
Written(t) ==
  \/ \E i \in 1..(turn - 1) : t \in Leads(Order[i])
  \/ turn \in DOMAIN Order /\ \E k \in 1..(write - 1) :
       k \in DOMAIN leadsTo[Now] /\ leadsTo[Now][k] = t

\* What is known of the plan at hand is what its first writes have found.
ChangedFits ==
  /\ \A k \in 1..(write - 1) :
       k \in DOMAIN leadsTo[Now] /\ file[leadsTo[Now][k]] = "original"
         /\ Alone(Now, leadsTo[Now][k]) => changed
  /\ (\A t \in Leads(Now) : file[t] = "patched") => ~changed

ApplyInv ==
  pc = "apply" /\ round = 1 =>
    /\ \A p \in Patch : Sound(p) /\ prepared[p] = leadsTo[p]
    /\ \A t \in Place : copy[t] = IF Written(t) THEN "patched" ELSE file[t]
    /\ \A i \in 1..(turn - 1) : Told(Order[i])
    /\ turn \in DOMAIN Order => ChangedFits

\* In the second round every place has its patched bytes, and what a plan lacks
\* the system has refused.
AgainInv ==
  round = 2 =>
    /\ \A p \in Patch :
         /\ Sound(p) /\ Told(p)
         /\ \A t \in Leads(p) : copy[t] = "patched"
         /\ prepared[p] = leadsTo[p] \/ (prepared[p] = <<>> /\ refused)
    /\ pc = "apply" =>
         ~changed /\ \A i \in 1..(turn - 1) : prepared[Order[i]] # <<>>

ResultInv ==
  /\ pc # "done" => result = "none"
  /\ result = "valid" => round = 2 /\ \A p \in Patch : prepared[p] # <<>>
  /\ FailuresFirst
  /\ OnceIsEnough

OffInv == TurnInv /\ FirstInv /\ ApplyInv /\ AgainInv /\ ResultInv

-----------------------------------------------------------------------------
(* The parts of the data. *)

\* make_plans lists every patch once.
LEMMA OrderFacts ==
  /\ Len(Order) \in Nat /\ DOMAIN Order = 1..Len(Order)
  /\ \A i \in DOMAIN Order : Order[i] \in Patch
  /\ \A p \in Patch : \E i \in DOMAIN Order : Order[i] = p
  /\ \A i, j \in DOMAIN Order : Order[i] = Order[j] => i = j
<1>1. Order \in Seq(Patch)
  BY OrderAssumption
<1>2. \A p \in Patch : \E i \in DOMAIN Order : Order[i] = p
  <2>1. {Order[i] : i \in DOMAIN Order} = Patch
    BY OrderAssumption
  <2> QED BY <2>1
<1>3. \A i, j \in DOMAIN Order : Order[i] = Order[j] => i = j
  BY OrderAssumption
<1> QED BY <1>1, <1>2, <1>3

\* A plan is a sequence of places.
LEMMA PlanFacts ==
  ASSUME TypeOK, NEW p \in Patch
  PROVE  /\ leadsTo[p] \in Plans /\ prepared[p] \in Plans
         /\ Len(leadsTo[p]) \in Nat
         /\ DOMAIN leadsTo[p] = 1..Len(leadsTo[p])
         /\ \A k \in DOMAIN leadsTo[p] : leadsTo[p][k] \in Place
         /\ Leads(p) \subseteq Place
<1>1. leadsTo[p] \in Plans /\ prepared[p] \in Plans
  BY DEF TypeOK
<1>2. <<>> \in Seq(Place)
  OBVIOUS
<1>3. Plans \subseteq Seq(Place)
  BY <1>2, WritesAssumption DEF Plans
<1>4. leadsTo[p] \in Seq(Place)
  BY <1>1, <1>3
<1>5. Len(leadsTo[p]) \in Nat /\ DOMAIN leadsTo[p] = 1..Len(leadsTo[p])
      /\ \A k \in DOMAIN leadsTo[p] : leadsTo[p][k] \in Place
  BY <1>4
<1> QED BY <1>1, <1>5 DEF Leads

\* The patch whose turn it is.
LEMMA NowFacts ==
  ASSUME turn \in DOMAIN Order
  PROVE  Now \in Patch
  BY OrderFacts DEF Now

\* A patch that can be planned on bytes that are those of the file is one that
\* can be applied to the file.
LEMMA PlannableLeads ==
  ASSUME NEW p \in Patch, copy = file, Plannable(p)
  PROVE  leadsTo[p] # <<>> /\ \A t \in Leads(p) : file[t] # "other"
  BY DEF Plannable, Leads
-----------------------------------------------------------------------------
(* The steps. *)

\* Every step keeps the types.
LEMMA TypePreserved == TypeOK /\ [OffNext]_offVars => TypeOK'
<1> SUFFICES ASSUME TypeOK, [OffNext]_offVars PROVE TypeOK'
  OBVIOUS
<1> USE DEF TypeOK, inputVars, End, Stop
<1>0. ASSUME NEW r \in Results, End(r) PROVE TypeOK'
  BY <1>0
<1>1. CASE Refuse \/ WriteFails \/ Unplanned \/ Finish \/ ReadFails
  BY <1>1 DEF Refuse, WriteFails, Unplanned, Finish, ReadFails, Results
<1>2. CASE Map \/ Again
  BY <1>2 DEF Map, Again
<1>3. CASE Plan \/ PlanFails
  <2>1. PICK failed \in BOOLEAN : turn \in DOMAIN Order /\ Planned(failed)
    BY <1>3 DEF Plan, PlanFails
  <2>2. refused' \in BOOLEAN
    BY <1>3 DEF Plan, PlanFails
  <2>3. Now \in Patch
    BY <2>1, NowFacts
  <2>4. <<>> \in Plans /\ leadsTo[Now] \in Plans
    BY <2>3 DEF Plans
  <2>5. prepared' \in [Patch -> Plans]
    BY <2>1, <2>4 DEF Planned
  <2>6. failures' \subseteq Patch
    BY <2>1, <2>3 DEF Planned, Note
  <2>7. turn' \in Nat
    BY <2>1 DEF Planned
  <2> QED BY <2>1, <2>2, <2>5, <2>6, <2>7 DEF Planned
<1>4. CASE AllPlanned
  <2>1. CASE BeginApplying
    BY <2>1 DEF BeginApplying
  <2>2. CASE ~BeginApplying
    <3>1. End("planFailed") \/ End("unknownRvas")
      BY <1>4, <2>2 DEF AllPlanned
    <3>2. "planFailed" \in Results /\ "unknownRvas" \in Results
      BY DEF Results
    <3> QED BY <1>0, <3>1, <3>2
  <2> QED BY <2>1, <2>2
<1>5. CASE Write
  <2>1. copy' \in [Place -> Contents]
    BY <1>5 DEF Write, Contents
  <2>2. changed' \in BOOLEAN
    BY <1>5 DEF Write, Changed
  <2> QED BY <1>5, <2>1, <2>2 DEF Write
<1>6. CASE Applied
  <2>1. CASE End("notIdempotent")
    BY <1>0, <2>1 DEF Results
  <2>2. CASE turn' = turn + 1
    <3>1. /\ UNCHANGED <<inputVars, copy, pc, round, prepared, failures, result,
                         refused>>
          /\ write' = 1 /\ changed' = FALSE
          /\ state' = IF round = 2 THEN state
                      ELSE [state EXCEPT ![Now] =
                              IF changed THEN "AppliedToCopy"
                              ELSE "AlreadyPresent"]
      BY <1>6, <2>2 DEF Applied
    <3>2. state' \in [Patch -> {"none", "AppliedToCopy", "AlreadyPresent"}]
      BY <3>1
    <3>3. turn' \in Nat
      BY <2>2
    <3>4. write' \in Nat
      BY <3>1
    <3>5. changed' \in BOOLEAN
      BY <3>1
    <3> QED BY <3>1, <3>2, <3>3, <3>4, <3>5
  <2> QED BY <1>6, <2>1, <2>2 DEF Applied
<1>7. CASE UNCHANGED offVars
  BY <1>7 DEF offVars
<1> QED BY <1>1, <1>2, <1>3, <1>4, <1>5, <1>6, <1>7 DEF OffNext

\* The turns are taken in order.
LEMMA TurnPreserved == TypeOK /\ TurnInv /\ [OffNext]_offVars => TurnInv'
<1> SUFFICES ASSUME TypeOK, TurnInv, [OffNext]_offVars PROVE TurnInv'
  OBVIOUS
<1> USE OrderFacts DEF TypeOK, TurnInv, End, Stop
<1>1. CASE Refuse \/ WriteFails \/ Unplanned \/ Finish \/ ReadFails
  BY <1>1 DEF Refuse, WriteFails, Unplanned, Finish, ReadFails
<1>2. CASE Map \/ Again
  BY <1>2 DEF Map, Again
<1>3. CASE Plan \/ PlanFails
  <2>1. /\ pc = "plan" /\ pc' = "plan" /\ turn \in DOMAIN Order
        /\ turn' = turn + 1 /\ write' = write
    BY <1>3 DEF Plan, PlanFails, Planned
  <2> QED BY <2>1
<1>4. CASE AllPlanned
  BY <1>4 DEF AllPlanned, BeginApplying
<1>5. CASE Write
  BY <1>5 DEF Write
<1>6. CASE Applied
  BY <1>6 DEF Applied
<1>7. CASE UNCHANGED offVars
  BY <1>7 DEF offVars
<1> QED BY <1>1, <1>2, <1>3, <1>4, <1>5, <1>6, <1>7 DEF OffNext

\* A plan of the first round is made of what the file holds, and a patch that
\* gets none is noted.
LEMMA FirstPreserved ==
  TypeOK /\ TurnInv /\ FirstInv /\ [OffNext]_offVars => FirstInv'
<1> SUFFICES ASSUME TypeOK, TurnInv, FirstInv, [OffNext]_offVars
             PROVE  FirstInv'
  OBVIOUS
<1> USE DEF End, Stop
<1>1. CASE Refuse \/ ReadFails \/ Write \/ WriteFails \/ Unplanned \/ Applied
           \/ Again \/ Finish \/ AllPlanned
  BY <1>1 DEF Refuse, ReadFails, Write, WriteFails, Unplanned, Applied, Again,
     Finish, AllPlanned, BeginApplying, FirstInv
<1>2. CASE Map
  BY <1>2 DEF Map, FirstInv, inputVars, Plannable
<1>3. CASE Plan \/ PlanFails
  <2>0. CASE round = 2
    BY <1>3, <2>0 DEF Plan, PlanFails, Planned, FirstInv
  <2>a. CASE round = 1
    <3>1. PICK failed \in BOOLEAN :
            /\ turn \in DOMAIN Order /\ pc = "plan" /\ Planned(failed)
            /\ \/ failed = ~Plannable(Now) /\ UNCHANGED refused
               \/ failed /\ refused'
      BY <1>3 DEF Plan, PlanFails
    <3>2. Now \in Patch
      BY <3>1, NowFacts
    <3>3. /\ UNCHANGED <<file, copy, leadsTo>> /\ turn' = turn + 1
          /\ prepared' = [prepared EXCEPT ![Now] =
                             IF failed THEN <<>> ELSE leadsTo[Now]]
          /\ failures' = IF failed THEN failures \cup {Now} ELSE failures
      BY <3>1 DEF Planned, inputVars, Note
    <3>4. \A p \in Patch : Plannable(p)' = Plannable(p)
      BY <3>3 DEF Plannable
    <3>5. ASSUME NEW i \in 1..(turn' - 1)
          PROVE  \/ Order[i] \in failures'
                 \/ /\ Plannable(Order[i])'
                    /\ prepared'[Order[i]] = leadsTo'[Order[i]]
      <4>1. i \in DOMAIN Order /\ Order[i] \in Patch
        BY <3>1, <3>3, <3>5, OrderFacts DEF TypeOK
      <4>2. CASE i = turn
        <5>1. CASE failed
          BY <3>3, <4>2, <5>1 DEF Now
        <5>2. CASE ~failed
          <6>1. prepared'[Now] = leadsTo[Now]
            BY <3>2, <3>3, <5>2 DEF TypeOK
          <6> QED BY <3>1, <3>2, <3>3, <3>4, <4>2, <5>2, <6>1 DEF Now
        <5> QED BY <5>1, <5>2
      <4>3. CASE i # turn
        <5>1. i \in 1..(turn - 1)
          BY <3>3, <4>3 DEF TypeOK
        <5>2. Order[i] # Now
          BY <3>1, <4>1, <4>3, OrderFacts DEF Now
        <5>3. prepared'[Order[i]] = prepared[Order[i]]
          BY <3>3, <4>1, <5>2 DEF TypeOK
        <5>4. \/ Order[i] \in failures
              \/ /\ Plannable(Order[i])
                 /\ prepared[Order[i]] = leadsTo[Order[i]]
          BY <2>a, <3>1, <5>1 DEF FirstInv
        <5> QED BY <3>3, <3>4, <4>1, <5>3, <5>4
      <4> QED BY <4>2, <4>3
    <3>6. ~refused' => \A p \in failures' : ~Plannable(p)'
      <4> SUFFICES ASSUME ~refused', NEW p \in failures'
                   PROVE  ~Plannable(p)'
        OBVIOUS
      <4>1. failed = ~Plannable(Now) /\ ~refused
        BY <3>1
      <4>2. \A q \in failures : ~Plannable(q) /\ q \in Patch
        BY <2>a, <3>1, <4>1 DEF FirstInv, TypeOK
      <4> QED BY <3>2, <3>3, <3>4, <4>1, <4>2
    <3>7. copy' = file'
      BY <2>a, <3>1, <3>3 DEF FirstInv
    <3> QED BY <3>5, <3>6, <3>7 DEF FirstInv
  <2> QED BY <2>0, <2>a DEF TypeOK
<1>4. CASE UNCHANGED offVars
  BY <1>4 DEF offVars, FirstInv, Plannable
<1> QED BY <1>1, <1>2, <1>3, <1>4 DEF OffNext

\* The first round leaves the patched bytes at the places it has come to, the
\* file's bytes everywhere else, and says of each patch what it found.
LEMMA ApplyPreserved ==
  TypeOK /\ TurnInv /\ FirstInv /\ ApplyInv /\ ResultInv /\ [OffNext]_offVars
    => ApplyInv'
<1> SUFFICES ASSUME TypeOK, TurnInv, FirstInv, ApplyInv, ResultInv,
                    [OffNext]_offVars
             PROVE  ApplyInv'
  OBVIOUS
<1>1. CASE Refuse \/ Map \/ Plan \/ PlanFails \/ ReadFails \/ WriteFails
           \/ Unplanned \/ Again \/ Finish
  BY <1>1 DEF Refuse, Map, Plan, PlanFails, ReadFails, WriteFails, Unplanned,
     Again, Finish, End, Stop, Planned, ApplyInv
<1>2. CASE AllPlanned
  <2>1. CASE pc' = "done" \/ round' = 2
    BY <2>1 DEF ApplyInv
  <2>2. CASE pc' # "done" /\ round' # 2
    <3>1. /\ pc = "plan" /\ turn \notin DOMAIN Order /\ round = 1
          /\ failures = {} /\ (known => \A p \in Patch : AtKnown(p))
          /\ BeginApplying
      BY <1>2, <2>2 DEF AllPlanned, End, Stop, BeginApplying
    <3>2. /\ turn' = 1 /\ write' = 1 /\ changed' = FALSE
          /\ UNCHANGED <<file, leadsTo, known, copy, prepared, state>>
      BY <3>1 DEF BeginApplying, inputVars
    <3>3. copy = file
      BY <3>1 DEF FirstInv
    <3>4. ASSUME NEW p \in Patch PROVE Sound(p) /\ prepared[p] = leadsTo[p]
      <4>1. PICK i \in DOMAIN Order : Order[i] = p
        BY OrderFacts
      <4>2. i \in 1..(turn - 1)
        BY <3>1, OrderFacts DEF TurnInv
      <4>3. Plannable(p) /\ prepared[p] = leadsTo[p]
        BY <3>1, <4>1, <4>2 DEF FirstInv
      <4> QED BY <3>1, <3>3, <4>3, PlannableLeads DEF Sound, AtKnown
    <3>5. \A t \in Place : ~Written(t)'
      BY <3>2 DEF Written
    <3>6. ChangedFits'
      BY <3>2 DEF ChangedFits
    <3>7. \A p \in Patch : Sound(p)' /\ prepared'[p] = leadsTo'[p]
      BY <3>2, <3>4 DEF Sound, Leads
    <3> QED BY <3>2, <3>3, <3>5, <3>6, <3>7 DEF ApplyInv
  <2> QED BY <2>1, <2>2
<1>3. CASE Write
  <2>1. CASE round = 2
    BY <1>3, <2>1 DEF Write, ApplyInv
  <2>2. CASE round = 1
    <3> DEFINE here == leadsTo[Now][write]
    <3>1. /\ pc = "apply" /\ turn \in DOMAIN Order
          /\ write \in DOMAIN prepared[Now]
          /\ changed' = Changed(changed)
          /\ copy' = [copy EXCEPT ![prepared[Now][write]] = "patched"]
          /\ write' = write + 1
          /\ UNCHANGED <<file, leadsTo, known, turn, prepared, state>>
      BY <1>3 DEF Write, inputVars
    <3>2. Now \in Patch /\ prepared[Now] = leadsTo[Now]
      BY <2>2, <3>1, NowFacts DEF ApplyInv
    <3>3. write \in DOMAIN leadsTo[Now] /\ here \in Place /\ here \in Leads(Now)
          /\ copy' = [copy EXCEPT ![here] = "patched"]
          /\ write \in Nat
      BY <3>1, <3>2, PlanFacts DEF Leads, TypeOK
    <3>4. /\ \A p \in Patch : Sound(p) /\ prepared[p] = leadsTo[p]
          /\ \A t \in Place :
               copy[t] = IF Written(t) THEN "patched" ELSE file[t]
          /\ \A i \in 1..(turn - 1) : Told(Order[i])
          /\ ChangedFits
      BY <2>2, <3>1 DEF ApplyInv
    <3>5. Now' = Now
      BY <3>1 DEF Now
    <3>6. \A k \in DOMAIN leadsTo[Now] :
            k \in 1..write <=> k \in 1..(write - 1) \/ k = write
      BY <3>2, <3>3, PlanFacts
    <3>7. ASSUME NEW t \in Place PROVE Written(t)' <=> Written(t) \/ t = here
      <4>1. \A i : Leads(Order[i])' = Leads(Order[i])
        BY <3>1 DEF Leads
      <4> QED BY <3>1, <3>3, <3>5, <3>6, <4>1 DEF Written, Leads
    <3>8. ASSUME NEW t \in Place
          PROVE  copy'[t] = IF Written(t)' THEN "patched" ELSE file'[t]
      BY <3>1, <3>3, <3>4, <3>7 DEF TypeOK
    <3>9. changed' = (changed \/ copy[here] # "patched")
      BY <3>1, <3>2 DEF Changed
    <3>10. ASSUME file[here] = "original", Alone(Now, here) PROVE changed'
      <4>1. CASE Written(here)
        <5>1. ASSUME NEW i \in 1..(turn - 1), here \in Leads(Order[i])
              PROVE  FALSE
          <6>1. i \in DOMAIN Order /\ i # turn
            BY <3>1, OrderFacts
          <6>2. Order[i] \in Patch \ {Now}
            BY <3>1, <6>1, OrderFacts DEF Now
          <6> QED BY <3>10, <5>1, <6>2 DEF Alone
        <5>2. PICK k \in 1..(write - 1) :
                k \in DOMAIN leadsTo[Now] /\ leadsTo[Now][k] = here
          BY <4>1, <5>1 DEF Written
        <5>3. changed
          BY <3>4, <3>10, <5>2 DEF ChangedFits
        <5> QED BY <3>9, <5>3
      <4>2. CASE ~Written(here)
        BY <3>3, <3>4, <3>9, <3>10, <4>2
      <4> QED BY <4>1, <4>2
    <3>11. ASSUME \A t \in Leads(Now) : file[t] = "patched" PROVE ~changed'
      <4>1. ~changed
        BY <3>4, <3>11 DEF ChangedFits
      <4>2. copy[here] = "patched"
        BY <3>3, <3>4, <3>11
      <4> QED BY <3>9, <4>1, <4>2
    <3>12. ASSUME NEW k \in 1..(write' - 1), k \in DOMAIN leadsTo[Now],
                  file[leadsTo[Now][k]] = "original",
                  Alone(Now, leadsTo[Now][k])
           PROVE  changed'
      <4>1. CASE k = write
        BY <3>10, <3>12, <4>1
      <4>2. CASE k # write
        <5>1. k \in 1..(write - 1)
          BY <3>1, <3>3, <3>6, <3>12, <4>2
        <5>2. changed
          BY <3>4, <3>12, <5>1 DEF ChangedFits
        <5> QED BY <3>9, <5>2
      <4> QED BY <4>1, <4>2
    <3>13. ChangedFits'
      BY <3>1, <3>5, <3>11, <3>12 DEF ChangedFits, Alone, Leads
    <3>14. \A p \in Patch : Sound(p)' /\ prepared'[p] = leadsTo'[p]
      BY <3>1, <3>4 DEF Sound, Leads
    <3>15. \A i \in 1..(turn' - 1) : Told(Order[i])'
      BY <3>1, <3>4 DEF Told, Leads, Alone
    <3> QED BY <3>8, <3>13, <3>14, <3>15 DEF ApplyInv
  <2> QED BY <2>1, <2>2 DEF TypeOK
<1>4. CASE Applied
  <2>1. CASE round = 2 \/ pc' = "done"
    BY <1>4, <2>1 DEF Applied, End, Stop, ApplyInv
  <2>2. CASE round = 1 /\ pc' # "done"
    <3>1. /\ pc = "apply" /\ turn \in DOMAIN Order
          /\ write \notin DOMAIN prepared[Now]
          /\ state' = [state EXCEPT ![Now] =
                         IF changed THEN "AppliedToCopy" ELSE "AlreadyPresent"]
          /\ turn' = turn + 1 /\ write' = 1 /\ changed' = FALSE
          /\ UNCHANGED <<file, leadsTo, known, copy, prepared>>
      BY <1>4, <2>2 DEF Applied, End, Stop, inputVars
    <3>2. Now \in Patch /\ turn \in Nat
      BY <3>1, NowFacts DEF TypeOK
    <3>3. /\ \A p \in Patch : Sound(p) /\ prepared[p] = leadsTo[p]
          /\ \A t \in Place :
               copy[t] = IF Written(t) THEN "patched" ELSE file[t]
          /\ \A i \in 1..(turn - 1) : Told(Order[i])
          /\ ChangedFits
      BY <2>2, <3>1 DEF ApplyInv
    <3>4. \A k \in DOMAIN leadsTo[Now] : k \in 1..(write - 1)
      <4>1. write \notin DOMAIN leadsTo[Now] /\ write \in Nat /\ write # 0
        BY <3>1, <3>2, <3>3 DEF TypeOK, TurnInv
      <4>2. Len(leadsTo[Now]) \in Nat
            /\ DOMAIN leadsTo[Now] = 1..Len(leadsTo[Now])
        BY <3>2, PlanFacts
      <4>3. write > Len(leadsTo[Now])
        BY <4>1, <4>2
      <4> QED BY <4>1, <4>2, <4>3
    <3>5. \A i \in 1..turn : i \in 1..(turn - 1) \/ i = turn
      BY <3>2
    <3>6. 1..(turn - 1) \subseteq 1..turn /\ turn \in 1..turn
      BY <3>1, <3>2, OrderFacts
    <3>7. ASSUME NEW t \in Place PROVE Written(t)' <=> Written(t)
      <4>1. \A i : Leads(Order[i])' = Leads(Order[i])
        BY <3>1 DEF Leads
      <4>2. Written(t)' <=> \E i \in 1..turn : t \in Leads(Order[i])
        BY <3>1, <3>2, <4>1 DEF Written
      <4>3. t \in Leads(Now) <=>
              \E k \in 1..(write - 1) :
                k \in DOMAIN leadsTo[Now] /\ leadsTo[Now][k] = t
        BY <3>4 DEF Leads
      <4> QED BY <3>1, <3>5, <3>6, <4>2, <4>3 DEF Written, Now
    <3>8. ASSUME NEW p \in Patch, p = Now PROVE Told(p)'
      <4>1. ASSUME NEW t \in Leads(Now), file[t] = "original", Alone(Now, t)
            PROVE  state'[Now] = "AppliedToCopy"
        <5>1. PICK k \in DOMAIN leadsTo[Now] : leadsTo[Now][k] = t
          BY <4>1 DEF Leads
        <5>2. changed
          BY <3>3, <3>4, <4>1, <5>1 DEF ChangedFits
        <5> QED BY <3>1, <3>2, <5>2 DEF TypeOK
      <4>2. ASSUME \A t \in Leads(Now) : file[t] = "patched"
            PROVE  state'[Now] = "AlreadyPresent"
        <5>1. ~changed
          BY <3>3, <4>2 DEF ChangedFits
        <5> QED BY <3>1, <3>2, <5>1 DEF TypeOK
      <4>3. \A q : Leads(q)' = Leads(q)
        BY <3>1 DEF Leads
      <4> QED BY <3>1, <3>8, <4>1, <4>2, <4>3 DEF Told, Alone
    <3>9. ASSUME NEW i \in 1..(turn' - 1) PROVE Told(Order[i])'
      <4>1. CASE i = turn
        BY <3>2, <3>8, <4>1 DEF Now
      <4>2. CASE i # turn
        <5>1. i \in 1..(turn - 1)
          BY <3>1, <3>2, <3>9, <4>2
        <5>2. i \in DOMAIN Order
          BY <3>1, <3>2, <5>1, OrderFacts
        <5>3. Order[i] # Now /\ Order[i] \in Patch
          BY <3>1, <4>2, <5>2, OrderFacts DEF Now
        <5>4. state'[Order[i]] = state[Order[i]]
          BY <3>1, <5>3 DEF TypeOK
        <5>5. Told(Order[i])
          BY <3>3, <5>1
        <5>6. \A q : Leads(q)' = Leads(q)
          BY <3>1 DEF Leads
        <5> QED BY <3>1, <5>4, <5>5, <5>6 DEF Told, Alone
      <4> QED BY <4>1, <4>2
    <3>10. ChangedFits'
      BY <3>1 DEF ChangedFits
    <3>11. \A p \in Patch : Sound(p)' /\ prepared'[p] = leadsTo'[p]
      BY <3>1, <3>3 DEF Sound, Leads
    <3> QED BY <3>1, <3>3, <3>7, <3>9, <3>10, <3>11 DEF ApplyInv
  <2> QED BY <2>1, <2>2 DEF TypeOK
<1>5. CASE UNCHANGED offVars
  BY <1>5 DEF offVars, ApplyInv, Sound, Told, Written, ChangedFits, Leads,
     Alone, Now
<1> QED BY <1>1, <1>2, <1>3, <1>4, <1>5 DEF OffNext

\* After the first round nothing is left to be done: every place has its patched
\* bytes, so that only a refused query can keep a patch from its plan.
LEMMA AgainPreserved ==
  TypeOK /\ TurnInv /\ ApplyInv /\ AgainInv /\ [OffNext]_offVars => AgainInv'
<1> SUFFICES ASSUME TypeOK, TurnInv, ApplyInv, AgainInv, [OffNext]_offVars
             PROVE  AgainInv'
  OBVIOUS
<1>1. ASSUME UNCHANGED <<inputVars, state>>
      PROVE  \A p \in Patch : /\ Sound(p)' = Sound(p) /\ Told(p)' = Told(p)
                              /\ Leads(p)' = Leads(p)
  BY <1>1 DEF inputVars, Sound, Told, Alone, Leads
<1>2. ASSUME UNCHANGED <<inputVars, state, copy, prepared, refused, round>>,
             \/ pc' # "apply"
             \/ UNCHANGED <<pc, changed, turn>>
      PROVE  AgainInv'
  BY <1>1, <1>2 DEF AgainInv, inputVars
<1>3. CASE Refuse \/ Map \/ Unplanned \/ Finish
  BY <1>2, <1>3 DEF Refuse, Map, Unplanned, Finish, End, Stop
<1>4. CASE ReadFails \/ WriteFails
  <2>1. /\ UNCHANGED <<inputVars, state, copy, prepared, round>>
        /\ refused' /\ pc' = "done"
    BY <1>4 DEF ReadFails, WriteFails, Stop
  <2> QED BY <1>1, <2>1 DEF AgainInv, inputVars
<1>5. CASE Plan \/ PlanFails
  <2>1. PICK failed \in BOOLEAN :
          /\ turn \in DOMAIN Order /\ pc = "plan" /\ Planned(failed)
          /\ \/ failed = ~Plannable(Now) /\ UNCHANGED refused
             \/ failed /\ refused'
    BY <1>5 DEF Plan, PlanFails
  <2>2. /\ UNCHANGED <<inputVars, state, copy, round, pc>>
        /\ prepared' = [prepared EXCEPT ![Now] =
                           IF failed THEN <<>> ELSE leadsTo[Now]]
    BY <2>1 DEF Planned
  <2>3. Now \in Patch
    BY <2>1, NowFacts
  <2>4. SUFFICES ASSUME round = 2 PROVE AgainInv'
    BY <2>2 DEF AgainInv
  <2>5. Plannable(Now)
    BY <2>3, <2>4 DEF AgainInv, Sound, Plannable, Leads
  <2>6. failed => refused'
    BY <2>1, <2>5
  <2>7. refused => refused'
    BY <2>1
  <2>8. ASSUME NEW p \in Patch
        PROVE  prepared'[p] = leadsTo[p] \/ (prepared'[p] = <<>> /\ refused')
    <3>1. CASE p = Now
      BY <2>2, <2>6, <3>1 DEF TypeOK
    <3>2. CASE p # Now
      BY <2>2, <2>4, <2>7, <3>2 DEF TypeOK, AgainInv
    <3> QED BY <3>1, <3>2
  <2>9. UNCHANGED leadsTo
    BY <2>2 DEF inputVars
  <2>10. \A p \in Patch : /\ Sound(p)' /\ Told(p)'
                          /\ \A t \in Leads(p)' : copy'[t] = "patched"
    BY <1>1, <2>2, <2>4 DEF AgainInv
  <2>11. pc' # "apply"
    BY <2>1, <2>2
  <2> QED BY <2>8, <2>9, <2>10, <2>11 DEF AgainInv
<1>6. CASE AllPlanned
  <2>1. CASE pc' = "done"
    BY <1>2, <1>6, <2>1 DEF AllPlanned, BeginApplying, End, Stop
  <2>2. CASE BeginApplying
    <3>1. /\ UNCHANGED <<inputVars, state, copy, prepared, refused, round>>
          /\ turn' = 1 /\ changed' = FALSE
      BY <2>2 DEF BeginApplying
    <3> QED BY <1>1, <3>1 DEF AgainInv, inputVars
  <2> QED BY <1>6, <2>1, <2>2 DEF AllPlanned, End, Stop
<1>7. CASE Write
  <2>1. /\ UNCHANGED <<inputVars, state, prepared, refused, round, pc, turn>>
        /\ turn \in DOMAIN Order /\ pc = "apply"
        /\ write \in DOMAIN prepared[Now]
        /\ changed' = Changed(changed)
        /\ copy' = [copy EXCEPT ![prepared[Now][write]] = "patched"]
    BY <1>7 DEF Write
  <2>2. SUFFICES ASSUME round = 2 PROVE AgainInv'
    BY <2>1 DEF AgainInv
  <2>3. Now \in Patch
    BY <2>1, NowFacts
  <2>4. prepared[Now] = leadsTo[Now]
    BY <2>1, <2>2, <2>3 DEF AgainInv
  <2>5. copy[prepared[Now][write]] = "patched"
    BY <2>1, <2>2, <2>3, <2>4 DEF AgainInv, Leads
  <2>6. changed' = changed
    BY <2>1, <2>5 DEF Changed, TypeOK
  <2>7. copy' = copy
    BY <2>1, <2>5 DEF TypeOK
  <2> QED BY <1>2, <2>1, <2>6, <2>7
<1>8. CASE Applied
  <2>1. CASE pc' = "done"
    BY <1>2, <1>8, <2>1 DEF Applied, End, Stop
  <2>2. CASE pc' # "done" /\ round = 2
    <3>1. /\ UNCHANGED <<inputVars, state, copy, prepared, refused, round, pc>>
          /\ turn \in DOMAIN Order /\ prepared[Now] # <<>> /\ pc = "apply"
          /\ turn' = turn + 1 /\ changed' = FALSE
      BY <1>8, <2>2 DEF Applied, End, Stop
    <3>2. \A i \in 1..(turn' - 1) : i \in 1..(turn - 1) \/ i = turn
      BY <3>1 DEF TypeOK
    <3>3. \A i \in 1..(turn' - 1) : prepared'[Order[i]] # <<>>
      BY <2>2, <3>1, <3>2 DEF AgainInv, Now
    <3> QED BY <1>1, <2>2, <3>1, <3>3 DEF AgainInv, inputVars
  <2>3. CASE round = 1
    BY <1>8, <2>3 DEF Applied, End, Stop, AgainInv
  <2> QED BY <2>1, <2>2, <2>3 DEF TypeOK
<1>9. CASE Again
  <2>1. /\ UNCHANGED <<inputVars, state, copy, prepared, refused>>
        /\ pc = "apply" /\ round = 1 /\ turn \notin DOMAIN Order
        /\ pc' = "plan"
    BY <1>9 DEF Again
  <2>2. ASSUME NEW p \in Patch
        PROVE  /\ Sound(p) /\ Told(p) /\ prepared[p] = leadsTo[p]
               /\ \A t \in Leads(p) : copy[t] = "patched"
    <3>1. PICK i \in DOMAIN Order : Order[i] = p
      BY OrderFacts
    <3>2. i \in 1..(turn - 1)
      BY <2>1, OrderFacts DEF TurnInv
    <3>3. \A t \in Leads(p) : Written(t) /\ t \in Place
      BY <3>1, <3>2, PlanFacts DEF Written
    <3> QED BY <2>1, <3>1, <3>2, <3>3 DEF ApplyInv
  <2> QED BY <1>1, <2>1, <2>2 DEF AgainInv, inputVars
<1>10. CASE UNCHANGED offVars
  BY <1>2, <1>10 DEF offVars, inputVars
<1> QED BY <1>3, <1>4, <1>5, <1>6, <1>7, <1>8, <1>9, <1>10 DEF OffNext

\* What is refused is refused before a byte is written, and the second round
\* refuses nothing by itself.
LEMMA ResultPreserved ==
  TypeOK /\ TurnInv /\ FirstInv /\ ApplyInv /\ AgainInv /\ ResultInv
      /\ [OffNext]_offVars
    => ResultInv'
<1> SUFFICES ASSUME TypeOK, TurnInv, FirstInv, ApplyInv, AgainInv, ResultInv,
                    [OffNext]_offVars
             PROVE  ResultInv'
  OBVIOUS
<1> USE DEF FailuresFirst, OnceIsEnough
<1>1. ASSUME result' = "none" PROVE ResultInv'
  BY <1>1 DEF ResultInv
<1>2. CASE Map \/ Plan \/ PlanFails \/ Write \/ Again
  <2>1. result = "none" /\ result' = result
    BY <1>2 DEF Map, Plan, PlanFails, Write, Again, Planned, ResultInv
  <2> QED BY <1>1, <2>1
<1>3. CASE Refuse \/ ReadFails \/ WriteFails
  <2>1. pc' = "done" /\ result' \in {"unreadable", "applyFailed"}
    BY <1>3 DEF Refuse, ReadFails, WriteFails, End, Stop
  <2> QED BY <2>1 DEF ResultInv
<1>4. CASE AllPlanned
  <2>1. CASE BeginApplying
    BY <1>1, <1>4, <2>1 DEF AllPlanned, BeginApplying, ResultInv
  <2>2. CASE ~BeginApplying
    <3>1. /\ round = 1 /\ pc = "plan" /\ turn \notin DOMAIN Order
          /\ pc' = "done" /\ result' \in {"planFailed", "unknownRvas"}
          /\ UNCHANGED <<file, leadsTo, copy, failures, refused>>
      BY <1>4, <2>2 DEF AllPlanned, End, Stop, inputVars
    <3>2. copy = file /\ (~refused => \A p \in failures : ~Plannable(p))
      BY <3>1 DEF FirstInv
    <3>3. {p \in Patch : ~Plannable(p)} \subseteq failures
      <4> SUFFICES ASSUME NEW p \in Patch, ~Plannable(p) PROVE p \in failures
        OBVIOUS
      <4>1. PICK i \in DOMAIN Order : Order[i] = p
        BY OrderFacts
      <4>2. i \in 1..(turn - 1)
        BY <3>1, OrderFacts DEF TurnInv
      <4> QED BY <3>1, <4>1, <4>2 DEF FirstInv
    <3>4. failures \subseteq Patch
      BY DEF TypeOK
    <3>5. \A p : Plannable(p)' = Plannable(p)
      BY <3>1 DEF Plannable
    <3>6. {p \in Patch : ~Plannable(p)}' \subseteq failures'
      BY <3>1, <3>3, <3>5
    <3>7. ~refused' => failures' = {p \in Patch : ~Plannable(p)}'
      BY <3>1, <3>2, <3>3, <3>4, <3>5
    <3> QED BY <3>1, <3>2, <3>6, <3>7 DEF ResultInv
  <2> QED BY <2>1, <2>2
<1>5. CASE Unplanned
  <2>1. /\ pc = "apply" /\ turn \in DOMAIN Order /\ prepared[Now] = <<>>
        /\ pc' = "done" /\ result' = "replanFailed" /\ refused' = refused
    BY <1>5 DEF Unplanned, End, Stop
  <2>2. Now \in Patch
    BY <2>1, NowFacts
  <2>3. CASE round = 1
    BY <2>1, <2>2, <2>3 DEF ApplyInv, Sound
  <2>4. CASE round = 2
    <3>1. leadsTo[Now] # <<>>
      BY <2>2, <2>4 DEF AgainInv, Sound
    <3>2. refused
      BY <2>1, <2>2, <2>4, <3>1 DEF AgainInv
    <3> QED BY <2>1, <3>2 DEF ResultInv
  <2> QED BY <2>3, <2>4 DEF TypeOK
<1>6. CASE Applied
  <2>1. CASE End("notIdempotent")
    BY <1>6, <2>1 DEF Applied, AgainInv, End, Stop
  <2>2. CASE result' = result
    BY <1>1, <1>6, <2>2 DEF Applied, ResultInv
  <2> QED BY <1>6, <2>1, <2>2 DEF Applied
<1>7. CASE Finish
  <2>1. /\ pc = "apply" /\ turn \notin DOMAIN Order /\ round = 2
        /\ pc' = "done" /\ result' = "valid" /\ UNCHANGED <<round, prepared>>
    BY <1>7 DEF Finish, End, Stop
  <2>2. ASSUME NEW p \in Patch PROVE prepared[p] # <<>>
    <3>1. PICK i \in DOMAIN Order : Order[i] = p
      BY OrderFacts
    <3>2. i \in 1..(turn - 1)
      BY <2>1, OrderFacts DEF TurnInv
    <3> QED BY <2>1, <3>1, <3>2 DEF AgainInv
  <2> QED BY <2>1, <2>2 DEF ResultInv
<1>8. CASE UNCHANGED offVars
  BY <1>8 DEF offVars, ResultInv, Plannable
<1> QED BY <1>2, <1>3, <1>4, <1>5, <1>6, <1>7, <1>8 DEF OffNext

\* A file that is valid after the second round has everything the report says.
LEMMA ValidIsPatched ==
  TypeOK /\ AgainInv /\ ResultInv => ValidMeansPatchable
<1> SUFFICES ASSUME TypeOK, AgainInv, ResultInv, result = "valid",
                    NEW p \in Patch
             PROVE  /\ leadsTo[p] # <<>> /\ prepared[p] = leadsTo[p]
                    /\ known /\ Known[p] # <<>> => leadsTo[p] = Known[p]
                    /\ \A t \in Targets(p) :
                         file[t] # "other" /\ copy[t] = "patched"
                    /\ (\E t \in Targets(p) : file[t] = "original"
                          /\ \A q \in Patch \ {p} : t \notin Targets(q))
                         => state[p] = "AppliedToCopy"
                    /\ (\A t \in Targets(p) : file[t] = "patched")
                         => state[p] = "AlreadyPresent"
  BY DEF ValidMeansPatchable
<1>1. round = 2 /\ \A q \in Patch : prepared[q] # <<>>
  BY DEF ResultInv
<1>2. \A q \in Patch : prepared[q] = leadsTo[q]
  BY <1>1 DEF AgainInv
<1>3. \A q \in Patch : Targets(q) = Leads(q)
  BY <1>2 DEF Targets, Leads
<1>4. /\ Sound(p) /\ Told(p)
      /\ \A t \in Leads(p) : copy[t] = "patched"
  BY <1>1 DEF AgainInv
<1> QED BY <1>2, <1>3, <1>4 DEF Sound, Told, Alone
-----------------------------------------------------------------------------
(* The theorems. *)

\* The invariant holds before the file is laid out.
LEMMA InitiallyTrue == OffInit => TypeOK /\ OffInv
<1> SUFFICES ASSUME OffInit PROVE TypeOK /\ OffInv
  OBVIOUS
<1>1. TypeOK
  <2>1. prepared \in [Patch -> Plans]
    BY DEF OffInit, Plans
  <2>2. failures \subseteq Patch /\ changed \in BOOLEAN /\ refused \in BOOLEAN
    BY DEF OffInit
  <2>3. state \in [Patch -> {"none", "AppliedToCopy", "AlreadyPresent"}]
    BY DEF OffInit
  <2>4. leadsTo \in [Patch -> Plans] /\ file \in [Place -> Contents]
        /\ copy \in [Place -> Contents] /\ known \in BOOLEAN
    BY DEF OffInit, Plans
  <2>5. turn \in Nat /\ write \in Nat /\ round \in {1, 2}
        /\ pc \in {"map", "plan", "apply", "done"} /\ result \in Results
    BY DEF OffInit, Results
  <2> QED BY <2>1, <2>2, <2>3, <2>4, <2>5 DEF TypeOK
<1>2. TurnInv
  BY OrderFacts DEF OffInit, TurnInv
<1>3. FirstInv
  BY DEF OffInit, FirstInv
<1>4. ApplyInv /\ AgainInv
  BY DEF OffInit, ApplyInv, AgainInv
<1>5. ResultInv
  BY DEF OffInit, ResultInv, FailuresFirst, OnceIsEnough
<1> QED BY <1>1, <1>2, <1>3, <1>4, <1>5 DEF OffInv

\* The invariant is inductive.
LEMMA Inductive == OffSpec => [](TypeOK /\ OffInv)
<1>1. OffInit => TypeOK /\ OffInv
  BY InitiallyTrue
<1>2. TypeOK /\ OffInv /\ [OffNext]_offVars => (TypeOK /\ OffInv)'
  BY TypePreserved, TurnPreserved, FirstPreserved, ApplyPreserved,
     AgainPreserved, ResultPreserved DEF OffInv
<1> QED BY <1>1, <1>2, PTL DEF OffSpec

\* validate_dunia_file keeps its data well formed: a plan is one of the plans
\* there are, a state one of OfflinePatchState.
THEOREM TypeCorrect == OffSpec => []TypeOK
  BY Inductive, PTL

\* A file declared valid can be patched, at the known places of its build, and
\* the states reported say what the file holds.
THEOREM ValidMeansPatchableHolds == OffSpec => []ValidMeansPatchable
<1>1. TypeOK /\ OffInv => ValidMeansPatchable
  BY ValidIsPatched DEF OffInv
<1> QED BY <1>1, Inductive, PTL

\* The plans are all made, and all failures noted, before a byte of the copy is
\* written.
THEOREM FailuresFirstHolds == OffSpec => []FailuresFirst
<1>1. OffInv => FailuresFirst
  BY DEF OffInv, ResultInv
<1> QED BY <1>1, Inductive, PTL

\* The second round finds everything in place; only the system can make it
\* fail.
THEOREM OnceIsEnoughHolds == OffSpec => []OnceIsEnough
<1>1. OffInv => OnceIsEnough
  BY DEF OffInv, ResultInv
<1> QED BY <1>1, Inductive, PTL
=============================================================================
