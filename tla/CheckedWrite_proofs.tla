------------------------ MODULE CheckedWrite_proofs ------------------------
(***************************************************************************)
(* Proofs about write_checked, for any targets, pages and protections.     *)
(***************************************************************************)
EXTENDS CheckedWrite, TLAPS

\* The steps of write_checked and those of others, with what each leaves alone:
\* TypeOK is preserved by each.
LEMMA TypePreserved == TypeOK /\ [WriteNext]_writeVars => TypeOK'
<1> SUFFICES ASSUME TypeOK, [WriteNext]_writeVars PROVE TypeOK'
  OBVIOUS
<1> USE DEF TypeOK, Results, Steps
<1>1. ASSUME NEW t \in Target, Apply(t) \/ Rollback(t) PROVE TypeOK'
  <2>1. Len(Span[t]) \in Nat \ {0}
    BY SpanAssumption
  <2>2. \E from, to : /\ Call(t, from, to)
                      /\ \/ from = Expected[t] /\ to = Replacement[t]
                         \/ from = Replacement[t] /\ to = Expected[t]
    BY <1>1 DEF Apply, Rollback
  <2>3. cursor' \in 1..Len(Span[address'])
    BY <2>1, <2>2 DEF Call
  <2>4. \/ /\ expected' = Expected[address']
           /\ replacement' = Replacement[address']
        \/ /\ expected' = Replacement[address']
           /\ replacement' = Expected[address']
    BY <2>2 DEF Call
  <2> QED BY <2>2, <2>3, <2>4 DEF Call
<1>2. CASE Query
  BY <1>2 DEF Query, Return, GoTo, historyVars
<1>3. CASE Read
  <2>1. UNCHANGED <<memory, protection, address, expected, replacement, cursor,
                    writable, old, restoreError, wrote, meddled, entry>>
        /\ stale' = FALSE
    BY <1>3 DEF Read, Return, GoTo
  <2>2. pc' \in {"region", "returned"} /\ result' \in Results \cup {"none"}
    BY <1>3 DEF Read, Return, GoTo
  <2> QED BY <2>1, <2>2
<1>4. CASE ReadFaults \/ CopyFaults
  BY <1>4 DEF ReadFaults, CopyFaults, Fault, GoTo, historyVars
<1>5. CASE Region
  BY <1>5 DEF Region, Return, WritableProtection, historyVars
<1>6. CASE Unprotect
  <2>1. FirstPage(address) \in Page
    BY SpanAssumption DEF FirstPage
  <2>2. pc = "unprotect" => writable \in Protection
    BY DEF Protection, Readable
  <2>3. protection' \in [Page -> Protection]
    BY <1>6, <2>2 DEF Unprotect, VirtualProtect
  <2>4. old' \in Protection \cup {"none"} /\ (pc' = "copy" => old' # "none")
    <3>1. protection[FirstPage(address)] \in Protection
      BY <2>1
    <3>2. "none" \notin Protection
      BY DEF Protection, Readable
    <3> QED BY <1>6, <3>1, <3>2 DEF Unprotect, Return
  <2> QED BY <1>6, <2>3, <2>4 DEF Unprotect, Return, historyVars
<1>7. CASE Copy
  BY <1>7, BytesAssumption DEF Copy, GoTo
<1>8. CASE Restore
  BY <1>8 DEF Restore, VirtualProtect, historyVars
<1>9. CASE Flush
  BY <1>9 DEF Flush, Return, GoTo, historyVars
<1>10. CASE Verify
  BY <1>10 DEF Verify, Return, GoTo
<1>11. CASE Accept
  BY <1>11 DEF Accept, GoTo, historyVars
<1>12. CASE ForeignStep
  <2>1. ASSUME NEW t \in Target, NEW b \in Bytes, ForeignWrite(t, b)
        PROVE  TypeOK'
    BY <2>1 DEF ForeignWrite, callVars
  <2>2. ASSUME NEW p \in Page, NEW s \in PageStates, ForeignProtect(p, s)
        PROVE  TypeOK'
    <3>1. s \in Protection
      BY PageStatesAssumption
    <3> QED BY <2>2, <3>1 DEF ForeignProtect, callVars
  <2> QED BY <1>12, <2>1, <2>2 DEF ForeignStep
<1>13. CASE UNCHANGED writeVars
  BY <1>13 DEF writeVars, callVars, historyVars
<1> QED BY <1>1, <1>2, <1>3, <1>4, <1>5, <1>6, <1>7, <1>8, <1>9, <1>10, <1>11,
           <1>12, <1>13 DEF WriteNext, WriteStep

\* A state that is typed stays typed, whatever the system calls answer and
\* whatever other threads do.
THEOREM TypeCorrect == WriteSpec => []TypeOK
<1>1. WriteInit => TypeOK
  <2> SUFFICES ASSUME WriteInit PROVE TypeOK
    OBVIOUS
  <2>1. address \in Target
    BY TargetAssumption DEF WriteInit
  <2>2. Len(Span[address]) \in Nat \ {0}
    BY <2>1, SpanAssumption
  <2>3. protection \in [Page -> Protection]
    BY PageStatesAssumption DEF WriteInit
  <2>4. cursor \in 1..Len(Span[address])
    BY <2>2 DEF WriteInit
  <2> QED BY <2>1, <2>3, <2>4 DEF WriteInit, TypeOK
<1> QED BY <1>1, TypePreserved, PTL DEF WriteSpec
-----------------------------------------------------------------------------
(* The bytes. *)

BeforeCopy == {"query", "read", "region", "unprotect", "copy"}
Granted    == {"region", "unprotect", "copy"}
AfterCopy  == {"restore", "flush", "verifyQuery", "verifyRead"}

\* Once the guard has passed, the target holds the expected bytes until the copy
\* and the replacement after it, unless others have stored to it.
BytesInv ==
  /\ pc \in BeforeCopy => ~wrote
  /\ pc \in AfterCopy => wrote
  /\ pc \in Granted => memory[address] = expected \/ stale
  /\ pc \in AfterCopy => memory[address] = replacement \/ stale
  /\ HonestResult

\* Every step keeps what is known of the bytes.
LEMMA BytesPreserved ==
  TypeOK /\ BytesInv /\ [WriteNext]_writeVars => BytesInv'
<1> SUFFICES ASSUME TypeOK, BytesInv, [WriteNext]_writeVars PROVE BytesInv'
  OBVIOUS
<1> USE DEF BytesInv, HonestResult, BeforeCopy, Granted, AfterCopy
<1>1. ASSUME NEW t \in Target, Apply(t) \/ Rollback(t) PROVE BytesInv'
  BY <1>1 DEF Apply, Rollback, Call
<1>2. CASE Query
  BY <1>2 DEF Query, Return, GoTo, historyVars
<1>3. CASE Read
  BY <1>3 DEF Read, Return, GoTo
<1>4. CASE ReadFaults \/ CopyFaults
  BY <1>4 DEF ReadFaults, CopyFaults, Fault, GoTo, historyVars
<1>5. CASE Region
  BY <1>5 DEF Region, Return, historyVars
<1>6. CASE Unprotect
  BY <1>6 DEF Unprotect, Return, historyVars
<1>7. CASE Copy
  <2>1. memory'[address] = replacement
    BY <1>7 DEF Copy, TypeOK
  <2> QED BY <1>7, <2>1 DEF Copy, GoTo
<1>8. CASE Restore
  BY <1>8 DEF Restore, historyVars
<1>9. CASE Flush
  BY <1>9 DEF Flush, Return, GoTo, historyVars
<1>10. CASE Verify
  BY <1>10 DEF Verify, Return, GoTo
<1>11. CASE Accept
  BY <1>11 DEF Accept, GoTo, historyVars
<1>12. CASE ForeignStep
  <2>1. ASSUME NEW t \in Target, NEW b \in Bytes, ForeignWrite(t, b)
        PROVE  BytesInv'
    <3>1. t # address => memory'[address] = memory[address]
      BY <2>1 DEF ForeignWrite, TypeOK
    <3> QED BY <2>1, <3>1 DEF ForeignWrite, callVars
  <2>2. ASSUME NEW p \in Page, NEW s \in PageStates, ForeignProtect(p, s)
        PROVE  BytesInv'
    BY <2>2 DEF ForeignProtect, callVars
  <2> QED BY <1>12, <2>1, <2>2 DEF ForeignStep
<1>13. CASE UNCHANGED writeVars
  BY <1>13 DEF writeVars, callVars, historyVars
<1> QED BY <1>1, <1>2, <1>3, <1>4, <1>5, <1>6, <1>7, <1>8, <1>9, <1>10, <1>11,
           <1>12, <1>13 DEF WriteNext, WriteStep

\* Both invariants together are inductive.
LEMMA BytesKnown == WriteSpec => [](TypeOK /\ BytesInv)
<1>1. WriteInit => BytesInv
  BY DEF WriteInit, BytesInv, BeforeCopy, Granted, AfterCopy, HonestResult
<1>2. WriteSpec => []BytesInv
  BY <1>1, BytesPreserved, TypeCorrect, PTL DEF WriteSpec
<1> QED BY <1>2, TypeCorrect, PTL

\* What write_checked returns is true of the bytes.
THEOREM HonestResultHolds == WriteSpec => []HonestResult
<1>1. BytesInv => HonestResult
  BY DEF BytesInv
<1> QED BY <1>1, BytesKnown, PTL

\* The guard holds: no bytes but the expected ones are overwritten, save those
\* stored by another thread between the comparison and the copy.
THEOREM GuardHolds == WriteSpec => NoBlindOverwrite
<1> DEFINE Guarded ==
      WriteStep =>
        \/ memory' = memory
        \/ /\ memory' = [memory EXCEPT ![address] = replacement]
           /\ memory[address] = expected \/ stale
<1>1. BytesInv /\ [WriteNext]_writeVars => [Guarded]_writeVars
  <2> SUFFICES ASSUME BytesInv, WriteStep PROVE Guarded
    OBVIOUS
  <2>1. CASE Copy
    BY <2>1 DEF Copy, BytesInv, Granted
  <2>2. CASE ~Copy
    <3>1. memory' = memory
      BY <2>2 DEF WriteStep, Query, Read, ReadFaults, CopyFaults, Fault, Region,
         Unprotect, Restore, Flush, Verify
    <3> QED BY <3>1
  <2> QED BY <2>1, <2>2
<1>2. [][Guarded]_writeVars => NoBlindOverwrite
  BY PTL DEF NoBlindOverwrite
<1> QED BY <1>1, <1>2, BytesKnown, PTL DEF WriteSpec
-----------------------------------------------------------------------------
(* The pages. *)

Untouched  == {"query", "read", "region", "unprotect"}
Checked    == {"read", "region", "unprotect"} \cup {"copy"} \cup AfterCopy
OneRegion  == {"unprotect", "copy"} \cup AfterCopy
Unlocked   == {"copy", "restore"}

AsFound    == \A p \in PagesOf(address) : protection[p] = entry[p]
AsWritable == \A p \in PagesOf(address) : protection[p] = writable

\* How the pages of the target stand to what the call found, as long as nobody
\* else touches them.  The check of the first step passes page by page; after
\* it, all of them are readable, and after the second they are one region, so
\* the protection VirtualProtect returned is right for each of them.
PagesInv ==
  ~meddled =>
    /\ pc # "crashed"
    /\ pc \in Untouched => AsFound
    /\ pc = "query" =>
         \A i \in 1..(cursor - 1) : protection[Span[address][i]] \in Readable
    /\ pc \in Checked => \A p \in PagesOf(address) : entry[p] \in Readable
    /\ pc \in OneRegion =>
         /\ \A p \in PagesOf(address) : entry[p] = entry[FirstPage(address)]
         /\ writable = WritableProtection(entry[FirstPage(address)])
    /\ pc \in Unlocked => AsWritable /\ old = entry[FirstPage(address)]
    /\ pc = "flush" => IF restoreError THEN AsWritable ELSE AsFound
    /\ pc \in {"verifyQuery", "verifyRead"} => AsFound
    /\ pc = "returned" =>
         IF result = "RestoreProtection"
           THEN \A p \in PagesOf(address) :
                  protection[p] = WritableProtection(entry[p])
           ELSE AsFound

\* The pages a target lies on: one or more, the first of them among them.
LEMMA Pages ==
  ASSUME NEW t \in Target
  PROVE  /\ FirstPage(t) \in PagesOf(t)
         /\ PagesOf(t) \subseteq Page
         /\ \A i \in 1..Len(Span[t]) : Span[t][i] \in PagesOf(t)
         /\ \A p \in PagesOf(t) : \E i \in 1..Len(Span[t]) : p = Span[t][i]
<1>1. Span[t] \in Seq(Page) /\ Len(Span[t]) \in Nat \ {0}
  BY SpanAssumption
<1> QED BY <1>1 DEF FirstPage, PagesOf

\* Writing to a page with the protection chosen for it cannot fault, and leaves
\* executable code executable.
LEMMA WritableIsRight ==
  ASSUME NEW s \in Protection
  PROVE  /\ WritableProtection(s) \in Writable
         /\ s \in Executable => WritableProtection(s) \in Executable
         /\ WritableProtection(s) # "none"
  BY DEF WritableProtection, Writable, Executable

\* Every step keeps what is known of the pages.
LEMMA PagesPreserved ==
  TypeOK /\ PagesInv /\ [WriteNext]_writeVars => PagesInv'
<1> SUFFICES ASSUME TypeOK, PagesInv, [WriteNext]_writeVars, ~meddled'
             PROVE  PagesInv'
  BY DEF PagesInv
<1> USE DEF PagesInv, Untouched, Checked, OneRegion, Unlocked, AfterCopy
<1>a. address \in Target
  BY DEF TypeOK
<1>b. /\ FirstPage(address) \in PagesOf(address)
      /\ PagesOf(address) \subseteq Page
  BY <1>a, Pages
<1>1. ASSUME NEW t \in Target, Apply(t) \/ Rollback(t) PROVE PagesInv'
  BY <1>1 DEF Apply, Rollback, Call, AsFound, PagesOf
<1>2. CASE Query
  <2>1. /\ UNCHANGED <<memory, protection, address, writable, old, restoreError,
                      historyVars>>
        /\ ~meddled
    BY <1>2 DEF Query, Return, GoTo, historyVars
  <2>2. AsFound' = AsFound /\ PagesOf(address)' = PagesOf(address)
    BY <2>1 DEF AsFound, PagesOf, historyVars
  <2>3. CASE pc = "verifyQuery"
    BY <1>2, <2>1, <2>2, <2>3 DEF Query, Return, GoTo, AsFound, historyVars
  <2>4. CASE pc = "query"
    <3>1. CASE Return("Unreadable")
      BY <2>1, <2>2, <2>4, <3>1 DEF Return
    <3>2. ASSUME NEW j \in (cursor + 1)..(Len(Span[address]) + 1),
                 RegionEnds(address, cursor, j),
                 protection[Span[address][cursor]] \in Readable
          PROVE  \A i \in 1..(j - 1) :
                   protection[Span[address][i]] \in Readable
      <4>1. cursor \in Nat /\ j \in Nat
        <5>1. Len(Span[address]) \in Nat
          BY <1>a, SpanAssumption
        <5> QED BY <5>1 DEF TypeOK
      <4>2. \A i \in 1..(cursor - 1) : protection[Span[address][i]] \in Readable
        BY <2>1, <2>4
      <4>3. \A i \in cursor..(j - 1) : protection[Span[address][i]] \in Readable
        BY <3>2 DEF RegionEnds
      <4> QED BY <4>1, <4>2, <4>3
    <3>3. CASE pc' = "query"
      BY <1>2, <2>1, <2>2, <2>4, <3>2, <3>3 DEF Query, Return, GoTo
    <3>4. CASE pc' = "read"
      <4>1. \A i \in 1..Len(Span[address]) :
              protection[Span[address][i]] \in Readable
        BY <1>2, <2>4, <3>2, <3>4, SpanAssumption
           DEF Query, Return, GoTo, TypeOK
      <4>2. \A p \in PagesOf(address) : entry[p] \in Readable
        BY <1>a, <2>1, <2>4, <4>1, Pages DEF AsFound
      <4> QED BY <2>1, <2>2, <2>4, <3>4, <4>2 DEF historyVars
    <3> QED BY <1>2, <2>4, <3>1, <3>3, <3>4 DEF Query, GoTo
  <2> QED BY <1>2, <2>3, <2>4 DEF Query
<1>3. CASE Read
  BY <1>3 DEF Read, Return, GoTo, AsFound, PagesOf
<1>4. CASE ReadFaults
  BY <1>4 DEF ReadFaults, Fault, GoTo, AllPagesIn, AsFound, historyVars
<1>5. CASE Region
  BY <1>5, <1>b DEF Region, Return, AllPagesIn, AsFound, historyVars
<1>6. CASE Unprotect
  BY <1>6, <1>b DEF Unprotect, Return, VirtualProtect, AsFound, AsWritable,
     historyVars, TypeOK
<1>7. CASE Copy
  BY <1>7 DEF Copy, GoTo, AsWritable, PagesOf
<1>8. CASE CopyFaults
  <2>1. entry[FirstPage(address)] \in Protection
    BY <1>b DEF TypeOK
  <2> QED BY <1>8, <2>1, WritableIsRight
             DEF CopyFaults, Fault, GoTo, AllPagesIn, AsWritable, historyVars
<1>9. CASE Restore
  BY <1>9, <1>b DEF Restore, VirtualProtect, AsFound, AsWritable, historyVars,
     TypeOK
<1>10. CASE Flush
  BY <1>10, <1>b DEF Flush, Return, GoTo, AsFound, AsWritable, historyVars
<1>11. CASE Verify
  BY <1>11 DEF Verify, Return, GoTo, AsFound, PagesOf
<1>12. CASE Accept
  BY <1>12 DEF Accept, GoTo
<1>13. CASE ForeignStep
  <2>1. ASSUME NEW t \in Target, NEW b \in Bytes, ForeignWrite(t, b)
        PROVE  PagesInv'
    BY <2>1 DEF ForeignWrite, callVars, AsFound, AsWritable
  <2>2. ASSUME NEW p \in Page, NEW s \in PageStates, ForeignProtect(p, s)
        PROVE  PagesInv'
    <3>1. /\ UNCHANGED <<callVars, entry>> /\ ~meddled
          /\ \A q \in PagesOf(address) : protection'[q] = protection[q]
      BY <1>b, <2>2 DEF ForeignProtect, TypeOK
    <3>2. \A i \in 1..(cursor - 1) : Span[address][i] \in PagesOf(address)
      BY <1>a, Pages DEF TypeOK
    <3> QED BY <3>1, <3>2 DEF callVars, AsFound, AsWritable
  <2> QED BY <1>13, <2>1, <2>2 DEF ForeignStep
<1>14. CASE UNCHANGED writeVars
  BY <1>14 DEF writeVars, callVars, historyVars, AsFound, AsWritable
<1> QED BY <1>1, <1>2, <1>3, <1>4, <1>5, <1>6, <1>7, <1>8, <1>9, <1>10, <1>11,
           <1>12, <1>13, <1>14 DEF WriteNext, WriteStep

\* The invariant of the pages is inductive with the type invariant.
LEMMA PagesKnown == WriteSpec => [](TypeOK /\ PagesInv)
<1>1. WriteInit => PagesInv
  BY DEF WriteInit, PagesInv, Untouched, Checked, OneRegion, Unlocked, AfterCopy
<1>2. WriteSpec => []PagesInv
  BY <1>1, PagesPreserved, TypeCorrect, PTL DEF WriteSpec
<1> QED BY <1>2, TypeCorrect, PTL

\* What each of the three properties needs of the pages.
LEMMA PagesImply ==
  TypeOK /\ PagesInv => CrashNeedsMeddling /\ ProtectionComesBack
                                          /\ CodeStaysExecutable
<1> SUFFICES ASSUME TypeOK, PagesInv, ~meddled
             PROVE  /\ CrashNeedsMeddling
                    /\ ProtectionComesBack
                    /\ CodeStaysExecutable
  BY DEF CrashNeedsMeddling, ProtectionComesBack, CodeStaysExecutable
<1>1. CrashNeedsMeddling
  BY DEF CrashNeedsMeddling, PagesInv
<1>2. ProtectionComesBack
  BY DEF ProtectionComesBack, PagesInv, AsFound
<1>3. CodeStaysExecutable
  <2> SUFFICES ASSUME pc # "idle", NEW p \in PagesOf(address),
                      entry[p] \in Executable
               PROVE  protection[p] \in Executable
    BY DEF CodeStaysExecutable
  <2>1. protection[p] \in {entry[p], WritableProtection(entry[p])}
    BY DEF PagesInv, AsFound, AsWritable, Untouched, OneRegion, Unlocked,
       AfterCopy, TypeOK, Steps
  <2> QED BY <2>1 DEF WritableProtection, Executable
<1> QED BY <1>1, <1>2, <1>3

\* Without meddling write_checked cannot fault: what it reads and writes was
\* queried first, page by page.
THEOREM CrashNeedsMeddlingHolds == WriteSpec => []CrashNeedsMeddling
  BY PagesKnown, PagesImply, PTL

\* Without meddling every page has its protection back when write_checked
\* returns, unless it says it could not restore it.
THEOREM ProtectionComesBackHolds == WriteSpec => []ProtectionComesBack
  BY PagesKnown, PagesImply, PTL

\* Without meddling code stays executable for the threads that are running it,
\* at every step.
THEOREM CodeStaysExecutableHolds == WriteSpec => []CodeStaysExecutable
  BY PagesKnown, PagesImply, PTL
-----------------------------------------------------------------------------
(* The promise. *)

\* Every step of write_checked is a step of GuardedWrite or changes nothing that
\* is promised.
LEMMA StepKeepsPromise ==
  TypeOK /\ [WriteNext]_writeVars
    => [Promise!GuardNext]_(Promise!guardVars)
<1> SUFFICES ASSUME TypeOK, [WriteNext]_writeVars
             PROVE  Promise!GuardNext \/ UNCHANGED Promise!guardVars
  OBVIOUS
<1> USE DEF Phase, Promise!guardVars, Promise!request
<1>1. ASSUME NEW t \in Target, Apply(t) \/ Rollback(t)
      PROVE  Promise!GuardNext
  BY <1>1 DEF Apply, Rollback, Call, Promise!GuardNext, Promise!Apply,
     Promise!Rollback, Promise!Ask
<1>2. CASE Query
  BY <1>2 DEF Query, Return, GoTo, Promise!GuardNext, Promise!GuardStep,
     Promise!Refuse, Promise!Report, Promise!Return, Promise!EarlyError,
     Promise!LateError
<1>3. CASE Read
  BY <1>3 DEF Read, Return, GoTo, Promise!GuardNext, Promise!GuardStep,
     Promise!Refuse, Promise!Grant, Promise!Return
<1>4. CASE ReadFaults \/ CopyFaults
  BY <1>4 DEF ReadFaults, CopyFaults, Fault, GoTo, Promise!GuardNext,
     Promise!GuardStep, Promise!Crash
<1>5. CASE Region
  BY <1>5 DEF Region, Return, Promise!GuardNext, Promise!GuardStep,
     Promise!GiveUp, Promise!Return, Promise!GrantError
<1>6. CASE Unprotect
  BY <1>6 DEF Unprotect, Return, Promise!GuardNext, Promise!GuardStep,
     Promise!GiveUp, Promise!Return, Promise!GrantError
<1>7. CASE Copy
  BY <1>7 DEF Copy, GoTo, Promise!GuardNext, Promise!GuardStep, Promise!Put
<1>8. CASE Restore
  BY <1>8 DEF Restore
<1>9. CASE Flush
  BY <1>9 DEF Flush, Return, GoTo, Promise!GuardNext, Promise!GuardStep,
     Promise!Report, Promise!Return, Promise!LateError
<1>10. CASE Verify
  BY <1>10 DEF Verify, Return, GoTo, Promise!GuardNext, Promise!GuardStep,
     Promise!Report, Promise!Return
<1>11. CASE Accept
  BY <1>11 DEF Accept, GoTo, Promise!GuardNext, Promise!Accept
<1>12. CASE ForeignStep
  BY <1>12 DEF ForeignStep, ForeignWrite, ForeignProtect, callVars,
     Promise!GuardNext, Promise!Store
<1>13. CASE UNCHANGED writeVars
  BY <1>13 DEF writeVars, callVars
<1> QED BY <1>1, <1>2, <1>3, <1>4, <1>5, <1>6, <1>7, <1>8, <1>9, <1>10, <1>11,
           <1>12, <1>13 DEF WriteNext, WriteStep

\* write_checked implements the guarded write its callers rely on.
THEOREM PromiseKept == WriteSpec => Promise!GuardSafety
<1>1. WriteInit => Promise!GuardInit
  BY TargetAssumption DEF WriteInit, Promise!GuardInit, Phase
<1> QED BY <1>1, StepKeepsPromise, TypeCorrect, PTL DEF WriteSpec,
           Promise!GuardSafety
-----------------------------------------------------------------------------
(* How far a call has got: the provable half of KeepsPromise's liveness.   *)

\* The steps of write_checked from each on, and the pages a check of the range
\* has before it.
StepsFrom ==
  [query |-> 9, read |-> 8, region |-> 7, unprotect |-> 6, copy |-> 5,
   restore |-> 4, flush |-> 3, verifyQuery |-> 2, verifyRead |-> 1]

StepsLeft == IF pc \in Steps THEN StepsFrom[pc] ELSE 0
PagesLeft == Len(Span[address]) - cursor

\* Every step of write_checked's own brings its end nearer, the rounds of
\* validate_readable_range included, and nothing others do to the bytes or the
\* pages sends it back.
CallAdvances ==
  /\ StepsLeft \in Nat /\ PagesLeft \in Nat
  /\ WriteStep => \/ StepsLeft' < StepsLeft
                  \/ StepsLeft' = StepsLeft /\ PagesLeft' < PagesLeft
  /\ ForeignStep => UNCHANGED <<StepsLeft, PagesLeft>>

\* What is left is counted in natural numbers.
LEMMA LeftInNat == TypeOK => StepsLeft \in Nat /\ PagesLeft \in Nat
<1> SUFFICES ASSUME TypeOK PROVE StepsLeft \in Nat /\ PagesLeft \in Nat
  OBVIOUS
<1>1. StepsLeft \in Nat
  BY DEF StepsLeft, StepsFrom, Steps
<1>2. PagesLeft \in Nat
  <2>1. Len(Span[address]) \in Nat
    BY SpanAssumption DEF TypeOK
  <2> QED BY <2>1 DEF TypeOK, PagesLeft
<1> QED BY <1>1, <1>2

\* write_checked ends after as many steps of its own as the range has pages, and
\* a few more, whatever the calls it makes answer and others do meanwhile.
THEOREM CallAdvancesHolds == WriteSpec => [][CallAdvances]_writeVars
<1>1. TypeOK /\ [WriteNext]_writeVars => [CallAdvances]_writeVars
  <2> SUFFICES ASSUME TypeOK PROVE CallAdvances
    OBVIOUS
  <2>1. ASSUME WriteStep
        PROVE  \/ StepsLeft' < StepsLeft
               \/ StepsLeft' = StepsLeft /\ PagesLeft' < PagesLeft
    <3> USE DEF StepsLeft, StepsFrom, Steps
    <3>1. CASE Query /\ pc' = pc
      <4>0. Len(Span[address]) \in Nat /\ cursor \in Nat
        BY SpanAssumption DEF TypeOK
      <4>1. address' = address /\ cursor' \in (cursor + 1)..Len(Span[address])
        BY <3>1, <4>0 DEF Query, Return, GoTo
      <4>2. PagesLeft' < PagesLeft
        BY <4>0, <4>1 DEF PagesLeft
      <4> QED BY <3>1, <4>2
    <3>2. CASE Query /\ pc' # pc
      BY <3>2 DEF Query, Return, GoTo
    <3>3. CASE Read
      BY <3>3 DEF Read, Return, GoTo
    <3>4. CASE ReadFaults \/ CopyFaults
      BY <3>4 DEF ReadFaults, CopyFaults, Fault, GoTo
    <3>5. CASE Region
      BY <3>5 DEF Region, Return
    <3>6. CASE Unprotect
      BY <3>6 DEF Unprotect, Return
    <3>7. CASE Copy
      BY <3>7 DEF Copy, GoTo
    <3>8. CASE Restore
      BY <3>8 DEF Restore
    <3>9. CASE Flush
      BY <3>9 DEF Flush, Return, GoTo
    <3>10. CASE Verify
      BY <3>10 DEF Verify, Return, GoTo
    <3> QED BY <2>1, <3>1, <3>2, <3>3, <3>4, <3>5, <3>6, <3>7, <3>8, <3>9,
               <3>10 DEF WriteStep
  <2>2. ForeignStep => UNCHANGED <<StepsLeft, PagesLeft>>
    BY DEF ForeignStep, ForeignWrite, ForeignProtect, callVars, StepsLeft,
           PagesLeft
  <2> QED BY <2>1, <2>2, LeftInNat DEF CallAdvances
<1> QED BY <1>1, TypeCorrect, PTL DEF WriteSpec
=============================================================================
