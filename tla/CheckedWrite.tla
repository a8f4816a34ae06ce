---------------------------- MODULE CheckedWrite ----------------------------
(***************************************************************************)
(* write_checked of src/patches/memory.rs: the expected-byte-guarded write *)
(* through which every byte of Dunia.dll is changed, one action per call   *)
(* it makes to the operating system.  The rest of the process runs beside  *)
(* it: between two of its steps another thread may store to the same bytes *)
(* or change the protection of the same pages.                             *)
(*                                                                         *)
(* A target is an address with a length.  Its contents are one value of    *)
(* Bytes, so the one- or two-byte copy is one step; a store of another     *)
(* thread that meets it half way leaves what a store just after it can     *)
(* also leave, bytes that are neither original nor patched.                *)
(***************************************************************************)
EXTENDS Naturals, Sequences

CONSTANTS
  Target,          \* the places the patches write
  Page,            \* virtual-memory pages
  Span,            \* Span[t]: the pages target t lies on, in address order
  Bytes,           \* what a target may hold
  Expected,        \* Expected[t]: the game's own bytes at t
  Replacement,     \* Replacement[t]: the patched bytes at t
  PageStates       \* protections a page starts with, or is given by others

\* MEMORY_BASIC_INFORMATION::Protect, the flags the code tells apart; a page
\* with PAGE_GUARD set is "Guarded" and one that is not MEM_COMMIT "Reserved".
Readable   == {"ReadOnly", "ReadWrite", "WriteCopy",
               "ExecuteRead", "ExecuteReadWrite", "ExecuteWriteCopy"}
Executable == {"ExecuteRead", "ExecuteReadWrite", "ExecuteWriteCopy"}
Writable   == {"ReadWrite", "WriteCopy", "ExecuteReadWrite", "ExecuteWriteCopy"}
Protection == Readable \cup {"NoAccess", "Execute", "Guarded", "Reserved"}

ASSUME TargetAssumption == Target # {}
ASSUME SpanAssumption ==
  /\ Span \in [Target -> Seq(Page)]
  /\ \A t \in Target : Span[t] # <<>>
ASSUME BytesAssumption ==
  /\ Expected \in [Target -> Bytes]
  /\ Replacement \in [Target -> Bytes]
  /\ \A t \in Target : Expected[t] # Replacement[t]
ASSUME PageStatesAssumption == PageStates \subseteq Protection

VARIABLES
  memory,          \* the bytes at each target
  protection,      \* the protection of each page
  pc,              \* the next step of the call in progress
  address,         \* write_checked's parameters
  expected,
  replacement,
  cursor,          \* validate_readable_range's cursor, an index into Span
  writable,        \* writable_protection
  old,             \* old_protection, as VirtualProtect returned it
  restoreError,    \* restore_error is Some(_)
  result,          \* what the call returned
  \* History, read by the properties only:
  wrote,           \* this call has copied its bytes
  stale,           \* others have stored to the target since the call read it
  meddled,         \* others have changed a page of the target during the call
  entry            \* the protections when the call began

callVars    == <<pc, address, expected, replacement, cursor, writable, old,
                 restoreError, result>>
historyVars == <<wrote, stale, meddled, entry>>
writeVars   == <<memory, protection, callVars, historyVars>>

Results == {"Applied", "AlreadyApplied", "Unreadable", "UnexpectedBytes",
            "CrossesProtectionRegion", "Protect", "RestoreProtection",
            "FlushInstructionCache", "WriteVerification"}
Succeeded == {"Applied", "AlreadyApplied"}
Steps == {"query", "read", "region", "unprotect", "copy", "restore", "flush",
          "verifyQuery", "verifyRead"}
-----------------------------------------------------------------------------
PagesOf(t)   == {Span[t][i] : i \in DOMAIN Span[t]}
FirstPage(t) == Span[t][1]

AllPagesIn(t, states) == \A p \in PagesOf(t) : protection[p] \in states

\* The error a call ends with is all its caller learns of it.
Return(r) ==
  /\ pc' = "returned"
  /\ result' = r
  /\ UNCHANGED <<address, expected, replacement, cursor, writable, old,
                 restoreError>>

GoTo(step) ==
  /\ pc' = step
  /\ UNCHANGED <<address, expected, replacement, writable, old, restoreError,
                 result>>

\* An access the page does not allow ends the process.
Fault ==
  /\ GoTo("crashed")
  /\ UNCHANGED <<memory, cursor, protection, historyVars>>

\* write_checked(t, from, to) is called; both byte strings are constants of
\* equal non-zero length, so validate_lengths always lets them through.
Call(t, from, to) ==
  /\ pc = "idle"
  /\ pc' = "query"
  /\ address' = t
  /\ expected' = from
  /\ replacement' = to
  /\ cursor' = 1
  /\ writable' = "none"
  /\ old' = "none"
  /\ restoreError' = FALSE
  /\ result' = "none"
  /\ wrote' = FALSE
  /\ stale' = FALSE
  /\ meddled' = FALSE
  /\ entry' = protection
  /\ UNCHANGED <<memory, protection>>

\* The region VirtualQuery reports for the i-th page of t ends before the j-th:
\* it is the longest run of pages with one protection.
RegionEnds(t, i, j) ==
  LET state(k) == protection[Span[t][k]] IN
    /\ \A k \in i..(j - 1) : state(k) = state(i)
    /\ j \in DOMAIN Span[t] => state(j) # state(i)

\* (Fault) Only the region the range begins in is checked.
QueryFirstRegion ==
  /\ pc \in {"query", "verifyQuery"}
  /\ \/ /\ protection[Span[address][cursor]] \in Readable
        /\ GoTo(IF pc = "query" THEN "read" ELSE "verifyRead")
     \/ Return("Unreadable")
  /\ UNCHANGED <<memory, protection, cursor, historyVars>>

\* One round of validate_readable_range: a query that fails, a region that is
\* not committed or one that is not readable ends the call.
Query ==
  /\ pc \in {"query", "verifyQuery"}
  /\ \/ /\ protection[Span[address][cursor]] \in Readable
        /\ \E j \in (cursor + 1)..(Len(Span[address]) + 1) :
             /\ RegionEnds(address, cursor, j)
             /\ IF j = Len(Span[address]) + 1
                  THEN /\ GoTo(IF pc = "query" THEN "read" ELSE "verifyRead")
                       /\ UNCHANGED cursor
                  ELSE /\ GoTo(pc)
                       /\ cursor' = j
     \/ Return("Unreadable")
  /\ UNCHANGED <<memory, protection, historyVars>>

\* (Fault) Whatever is not the replacement is overwritten.
ReadUnguarded ==
  /\ pc = "read"
  /\ AllPagesIn(address, Readable)
  /\ \/ memory[address] = replacement /\ Return("AlreadyApplied")
     \/ memory[address] # replacement /\ GoTo("region") /\ UNCHANGED cursor
  /\ stale' = FALSE
  /\ UNCHANGED <<memory, protection, wrote, meddled, entry>>

\* read_bytes copies the range and classify_bytes decides.
Read ==
  /\ pc = "read"
  /\ AllPagesIn(address, Readable)
  /\ \/ /\ memory[address] = replacement
        /\ Return("AlreadyApplied")
     \/ /\ memory[address] # replacement
        /\ memory[address] = expected
        /\ GoTo("region")
        /\ UNCHANGED cursor
     \/ /\ memory[address] \notin {replacement, expected}
        /\ Return("UnexpectedBytes")
  /\ stale' = FALSE
  /\ UNCHANGED <<memory, protection, wrote, meddled, entry>>

ReadFaults ==
  /\ pc \in {"read", "verifyRead"}
  /\ ~ AllPagesIn(address, Readable)
  /\ Fault

\* (Fault) Execute access is not kept; the protection is not made writable.
PlainReadWrite(current) == "ReadWrite"
SameProtection(current) == current

\* The protection to write under: the first page is queried, and the range
\* must lie in its region, the run of pages that share that protection.
WritableProtection(current) ==
  IF current \in Executable THEN "ExecuteReadWrite" ELSE "ReadWrite"

\* (Fault) The range may cross into a region of another protection.
RegionUnbounded ==
  /\ pc = "region"
  /\ LET current == protection[FirstPage(address)] IN
       \/ Return("Unreadable")
       \/ /\ current \in Readable
          /\ writable' = WritableProtection(current)
          /\ pc' = "unprotect"
          /\ UNCHANGED <<address, expected, replacement, cursor, old,
                         restoreError, result>>
  /\ UNCHANGED <<memory, protection, historyVars>>

Region ==
  /\ pc = "region"
  /\ LET current == protection[FirstPage(address)] IN
       \/ Return("Unreadable")
       \/ /\ current \in Readable
          /\ ~ AllPagesIn(address, {current})
          /\ Return("CrossesProtectionRegion")
       \/ /\ current \in Readable
          /\ AllPagesIn(address, {current})
          /\ writable' = WritableProtection(current)
          /\ pc' = "unprotect"
          /\ UNCHANGED <<address, expected, replacement, cursor, old,
                         restoreError, result>>
  /\ UNCHANGED <<memory, protection, historyVars>>

\* VirtualProtect gives every page of the range one protection and returns the
\* one the first page had.  It may fail, and does on a page not committed.
VirtualProtect(t, state) ==
  /\ \A p \in PagesOf(t) : protection[p] # "Reserved"
  /\ protection' = [p \in Page |->
                      IF p \in PagesOf(t) THEN state ELSE protection[p]]

Unprotect ==
  /\ pc = "unprotect"
  /\ \/ /\ Return("Protect")
        /\ UNCHANGED protection
     \/ /\ VirtualProtect(address, writable)
        /\ old' = protection[FirstPage(address)]
        /\ pc' = "copy"
        /\ UNCHANGED <<address, expected, replacement, cursor, writable,
                       restoreError, result>>
  /\ UNCHANGED <<memory, historyVars>>

Copy ==
  /\ pc = "copy"
  /\ AllPagesIn(address, Writable)
  /\ memory' = [memory EXCEPT ![address] = replacement]
  /\ wrote' = TRUE
  /\ GoTo("restore")
  /\ UNCHANGED <<protection, cursor, stale, meddled, entry>>

CopyFaults ==
  /\ pc = "copy"
  /\ ~ AllPagesIn(address, Writable)
  /\ Fault

\* (Fault) A restore that fails is reported like a failure to unprotect.
RestoreSaysProtect ==
  /\ pc = "restore"
  /\ \/ /\ VirtualProtect(address, old)
        /\ GoTo("flush")
        /\ UNCHANGED cursor
     \/ Return("Protect") /\ UNCHANGED protection
  /\ UNCHANGED <<memory, historyVars>>

\* A restore that fails is remembered, and the cache is flushed all the same.
Restore ==
  /\ pc = "restore"
  /\ \/ /\ VirtualProtect(address, old)
        /\ restoreError' = FALSE
     \/ /\ UNCHANGED protection
        /\ restoreError' = TRUE
  /\ pc' = "flush"
  /\ UNCHANGED <<memory, address, expected, replacement, cursor, writable, old,
                 result, historyVars>>

\* (Fault) The bytes are not read back.
FlushThenTrust ==
  /\ pc = "flush"
  /\ \/ restoreError /\ Return("RestoreProtection")
     \/ ~restoreError /\ Return("FlushInstructionCache")
     \/ ~restoreError /\ Return("Applied")
  /\ UNCHANGED <<memory, protection, historyVars>>

\* Both errors end the call after the bytes have been written, the restore's
\* first.
Flush ==
  /\ pc = "flush"
  /\ \/ restoreError /\ Return("RestoreProtection")
     \/ ~restoreError /\ Return("FlushInstructionCache")
     \/ ~restoreError /\ GoTo("verifyQuery") /\ cursor' = 1
  /\ UNCHANGED <<memory, protection, historyVars>>

Verify ==
  /\ pc = "verifyRead"
  /\ AllPagesIn(address, Readable)
  /\ \/ memory[address] = replacement /\ Return("Applied")
     \/ memory[address] # replacement /\ Return("WriteVerification")
  /\ stale' = FALSE
  /\ UNCHANGED <<memory, protection, wrote, meddled, entry>>

WriteStep ==
  \/ Query \/ Read \/ ReadFaults \/ Region \/ Unprotect
  \/ Copy \/ CopyFaults \/ Restore \/ Flush \/ Verify
-----------------------------------------------------------------------------
(* The rest of the process.                                                *)

ForeignWrite(t, b) ==
  /\ pc # "crashed"
  /\ memory' = [memory EXCEPT ![t] = b]
  /\ stale' = (stale \/ t = address)
  /\ UNCHANGED <<protection, callVars, wrote, meddled, entry>>

ForeignProtect(p, state) ==
  /\ pc # "crashed"
  /\ protection' = [protection EXCEPT ![p] = state]
  /\ meddled' = (meddled \/ p \in PagesOf(address))
  /\ UNCHANGED <<memory, callVars, wrote, stale, entry>>

ForeignStep ==
  \/ \E t \in Target, b \in Bytes : ForeignWrite(t, b)
  \/ \E p \in Page, state \in PageStates : ForeignProtect(p, state)
-----------------------------------------------------------------------------
WriteInit ==
  /\ memory \in [Target -> Bytes]
  /\ protection \in [Page -> PageStates]
  /\ pc = "idle"
  /\ address = CHOOSE t \in Target : TRUE
  /\ expected = Expected[address]
  /\ replacement = Replacement[address]
  /\ cursor = 1
  /\ writable = "none"
  /\ old = "none"
  /\ restoreError = FALSE
  /\ result = "none"
  /\ wrote = FALSE
  /\ stale = FALSE
  /\ meddled = FALSE
  /\ entry = protection

\* CheckedWrite::apply and CheckedWrite::rollback, the two callers.
Apply(t)    == Call(t, Expected[t], Replacement[t])
Rollback(t) == Call(t, Replacement[t], Expected[t])

\* The caller takes the result.
Accept ==
  /\ pc = "returned"
  /\ GoTo("idle")
  /\ UNCHANGED <<cursor, memory, protection, historyVars>>

WriteNext ==
  \/ \E t \in Target : Apply(t) \/ Rollback(t)
  \/ WriteStep
  \/ Accept
  \/ ForeignStep

WriteSpec == WriteInit /\ [][WriteNext]_writeVars /\ WF_writeVars(WriteStep)
-----------------------------------------------------------------------------
(* Properties. *)

\* Every variable keeps its type; what a call is given is a target's original and
\* patched bytes, either way round, and what it remembers it has before it uses.
TypeOK ==
  /\ memory \in [Target -> Bytes]
  /\ protection \in [Page -> Protection]
  /\ pc \in Steps \cup {"idle", "returned", "crashed"}
  /\ address \in Target
  /\ \/ expected = Expected[address] /\ replacement = Replacement[address]
     \/ expected = Replacement[address] /\ replacement = Expected[address]
  /\ cursor \in 1..Len(Span[address])
  /\ writable \in {"none", "ReadWrite", "ExecuteReadWrite"}
  /\ old \in Protection \cup {"none"}
  /\ pc = "unprotect" => writable # "none"
  /\ pc \in {"copy", "restore"} => old # "none"
  /\ restoreError \in BOOLEAN
  /\ result \in Results \cup {"none"}
  /\ wrote \in BOOLEAN
  /\ stale \in BOOLEAN
  /\ meddled \in BOOLEAN
  /\ entry \in [Page -> Protection]

\* The write is guarded by the expected bytes: a step of write_checked changes
\* memory only by putting the replacement where the expected bytes are.  The
\* one way round the guard is a store of another thread between the comparison
\* and the copy (memory.rs:180-212), several system calls apart.
NoBlindOverwrite ==
  [][WriteStep =>
       \/ memory' = memory
       \/ /\ memory' = [memory EXCEPT ![address] = replacement]
          /\ memory[address] = expected \/ stale]_writeVars

\* As long as nobody else touches the pages of the target, neither reading nor
\* writing them can fault, whatever their protections were and whichever of
\* the system calls fail.
CrashNeedsMeddling == pc = "crashed" => meddled

\* A call that returns leaves the pages as it found them, on every path, save
\* the one that reports that it could not.
ProtectionComesBack ==
  pc = "returned" /\ ~meddled /\ result # "RestoreProtection" =>
    \A p \in PagesOf(address) : protection[p] = entry[p]

\* Code stays executable while it is being patched: threads of the game may be
\* running on the very page (writable_protection_for_single_region keeps
\* execute access).
CodeStaysExecutable ==
  ~meddled /\ pc # "idle" =>
    \A p \in PagesOf(address) :
      entry[p] \in Executable => protection[p] \in Executable

\* A result tells what became of the bytes.  Success means that they are the
\* replacement, and Applied that this very call put them there; an error of the
\* steps before the copy means the call changed nothing, and one of the steps
\* after it that the replacement has been written.  Only Unreadable is said of
\* both (the check before the guard and the one before the verification).
HonestResult ==
  pc = "returned" =>
    /\ result \in {"AlreadyApplied", "UnexpectedBytes", "Protect",
                   "CrossesProtectionRegion"} => ~wrote
    /\ result \in {"Applied", "RestoreProtection", "FlushInstructionCache",
                   "WriteVerification"} => wrote
    /\ (result = "AlreadyApplied" \/ wrote) /\ ~stale
         /\ result # "WriteVerification" => memory[address] = replacement

\* The promise of write_checked: the calls it makes are hidden, the comparison,
\* the copy and the result remain.
Phase ==
  CASE pc \in {"query", "read"}               -> "asked"
    [] pc \in {"region", "unprotect", "copy"} -> "granted"
    [] pc \in {"restore", "flush", "verifyQuery", "verifyRead"} -> "written"
    [] OTHER                                  -> pc

Promise == INSTANCE GuardedWrite WITH phase <- Phase

\* write_checked is an expected-byte-guarded write (memory.rs:172): its steps
\* are those of GuardedWrite, and it gets on with them.
KeepsPromise == Promise!GuardSpec
=============================================================================
