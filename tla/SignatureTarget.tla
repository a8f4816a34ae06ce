-------------------------- MODULE SignatureTarget --------------------------
(***************************************************************************)
(* How a patch finds the place it writes: Pattern and ModuleImage of       *)
(* src/patches/sigscan.rs, and find_signature_target,                      *)
(* checked_known_signature_write and address_from_rva as the plan_*        *)
(* functions of src/patches/mod.rs use them.                               *)
(*                                                                         *)
(* Signatures are searched for in the bytes that were copied out of the    *)
(* sections, one section after the other, when the image was made; the     *)
(* bytes at a target are read from memory.  Other threads may store to the *)
(* memory at any time, or take a section's pages away: they may protect    *)
(* them, or unload the module, to which run holds no reference             *)
(* (mod.rs:113).  A plan is made and applied twice: by a second copy of    *)
(* the patcher, or one that finds the game patched already.                *)
(***************************************************************************)
EXTENDS Integers, Sequences, FiniteSets

CONSTANTS
  Byte,
  Any,             \* None, the wildcard of a Pattern
  Size,            \* SizeOfImage; addresses are counted from the module's base
  Sections,        \* the sections to be loaded, in the order of the table
  Recipe,          \* what a patch gives to its search
  MaxMeddling      \* bound: how often others store or take pages away

Address == 0..(Size - 1)
Index   == DOMAIN Sections
Scope   == {"Code", "ReadOnlyData"}
Methods == {"signature", "knownSignature", "knownRva"}

ASSUME SectionAssumption ==
  /\ Sections \in Seq([rva : Nat, size : Nat, scope : Scope])
  /\ Sections # <<>>
\* What validate_pe_sections lets through (ImageSections: SectionsApart).
ASSUME ApartAssumption ==
  /\ Size \in Nat
  /\ \A i \in Index : Sections[i].size # 0
                     /\ Sections[i].rva + Sections[i].size <= Size
  /\ \A i, j \in Index :
       i # j => \/ Sections[i].rva + Sections[i].size <= Sections[j].rva
                \/ Sections[j].rva + Sections[j].size <= Sections[i].rva
ASSUME RecipeAssumption ==
  \A r \in Recipe :
    /\ r.method \in Methods
    /\ r.signature \in Seq(Byte \cup {Any}) /\ r.signature # <<>>
    /\ r.scope \in Scope
    /\ r.offset \in Nat /\ r.rva \in Nat
    /\ r.expected \in Seq(Byte) /\ r.replacement \in Seq(Byte)
    /\ Len(r.expected) = Len(r.replacement)
    /\ r.expected # r.replacement /\ r.expected # <<>>
ASSUME AnyAssumption == Any \notin Byte

(* What the comments at the signatures (mod.rs:42-55) ask of them, so that a   *)
(* signature leads to the same place after the patch as before.                *)

\* A signature cannot match d bytes behind a match of its own.
Conflict(signature, d) ==
  \E p, q \in DOMAIN signature :
    p = q + d /\ Any \notin {signature[p], signature[q]}
              /\ signature[p] # signature[q]

\* "Mutation bytes are wildcards", or already what they become.
KeepsMatch(r) ==
  \A j \in DOMAIN r.replacement :
    r.offset + j \in DOMAIN r.signature =>
      r.signature[r.offset + j] \in {Any, r.replacement[j]}

\* Where the patch writes a byte the signature has in another position, which
\* could complete it elsewhere, the signature is not there for it already; and
\* it writes no byte that makes another place look like a target.
MakesNoMatch(r) ==
  \A j \in DOMAIN r.replacement : r.expected[j] # r.replacement[j] =>
    /\ \A k \in DOMAIN r.signature :
         r.signature[k] = r.replacement[j] /\ k # r.offset + j =>
           Conflict(r.signature, r.offset + j - k)
    /\ \A i \in DOMAIN r.replacement \ {j} :
         r.replacement[j] \notin {r.expected[i], r.replacement[i]}

Distinctive(r) == KeepsMatch(r) /\ MakesNoMatch(r)

ASSUME DistinctiveAssumption == \A r \in Recipe : Distinctive(r)

VARIABLES
  memory,          \* the bytes of the module
  readable,        \* the sections whose pages can be read
  recipe,
  pc,
  next,            \* the section from_module is at
  snapshot,        \* the bytes of the image's sections
  queue,           \* raw_matches still to be looked at, in address order
  accepted,        \* the targets found so far
  target,          \* where the plan writes
  result,
  \* History, read by the properties only:
  first,           \* the first patcher's target and result
  stores,          \* how often others have stored to the image
  taken            \* the sections others have taken away

worldVars == <<memory, readable, stores, taken>>
imageVars == <<next, snapshot>>
planVars  == <<queue, accepted, target>>
scanVars  == <<worldVars, recipe, pc, imageVars, planVars, result, first>>

Nowhere == Size
Length  == Len(recipe.expected)

Patched == {"Applied", "AlreadyApplied"}
Refusals == {"UnreadableSection", "SignatureNotFound", "NoValidatedTarget",
             "AmbiguousTarget", "AddressOutsideImage", "AddressOutsideScope",
             "UnexpectedBytes", "Unreadable"}
-----------------------------------------------------------------------------
(* Pattern and ModuleImage. *)

Section == {Sections[i] : i \in Index}
InScope == {s \in Section : s.scope = recipe.scope}

Within(s, rva, length) == s.rva <= rva /\ rva + length <= s.rva + s.size

Matches(pattern, bytes, a) ==
  \A i \in DOMAIN pattern : pattern[i] \in {Any, bytes[a + i - 1]}

\* ModuleImage::scan: the windows of each section in scope.
Scan(pattern) ==
  {a \in Address : /\ \E s \in InScope : Within(s, a, Len(pattern))
                   /\ Matches(pattern, snapshot, a)}

\* (Fault) Only the match is looked for in the sections.
ContainsMatch(a, t) == \E s \in InScope : Within(s, a, 1)

\* contains_relative_target.
ContainsRelativeTarget(a, t) ==
  \E s \in InScope : Within(s, a, 1) /\ Within(s, t, Length)

\* address_from_rva, with the error it ends in.
InSection(rva, length) == \E s \in InScope : Within(s, rva, length)
Outside(rva, length) ==
  IF rva + length > Size THEN {"AddressOutsideImage"}
  ELSE IF ~InSection(rva, length) THEN {"AddressOutsideScope"} ELSE {}

\* read_bytes, and classify_bytes on what it read.
Readable(t) ==
  \A i \in Index : Sections[i].rva < t + Length
                    /\ t < Sections[i].rva + Sections[i].size => i \in readable

At(t, bytes) == \A i \in DOMAIN bytes : memory[t + i - 1] = bytes[i]

\* (Fault) Bytes that have been patched already are not recognized.
ValidOriginal(t) == Readable(t) /\ At(t, recipe.expected)

Valid(t) == Readable(t) /\ (At(t, recipe.expected) \/ At(t, recipe.replacement))
-----------------------------------------------------------------------------
Go(step) == pc' = step /\ UNCHANGED <<worldVars, recipe, result, first>>

Refuse(r) ==
  /\ pc' = "done"
  /\ result' = r
  /\ UNCHANGED <<worldVars, recipe, imageVars, planVars, first>>

\* (Fault) from_module copies what it has not found readable.
CheckNoSection ==
  /\ pc = "check"
  /\ Go("copy") /\ UNCHANGED <<imageVars, planVars>>

\* validate_readable_range; the pages of a section are one region.
RangeReadable(i) == i \in readable

\* from_module: one section is checked, and then copied.
CheckSection ==
  /\ pc = "check"
  /\ \/ RangeReadable(next) /\ Go("copy") /\ UNCHANGED <<imageVars, planVars>>
     \/ ~RangeReadable(next) /\ Refuse("UnreadableSection")

CopySection ==
  /\ pc = "copy"
  /\ \/ /\ next \in readable
        /\ snapshot' = [a \in Address |-> IF Within(Sections[next], a, 1)
                                            THEN memory[a] ELSE snapshot[a]]
        /\ next' = next + 1
        /\ Go(IF next = Len(Sections) THEN "scan" ELSE "check")
     \/ next \notin readable /\ Go("crashed") /\ UNCHANGED imageVars
  /\ UNCHANGED planVars

\* scan, and the empty result it may have.
FindRawMatches ==
  /\ pc = "scan"
  /\ recipe.method = "signature"
  /\ \/ Scan(recipe.signature) = {} /\ Refuse("SignatureNotFound")
     \/ /\ Scan(recipe.signature) # {}
        /\ queue' = Scan(recipe.signature)
        /\ Go("match")
        /\ UNCHANGED <<imageVars, accepted, target>>

\* One raw match, lowest address first: its target is rejected when it leaves
\* the section, cannot be read or holds other bytes.
Match(a) ==
  LET t == a + recipe.offset IN
    /\ pc = "match"
    /\ a \in queue
    /\ \A b \in queue : a <= b
    /\ queue' = queue \ {a}
    /\ accepted' = IF ContainsRelativeTarget(a, t) /\ Valid(t)
                     THEN accepted \cup {t} ELSE accepted
    /\ Go("match")
    /\ UNCHANGED <<imageVars, target>>

\* (Fault) The first target found is taken.
Lowest(ts) == {t \in ts : \A u \in ts : t <= u}

OnlyOne(ts) == {t \in ts : ts = {t}}

Choose ==
  /\ pc = "match"
  /\ queue = {}
  /\ \/ accepted = {} /\ Refuse("NoValidatedTarget")
     \/ \E t \in OnlyOne(accepted) :
          /\ target' = t
          /\ Go("validate")
          /\ UNCHANGED <<imageVars, queue, accepted>>
     \/ accepted # {} /\ OnlyOne(accepted) = {} /\ Refuse("AmbiguousTarget")

\* (Fault) That a section holds the known place is taken for enough.
StartUnmatched(start) == InSection(start, 1)

StartMatches(start) == start \in Scan(recipe.signature)

\* checked_known_signature_write: the start of the signature is computed from
\* the target's known RVA, and must be among the matches.
FindKnownStart ==
  /\ pc = "scan"
  /\ recipe.method = "knownSignature"
  /\ LET start == recipe.rva - recipe.offset
         outside == Outside(start, Len(recipe.signature))
     IN  \/ recipe.rva < recipe.offset /\ Refuse("NoValidatedTarget")
         \/ /\ recipe.rva >= recipe.offset
            /\ \/ \E r \in outside : Refuse(r)
               \/ outside = {} /\ ~StartMatches(start)
                    /\ Refuse("NoValidatedTarget")
               \/ /\ outside = {} /\ StartMatches(start)
                  /\ Go("rva")
                  /\ UNCHANGED <<imageVars, planVars>>

\* The target itself, which is all that plan_predecessor_tapes looks at in the
\* Retail build.
FindKnownTarget ==
  /\ pc = "rva" \/ (pc = "scan" /\ recipe.method = "knownRva")
  /\ \/ \E r \in Outside(recipe.rva, Length) : Refuse(r)
     \/ /\ Outside(recipe.rva, Length) = {}
        /\ target' = recipe.rva
        /\ Go("validate")
        /\ UNCHANGED <<imageVars, queue, accepted>>

\* CheckedWrite::validated; the plan is ready.
Validate ==
  /\ pc = "validate"
  /\ \/ Valid(target) /\ Go("ready") /\ UNCHANGED <<imageVars, planVars>>
     \/ ~Readable(target) /\ Refuse("Unreadable")
     \/ Readable(target) /\ ~Valid(target) /\ Refuse("UnexpectedBytes")

\* write_checked, as a step of its own (CheckedWrite has its inside).
Apply ==
  /\ pc = "ready"
  /\ \/ ~Readable(target) /\ Refuse("Unreadable")
     \/ Readable(target) /\ ~Valid(target) /\ Refuse("UnexpectedBytes")
     \/ Readable(target) /\ At(target, recipe.replacement)
          /\ Refuse("AlreadyApplied")
     \/ /\ Readable(target) /\ At(target, recipe.expected)
        /\ pc' = "done"
        /\ result' = "Applied"
        /\ memory' = [a \in Address |->
                        IF a \in target..(target + Length - 1)
                          THEN recipe.replacement[a - target + 1]
                          ELSE memory[a]]
        /\ UNCHANGED <<readable, stores, taken, recipe, imageVars, planVars,
                       first>>

\* The second patcher starts.
Again ==
  /\ pc = "done"
  /\ first.result = "none"
  /\ first' = [target |-> target, result |-> result]
  /\ pc' = "check"
  /\ next' = 1
  /\ queue' = {}
  /\ accepted' = {}
  /\ target' = Nowhere
  /\ result' = "none"
  /\ UNCHANGED <<worldVars, recipe, snapshot>>

MayMeddle ==
  /\ pc \notin {"done", "crashed"}
  /\ stores + Cardinality(taken) < MaxMeddling
  /\ UNCHANGED <<recipe, pc, imageVars, planVars, result, first>>

\* Another thread stores a byte.
Store ==
  /\ MayMeddle
  /\ \E a \in Address, b \in Byte :
       /\ memory[a] # b
       /\ memory' = [memory EXCEPT ![a] = b]
  /\ stores' = stores + 1
  /\ UNCHANGED <<readable, taken>>

\* Another thread takes a section's pages away.
TakeAway ==
  /\ MayMeddle
  /\ \E i \in readable : readable' = readable \ {i} /\ taken' = taken \cup {i}
  /\ UNCHANGED <<memory, stores>>

\* One section at most is not readable from the beginning, whatever its header
\* says.
ScanInit ==
  /\ memory \in [Address -> Byte]
  /\ readable \in {Index} \cup {Index \ {i} : i \in Index}
  /\ recipe \in Recipe
  /\ pc = "check"
  /\ next = 1
  /\ snapshot = memory
  /\ queue = {}
  /\ accepted = {}
  /\ target = Nowhere
  /\ result = "none"
  /\ first = [target |-> Nowhere, result |-> "none"]
  /\ stores = 0
  /\ taken = {}

Step ==
  \/ CheckSection \/ CopySection
  \/ FindRawMatches \/ (\E a \in queue : Match(a)) \/ Choose
  \/ FindKnownStart \/ FindKnownTarget
  \/ Validate \/ Apply \/ Again

ScanNext == Step \/ Store \/ TakeAway

ScanSpec == ScanInit /\ [][ScanNext]_scanVars
-----------------------------------------------------------------------------
(* Properties. *)

\* The process is never ended by the copy of a section, unless somebody took
\* its pages away after they had been found readable: a section that cannot be
\* read refuses the module instead (sigscan.rs:161-166).
FaultNeedsTaking == pc = "crashed" => next \in taken

\* The patcher writes only inside one section of the class it searched, and
\* never between two sections, whatever others do meanwhile.
WritesInScope ==
  [][Apply /\ memory' # memory =>
       \E s \in InScope :
         \A a \in Address : memory'[a] # memory[a] =>
                              a \in s.rva..(s.rva + s.size - 1)]_scanVars

\* The places a reader of the disassembly would accept: the whole signature
\* around a target that is original or patched, in one section.
Places ==
  {t \in Address :
     \E s \in InScope, a \in Address :
       /\ t = a + recipe.offset
       /\ Within(s, a, Len(recipe.signature)) /\ Within(s, t, Length)
       /\ Matches(recipe.signature, memory, a)
       /\ Valid(t)}

Undisturbed == stores = 0 /\ readable = Index

\* A signature is patched only where it leads to one place, and never one of
\* several (mod.rs:376): as long as nobody else touches the image, a plan is
\* ready only for that place, and a refusal means that there is none or more
\* than one.
OnePlaceOnly ==
  Undisturbed /\ recipe.method = "signature" =>
    /\ pc = "ready" => Places = {target}
    /\ pc = "done" /\ result \in Refusals =>
         \A t \in Address : Places # {t}

\* Who patches after another patcher finds the same place, and finds it patched
\* ("idempotent discovery", mod.rs:42-55): no signature loses its target, and
\* none gains a second one, because it has been patched.
SecondFindsFirst ==
  Undisturbed /\ first.result \in Patched /\ pc = "done" /\ result # "none" =>
    result = "AlreadyApplied" /\ target = first.target

\* Whatever others store, a plan that is ready rests on a signature that was
\* there when the image was made, except for the one recipe that has only an
\* RVA: no target is taken from bytes that others wrote afterwards.
ContextWasThere ==
  pc = "ready" /\ recipe.method # "knownRva" =>
    /\ target >= recipe.offset
    /\ target - recipe.offset \in Scan(recipe.signature)
=============================================================================
