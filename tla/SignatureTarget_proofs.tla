------------------------ MODULE SignatureTarget_proofs ------------------------
(***************************************************************************)
(* Proofs about the search for a patch's target, for any image whose       *)
(* sections are apart, any recipe and any number of stores by others.      *)
(***************************************************************************)
EXTENDS SignatureTarget, TLAPS

Copying == {"check", "copy"}
Using   == {"scan", "match", "rva", "validate", "ready"}
Found   == {"validate", "ready"}

TypeOK ==
  /\ memory \in [Address -> Byte]
  /\ readable \subseteq Index
  /\ recipe \in Recipe
  /\ pc \in Copying \cup Using \cup {"done", "crashed"}
  /\ next \in Nat
  /\ snapshot \in [Address -> Byte]
  /\ queue \subseteq Address
  /\ accepted \subseteq Address
  /\ target \in Nat
  /\ result \in Patched \cup Refusals \cup {"none"}
  /\ first \in [target : Nat, result : Patched \cup Refusals \cup {"none"}]
  /\ stores \in Nat
  /\ taken \subseteq Index

\* A section is copied after it was found readable.
ImageInv ==
  /\ pc \in Copying => next \in Index
  /\ pc = "copy" => next \in readable \cup taken
  /\ pc = "crashed" => next \in taken

\* What is found lies in one section of the scope.
PlaceInv ==
  /\ \A t \in accepted : InSection(t, Length)
  /\ pc \in Found => InSection(target, Length)

\* A place for which the signature was found in the image.
Matched(t) ==
  t >= recipe.offset /\ t - recipe.offset \in Scan(recipe.signature)

\* The signature leads to what is found by it.
ContextInv ==
  /\ pc \in Copying \cup {"scan"} => accepted = {}
  /\ pc = "match" =>
       /\ recipe.method = "signature"
       /\ queue \subseteq Scan(recipe.signature)
       /\ \A t \in accepted : Matched(t)
  /\ pc = "rva" => recipe.method = "knownSignature" /\ Matched(recipe.rva)
  /\ pc \in Found /\ recipe.method # "knownRva" => Matched(target)

\* The sections copied since the image was begun hold what is in memory, unless
\* others have stored to it.
SnapshotInv ==
  stores = 0 =>
    \A i \in Index, a \in Address :
      /\ Within(Sections[i], a, 1)
      /\ pc \in Using \/ (pc \in Copying /\ i < next)
      => snapshot[a] = memory[a]

\* The targets that the matches in a set lead to and that are not rejected.
Targets(matches) ==
  {t \in Address : \E a \in matches : /\ t = a + recipe.offset
                                      /\ ContainsRelativeTarget(a, t)
                                      /\ Valid(t)}

\* The search has found the targets of the matches it has looked at, and ends
\* accordingly.
SearchInv ==
  Undisturbed /\ recipe.method = "signature" =>
    /\ pc = "match" => accepted = Targets(Scan(recipe.signature) \ queue)
    /\ pc \in Found => Places = {target}
    /\ pc = "done" /\ result \in Refusals => \A t \in Address : Places # {t}

\* Where the search for a recipe leads: to the one place of its signature, or
\* to its RVA, with the signature around it where it has one.
LeadsTo(t) ==
  IF recipe.method = "signature" THEN Places = {t}
  ELSE /\ t = recipe.rva
       /\ InSection(t, Length)
       /\ recipe.method = "knownSignature" =>
            LET start == t - recipe.offset
                sig == recipe.signature
            IN  /\ t >= recipe.offset
                /\ InSection(start, Len(sig))
                /\ Matches(sig, memory, start)

\* A place that is patched, and still is where the search leads.
Settled(t) == LeadsTo(t) /\ At(t, recipe.replacement)

\* What a patcher has patched stays found, and patched.
RepeatInv ==
  /\ pc \in Found /\ recipe.method # "signature" => target = recipe.rva
  /\ Undisturbed =>
       /\ pc \in Found => LeadsTo(target)
       /\ pc = "done" /\ result \in Patched => Settled(target)
       /\ first.result \in Patched =>
            /\ Settled(first.target)
            /\ pc = "done" => result = "AlreadyApplied"
                              /\ target = first.target

ScanInv == ImageInv /\ PlaceInv /\ ContextInv /\ SnapshotInv /\ SearchInv
             /\ RepeatInv
-----------------------------------------------------------------------------
(* The constants. *)

\* What is known of the recipe that is followed.
LEMMA RecipeFacts ==
  ASSUME TypeOK
  PROVE  /\ recipe.method \in Methods
         /\ recipe.signature # <<>>
         /\ recipe.signature \in Seq(Byte \cup {Any})
         /\ Len(recipe.signature) \in Nat /\ Len(recipe.signature) > 0
         /\ recipe.offset \in Nat /\ recipe.rva \in Nat
         /\ Length \in Nat /\ Length > 0
         /\ recipe.expected \in Seq(Byte)
         /\ recipe.replacement \in Seq(Byte)
         /\ Len(recipe.replacement) = Length
<1>1. recipe \in Recipe
  BY DEF TypeOK
<1>2. /\ recipe.signature \in Seq(Byte \cup {Any}) /\ recipe.signature # <<>>
      /\ recipe.expected \in Seq(Byte) /\ recipe.expected # <<>>
      /\ recipe.replacement \in Seq(Byte)
      /\ Len(recipe.expected) = Len(recipe.replacement)
  BY <1>1, RecipeAssumption
<1>3. Len(recipe.signature) \in Nat /\ Len(recipe.signature) > 0
  BY <1>2
<1>4. Len(recipe.expected) \in Nat /\ Len(recipe.expected) > 0
  BY <1>2
<1> QED BY <1>1, <1>2, <1>3, <1>4, RecipeAssumption DEF Length

\* What is known of the sections.
LEMMA SectionFacts ==
  /\ Size \in Nat
  /\ Index = 1..Len(Sections) /\ Len(Sections) \in Nat /\ 1 \in Index
  /\ \A i \in Index : /\ Sections[i].rva \in Nat /\ Sections[i].size \in Nat
                      /\ Sections[i].rva + Sections[i].size <= Size
<1>1. Len(Sections) \in Nat /\ Len(Sections) > 0
  BY SectionAssumption
<1>2. Index = 1..Len(Sections)
  BY SectionAssumption DEF Index
<1>3. \A i \in Index : Sections[i] \in [rva : Nat, size : Nat, scope : Scope]
  <2> DEFINE R == [rva : Nat, size : Nat, scope : Scope]
  <2>1. Sections \in Seq(R)
    BY SectionAssumption
  <2> HIDE DEF R
  <2>2. \A i \in 1..Len(Sections) : Sections[i] \in R
    BY <2>1
  <2> QED BY <1>2, <2>2 DEF R
<1>4. \A i \in Index : Sections[i].rva \in Nat /\ Sections[i].size \in Nat
  BY <1>3
<1> QED BY <1>1, <1>2, <1>4, ApartAssumption

\* A place in a section is a place in the image.
LEMMA PlaceInImage ==
  ASSUME TypeOK, NEW t \in Nat, NEW n \in Nat, n > 0, InSection(t, n)
  PROVE  t \in Address /\ t + n <= Size
BY SectionFacts DEF InSection, InScope, Section, Within, Address

\* Each byte of a window is in the section the window is in.
LEMMA BytesOfWindow ==
  ASSUME NEW i \in Index, NEW a \in Nat, NEW n \in Nat, NEW k \in 1..n,
         Within(Sections[i], a, n)
  PROVE  a + k - 1 \in Address /\ Within(Sections[i], a + k - 1, 1)
<1> DEFINE rva == Sections[i].rva
           size == Sections[i].size
<1>1. rva \in Nat /\ size \in Nat /\ Size \in Nat /\ rva + size <= Size
  BY SectionFacts
<1>2. rva <= a /\ a + n <= rva + size
  BY DEF Within
<1> HIDE DEF rva, size
<1>3. rva <= a + k - 1 /\ a + k - 1 + 1 <= rva + size
  BY <1>1, <1>2
<1>4. a + k - 1 \in 0..(Size - 1)
  BY <1>1, <1>2
<1> QED BY <1>3, <1>4 DEF Within, Address, rva, size

\* The window of a match, like what begins in a section, is in that section
\* alone.
LEMMA OneSection ==
  ASSUME NEW i \in Index, NEW j \in Index, NEW a \in Nat,
         Within(Sections[i], a, 1), Within(Sections[j], a, 1)
  PROVE  i = j
<1>1. /\ Sections[i].rva \in Nat /\ Sections[i].size \in Nat
      /\ Sections[j].rva \in Nat /\ Sections[j].size \in Nat
  BY SectionFacts
<1>2. i # j => \/ Sections[i].rva + Sections[i].size <= Sections[j].rva
               \/ Sections[j].rva + Sections[j].size <= Sections[i].rva
  BY ApartAssumption
<1> QED BY <1>1, <1>2 DEF Within
-----------------------------------------------------------------------------
(* The types. *)

\* Every step keeps the types.
LEMMA TypePreserved ==
  TypeOK /\ ImageInv /\ PlaceInv /\ [ScanNext]_scanVars => TypeOK'
<1> SUFFICES ASSUME TypeOK, ImageInv, PlaceInv, [ScanNext]_scanVars
             PROVE  TypeOK'
  OBVIOUS
<1> USE DEF Go, Refuse, worldVars, imageVars, planVars, Copying, Using
<1>0. Size \in Nat
  BY SectionFacts
<1>1. CASE CheckSection
  BY <1>1 DEF TypeOK, CheckSection, Refusals
<1>2. CASE CopySection
  <2>1. snapshot' \in [Address -> Byte]
    <3>1. CASE next \in readable
      BY <1>2, <3>1 DEF TypeOK, CopySection
    <3>2. CASE next \notin readable
      BY <1>2, <3>2 DEF TypeOK, CopySection
    <3> QED BY <3>1, <3>2
  <2>2. next' \in Nat
    BY <1>2 DEF TypeOK, CopySection
  <2>3. pc' \in Copying \cup Using \cup {"done", "crashed"}
    BY <1>2 DEF CopySection
  <2>4. UNCHANGED <<worldVars, recipe, planVars, result, first>>
    BY <1>2 DEF CopySection
  <2> QED BY <2>1, <2>2, <2>3, <2>4 DEF TypeOK
<1>3. CASE FindRawMatches
  <2>1. Scan(recipe.signature) \subseteq Address
    BY DEF Scan
  <2> HIDE DEF Scan
  <2>2. CASE Scan(recipe.signature) = {}
    <3>1. Refuse("SignatureNotFound")
      BY <1>3, <2>2 DEF FindRawMatches
    <3> QED BY <3>1 DEF TypeOK, Refusals
  <2>3. CASE Scan(recipe.signature) # {}
    BY <1>3, <2>1, <2>3 DEF TypeOK, FindRawMatches
  <2> QED BY <2>2, <2>3
<1>4. ASSUME NEW a \in queue, Match(a) PROVE TypeOK'
  <2> DEFINE t == a + recipe.offset
  <2>1. a \in Nat /\ t \in Nat
    BY <1>0, RecipeFacts DEF TypeOK, Address
  <2>2. ContainsRelativeTarget(a, t) => t \in Address
    <3>1. ContainsRelativeTarget(a, t) => InSection(t, Length)
      BY DEF ContainsRelativeTarget, InSection
    <3> QED BY <2>1, <3>1, RecipeFacts, PlaceInImage
  <2>3. accepted' \subseteq Address
    BY <1>4, <2>2 DEF TypeOK, Match
  <2>4. queue' \subseteq Address
    BY <1>4 DEF TypeOK, Match
  <2>5. pc' = "match"
        /\ UNCHANGED <<worldVars, recipe, imageVars, target, result, first>>
    BY <1>4 DEF Match
  <2> QED BY <2>3, <2>4, <2>5 DEF TypeOK
<1>5. CASE Choose
  <2>1. accepted \subseteq Nat
    BY <1>0 DEF TypeOK, Address
  <2>2. target' \in Nat
    BY <1>5, <2>1 DEF TypeOK, Choose, OnlyOne
  <2>3. pc' \in Copying \cup Using \cup {"done", "crashed"}
        /\ result' \in Patched \cup Refusals \cup {"none"}
    BY <1>5 DEF TypeOK, Choose, Refusals
  <2>4. UNCHANGED <<worldVars, recipe, imageVars, queue, accepted, first>>
    BY <1>5 DEF Choose
  <2> QED BY <2>2, <2>3, <2>4 DEF TypeOK
<1>6. CASE FindKnownStart
  <2>1. \A rva, n : Outside(rva, n) \subseteq Refusals
    BY DEF Outside, Refusals
  <2>2. pc' \in Copying \cup Using \cup {"done", "crashed"}
        /\ result' \in Patched \cup Refusals \cup {"none"}
        /\ UNCHANGED <<worldVars, recipe, imageVars, planVars, first>>
    BY <1>6, <2>1 DEF TypeOK, FindKnownStart, Refusals
  <2> QED BY <2>2 DEF TypeOK
<1>7. CASE FindKnownTarget
  <2>1. \A rva, n : Outside(rva, n) \subseteq Refusals
    BY DEF Outside, Refusals
  <2>2. pc' \in Copying \cup Using \cup {"done", "crashed"}
        /\ result' \in Patched \cup Refusals \cup {"none"}
        /\ UNCHANGED <<worldVars, recipe, imageVars, queue, accepted, first>>
    BY <1>7, <2>1 DEF TypeOK, FindKnownTarget
  <2>3. target' \in Nat
    BY <1>7, RecipeFacts DEF TypeOK, FindKnownTarget
  <2> QED BY <2>2, <2>3 DEF TypeOK
<1>8. CASE Validate
  BY <1>8 DEF TypeOK, Validate, Refusals
<1>9. CASE Apply
  <2>1. CASE \E r \in Refusals \cup Patched : Refuse(r)
    BY <2>1 DEF TypeOK
  <2>2. CASE result' = "Applied" /\ pc' = "done"
             /\ memory' = [a \in Address |->
                             IF a \in target..(target + Length - 1)
                               THEN recipe.replacement[a - target + 1]
                               ELSE memory[a]]
             /\ UNCHANGED <<readable, stores, taken, recipe, imageVars,
                            planVars, first>>
    <3>1. ASSUME NEW a \in Address, a \in target..(target + Length - 1)
          PROVE  recipe.replacement[a - target + 1] \in Byte
      <4>1. a - target + 1 \in 1..Length
        BY <1>0, <3>1, RecipeFacts DEF TypeOK, Address
      <4> QED BY <4>1, RecipeFacts
    <3>2. memory' \in [Address -> Byte]
      BY <2>2, <3>1 DEF TypeOK
    <3> QED BY <2>2, <3>2 DEF TypeOK, Patched
  <2> QED BY <1>9, <2>1, <2>2 DEF Apply, Refusals, Patched
<1>10. CASE Again
  <2>1. first' \in [target : Nat, result : Patched \cup Refusals \cup {"none"}]
    BY <1>10 DEF TypeOK, Again
  <2>2. queue' \subseteq Address /\ accepted' \subseteq Address
    BY <1>10 DEF Again
  <2>3. pc' = "check" /\ next' = 1 /\ result' = "none" /\ target' \in Nat
        /\ UNCHANGED <<worldVars, recipe, snapshot>>
    BY <1>0, <1>10 DEF Again, Nowhere
  <2> QED BY <2>1, <2>2, <2>3 DEF TypeOK
<1>11. CASE Store
  BY <1>11 DEF TypeOK, Store, MayMeddle
<1>12. CASE TakeAway
  BY <1>12 DEF TypeOK, TakeAway, MayMeddle
<1>13. CASE UNCHANGED scanVars
  BY <1>13 DEF TypeOK, scanVars
<1> QED BY <1>1, <1>2, <1>3, <1>4, <1>5, <1>6, <1>7, <1>8, <1>9, <1>10,
           <1>11, <1>12, <1>13 DEF ScanNext, Step
-----------------------------------------------------------------------------
(* The search. *)

\* The recipe never changes while it is followed.
LEMMA SameRecipe == [ScanNext]_scanVars => recipe' = recipe
BY DEF ScanNext, Step, CheckSection, CopySection, FindRawMatches, Match,
   Choose, FindKnownStart, FindKnownTarget, Validate, Apply, Again, Store,
   TakeAway, MayMeddle, Go, Refuse, scanVars

\* Only a copy changes what the signatures are searched for in.
LEMMA SameSnapshot ==
  [ScanNext]_scanVars => snapshot' = snapshot \/ CopySection
BY DEF ScanNext, Step, CheckSection, FindRawMatches, Match,
   Choose, FindKnownStart, FindKnownTarget, Validate, Apply, Again, Store,
   TakeAway, MayMeddle, Refuse, scanVars, imageVars

\* A copy of the image begins with a section that is readable, and a section
\* stays readable or is taken away.
LEMMA ImagePreserved ==
  TypeOK /\ ImageInv /\ [ScanNext]_scanVars => ImageInv'
<1> SUFFICES ASSUME TypeOK, ImageInv, [ScanNext]_scanVars PROVE ImageInv'
  OBVIOUS
<1> USE DEF ImageInv, Go, Refuse, worldVars, imageVars, Copying
<1>1. CASE CheckSection
  BY <1>1 DEF CheckSection, RangeReadable
<1>2. CASE CopySection
  <2>1. CASE next \in readable
    <3>1. next' = next + 1 /\ pc' \in {"scan", "check"}
          /\ (next = Len(Sections) => pc' = "scan")
      BY <1>2, <2>1 DEF CopySection
    <3>2. pc' = "check" => next' \in Index
      BY <1>2, <3>1, SectionFacts DEF CopySection
    <3> QED BY <3>1, <3>2
  <2>2. CASE next \notin readable
    BY <1>2, <2>2 DEF CopySection
  <2> QED BY <2>1, <2>2
<1>3. CASE FindRawMatches \/ (\E a \in queue : Match(a)) \/ Choose
           \/ FindKnownStart \/ FindKnownTarget \/ Validate \/ Apply
  <2>1. pc' \notin Copying \cup {"crashed"}
    BY <1>3 DEF FindRawMatches, Match, Choose, FindKnownStart,
       FindKnownTarget, Validate, Apply
  <2> QED BY <2>1
<1>4. CASE Again
  BY <1>4, SectionFacts DEF Again
<1>5. CASE Store
  BY <1>5 DEF Store, MayMeddle
<1>6. CASE TakeAway
  BY <1>6 DEF TakeAway, MayMeddle
<1>7. CASE UNCHANGED scanVars
  BY <1>7 DEF scanVars
<1> QED BY <1>1, <1>2, <1>3, <1>4, <1>5, <1>6, <1>7 DEF ScanNext, Step

\* Every target that is found, or known, is checked to lie in one section.
LEMMA PlacePreserved == TypeOK /\ PlaceInv /\ [ScanNext]_scanVars => PlaceInv'
<1> SUFFICES ASSUME TypeOK, PlaceInv, [ScanNext]_scanVars PROVE PlaceInv'
  OBVIOUS
<1>0. \A rva : InSection(rva, Length)' <=> InSection(rva, Length)
  BY SameRecipe DEF InSection, InScope, Length
<1>1. ASSUME accepted' \subseteq accepted, target' = target,
             pc' \in Found => pc \in Found
      PROVE  PlaceInv'
  BY <1>0, <1>1 DEF PlaceInv
<1> USE DEF Go, Refuse, worldVars, imageVars, planVars, Found
<1>2. CASE CheckSection \/ CopySection \/ FindRawMatches \/ FindKnownStart
           \/ Validate \/ Apply \/ Store \/ TakeAway
  <2>1. accepted' = accepted /\ target' = target
    BY <1>2 DEF CheckSection, CopySection, FindRawMatches, FindKnownStart,
       Validate, Apply, Store, TakeAway, MayMeddle
  <2>2. pc' \in Found => pc \in Found
    BY <1>2 DEF CheckSection, CopySection, FindRawMatches, FindKnownStart,
       Validate, Apply, Store, TakeAway, MayMeddle
  <2> QED BY <1>1, <2>1, <2>2
<1>3. ASSUME NEW a \in queue, Match(a) PROVE PlaceInv'
  <2> DEFINE t == a + recipe.offset
  <2>1. accepted' = (IF ContainsRelativeTarget(a, t) /\ Valid(t)
                       THEN accepted \cup {t} ELSE accepted)
        /\ pc' = "match"
    BY <1>3 DEF Match
  <2>2. ContainsRelativeTarget(a, t) => InSection(t, Length)
    BY DEF ContainsRelativeTarget, InSection
  <2>3. \A u \in accepted' : InSection(u, Length)
    BY <2>1, <2>2 DEF PlaceInv
  <2> QED BY <1>0, <2>1, <2>3 DEF PlaceInv
<1>4. CASE Choose
  <2>1. accepted' = accepted /\ (pc' \in Found => target' \in accepted)
    BY <1>4 DEF Choose, OnlyOne
  <2> QED BY <1>0, <2>1 DEF PlaceInv
<1>5. CASE FindKnownTarget
  <2>1. accepted' = accepted
    BY <1>5 DEF FindKnownTarget
  <2>2. pc' \in Found => InSection(target', Length)
    BY <1>5 DEF FindKnownTarget, Outside
  <2> QED BY <1>0, <2>1, <2>2 DEF PlaceInv
<1>6. CASE Again
  BY <1>6 DEF PlaceInv, Again
<1>7. CASE UNCHANGED scanVars
  BY <1>1, <1>7 DEF scanVars
<1> QED BY <1>2, <1>3, <1>4, <1>5, <1>6, <1>7 DEF ScanNext, Step

\* The signature stays where it was found, for the image is not copied again
\* before the plan is made.
LEMMA ContextPreserved ==
  TypeOK /\ ContextInv /\ [ScanNext]_scanVars => ContextInv'
<1> SUFFICES ASSUME TypeOK, ContextInv, [ScanNext]_scanVars
             PROVE  ContextInv'
  OBVIOUS
<1>1. recipe' = recipe
  BY SameRecipe
<1>2. ASSUME snapshot' = snapshot
      PROVE  /\ Scan(recipe.signature)' = Scan(recipe.signature)
             /\ \A t : Matched(t)' <=> Matched(t)
  BY <1>1, <1>2 DEF Scan, InScope, Matched
<1> USE DEF Go, Refuse, worldVars, imageVars, planVars, Found
<1>3. CASE CheckSection \/ CopySection \/ Again
  <2>1. accepted' = {}
    BY <1>3 DEF CheckSection, CopySection, Again, ContextInv, Copying
  <2>2. pc' \in Copying \cup {"scan", "done", "crashed"}
    BY <1>3 DEF CheckSection, CopySection, Again, Copying
  <2> QED BY <2>1, <2>2 DEF ContextInv, Copying
<1>4. CASE FindRawMatches
  <2>1. snapshot' = snapshot
    BY <1>4 DEF FindRawMatches
  <2>2. accepted = {} /\ accepted' = accepted
    BY <1>4 DEF FindRawMatches, ContextInv, Copying
  <2>3. pc' \in {"match", "done"}
    BY <1>4 DEF FindRawMatches
  <2>4. pc' = "match" =>
          recipe.method = "signature" /\ queue' = Scan(recipe.signature)
    BY <1>4 DEF FindRawMatches
  <2> QED BY <1>1, <1>2, <2>1, <2>2, <2>3, <2>4 DEF ContextInv, Copying
<1>5. ASSUME NEW a \in queue, Match(a) PROVE ContextInv'
  <2> DEFINE t == a + recipe.offset
  <2>1. snapshot' = snapshot /\ pc = "match" /\ pc' = "match"
        /\ queue' \subseteq queue /\ accepted' \subseteq accepted \cup {t}
    BY <1>5 DEF Match
  <2>2. Matched(t)
    <3>1. a \in Scan(recipe.signature)
      BY <1>5, <2>1 DEF ContextInv
    <3>2. a \in Nat /\ recipe.offset \in Nat
      BY SectionFacts, RecipeFacts DEF TypeOK, Address
    <3>3. t >= recipe.offset /\ t - recipe.offset = a
      BY <3>2
    <3> QED BY <3>1, <3>3 DEF Matched
  <2> QED BY <1>1, <1>2, <2>1, <2>2 DEF ContextInv, Copying
<1>6. CASE Choose
  <2>1. snapshot' = snapshot /\ pc = "match" /\ pc' \in {"validate", "done"}
        /\ (pc' = "validate" => target' \in accepted)
    BY <1>6 DEF Choose, OnlyOne
  <2> QED BY <1>1, <1>2, <2>1 DEF ContextInv, Copying
<1>7. CASE FindKnownStart
  <2>1. snapshot' = snapshot /\ pc' \in {"rva", "done"}
    BY <1>7 DEF FindKnownStart
  <2>2. pc' = "rva" => recipe.method = "knownSignature" /\ Matched(recipe.rva)
    BY <1>7 DEF FindKnownStart, StartMatches, Matched
  <2> QED BY <1>1, <1>2, <2>1, <2>2 DEF ContextInv, Copying
<1>8. CASE FindKnownTarget
  <2>1. snapshot' = snapshot /\ pc' \in {"validate", "done"}
    BY <1>8 DEF FindKnownTarget
  <2>2. pc' = "validate" =>
          target' = recipe.rva /\ (pc = "rva" \/ recipe.method = "knownRva")
    BY <1>8 DEF FindKnownTarget
  <2> QED BY <1>1, <1>2, <2>1, <2>2 DEF ContextInv, Copying
<1>9. CASE Validate \/ Apply
  <2>1. UNCHANGED <<snapshot, target>>
        /\ (pc' = "done" \/ (pc' = "ready" /\ pc = "validate"))
    BY <1>9 DEF Validate, Apply
  <2> QED BY <1>1, <1>2, <2>1 DEF ContextInv, Copying
<1>10. CASE Store \/ TakeAway \/ UNCHANGED scanVars
  <2>1. UNCHANGED <<snapshot, pc, queue, accepted, target>>
    BY <1>10 DEF Store, TakeAway, MayMeddle, scanVars
  <2> QED BY <1>1, <1>2, <2>1 DEF ContextInv
<1> QED BY <1>3, <1>4, <1>5, <1>6, <1>7, <1>8, <1>9, <1>10
        DEF ScanNext, Step

\* Others disturb the image for good.
LEMMA OnceDisturbed ==
  TypeOK /\ [ScanNext]_scanVars =>
    /\ stores' = 0 => stores = 0
    /\ Undisturbed' => Undisturbed
<1> SUFFICES ASSUME TypeOK, [ScanNext]_scanVars
             PROVE  /\ stores' = 0 => stores = 0
                    /\ Undisturbed' => Undisturbed
  OBVIOUS
<1>1. stores' = stores \/ stores' = stores + 1
  BY DEF ScanNext, Step, CheckSection, CopySection, FindRawMatches, Match,
     Choose, FindKnownStart, FindKnownTarget, Validate, Apply, Again, Store,
     TakeAway, MayMeddle, Go, Refuse, scanVars, worldVars
<1>2. readable' \subseteq readable
  BY DEF ScanNext, Step, CheckSection, CopySection, FindRawMatches, Match,
     Choose, FindKnownStart, FindKnownTarget, Validate, Apply, Again, Store,
     TakeAway, MayMeddle, Go, Refuse, scanVars, worldVars
<1>3. stores' = 0 => stores = 0
  BY <1>1 DEF TypeOK
<1>4. readable' = Index => readable = Index
  BY <1>2 DEF TypeOK
<1> QED BY <1>3, <1>4 DEF Undisturbed

\* The sections are copied one after the other.
LEMMA SnapshotPreserved ==
  TypeOK /\ ImageInv /\ SnapshotInv /\ [ScanNext]_scanVars => SnapshotInv'
<1> SUFFICES ASSUME TypeOK, ImageInv, SnapshotInv, [ScanNext]_scanVars,
                    stores' = 0, NEW i \in Index, NEW a \in Address,
                    Within(Sections[i], a, 1),
                    pc' \in Using \/ (pc' \in Copying /\ i < next')
             PROVE  snapshot'[a] = memory'[a]
  BY DEF SnapshotInv, Within
<1>1. stores = 0
  BY OnceDisturbed
<1> USE DEF Go, Refuse, worldVars, imageVars, Copying, Using
<1>2. CASE CheckSection
  BY <1>1, <1>2 DEF CheckSection, SnapshotInv
<1>3. CASE CopySection
  <2>1. /\ next \in readable /\ next' = next + 1 /\ memory' = memory
        /\ pc' = (IF next = Len(Sections) THEN "scan" ELSE "check")
    BY <1>3 DEF CopySection
  <2>2. snapshot'[a] = IF Within(Sections[next], a, 1)
                         THEN memory[a] ELSE snapshot[a]
    BY <1>3, <2>1 DEF CopySection
  <2>3. i <= next
    BY <2>1, SectionFacts DEF TypeOK
  <2>4. CASE i = next
    BY <2>1, <2>2, <2>4
  <2>5. CASE i < next
    <3>1. snapshot[a] = memory[a]
      BY <1>1, <1>3, <2>5 DEF CopySection, SnapshotInv
    <3> QED BY <2>1, <2>2, <3>1
  <2> QED BY <2>3, <2>4, <2>5, SectionFacts DEF TypeOK
<1>4. CASE FindRawMatches \/ (\E b \in queue : Match(b)) \/ Choose
           \/ FindKnownStart \/ FindKnownTarget \/ Validate
  <2>1. pc \in Using /\ UNCHANGED <<memory, snapshot>>
    BY <1>4 DEF FindRawMatches, Match, Choose, FindKnownStart,
       FindKnownTarget, Validate
  <2> QED BY <1>1, <2>1 DEF SnapshotInv
<1>5. CASE Apply
  BY <1>5 DEF Apply
<1>6. CASE Again
  BY <1>6, SectionFacts DEF Again
<1>7. CASE Store
  BY <1>1, <1>7 DEF Store
<1>8. CASE TakeAway
  BY <1>1, <1>8 DEF TakeAway, MayMeddle, SnapshotInv
<1>9. CASE UNCHANGED scanVars
  BY <1>1, <1>9 DEF scanVars, SnapshotInv
<1> QED BY <1>2, <1>3, <1>4, <1>5, <1>6, <1>7, <1>8, <1>9 DEF ScanNext, Step

\* A match leads to a target in the section it was found in, so the targets of
\* all matches are the places a reader would accept.
LEMMA MatchesLeadToPlaces ==
  ASSUME TypeOK, SnapshotInv, stores = 0, pc \in Using
  PROVE  Places = Targets(Scan(recipe.signature))
<1> DEFINE sig == recipe.signature
<1>1. \A s \in Section, a \in Address :
        Within(s, a, Len(sig)) =>
          (Matches(sig, snapshot, a) <=> Matches(sig, memory, a))
  <2> SUFFICES ASSUME NEW i \in Index, NEW a \in Address,
                      Within(Sections[i], a, Len(sig))
               PROVE  Matches(sig, snapshot, a) <=> Matches(sig, memory, a)
    BY DEF Section
  <2>1. \A k \in DOMAIN sig : snapshot[a + k - 1] = memory[a + k - 1]
    <3> SUFFICES ASSUME NEW k \in 1..Len(sig)
                 PROVE  snapshot[a + k - 1] = memory[a + k - 1]
      BY RecipeFacts
    <3>1. a \in Nat /\ Len(sig) \in Nat
      BY SectionFacts, RecipeFacts DEF Address
    <3>2. a + k - 1 \in Address /\ Within(Sections[i], a + k - 1, 1)
      BY <3>1, BytesOfWindow
    <3> QED BY <3>2 DEF SnapshotInv
  <2> QED BY <2>1 DEF Matches
<1>2. ASSUME NEW t \in Places PROVE t \in Targets(Scan(sig))
  <2>1. PICK s \in InScope, a \in Address :
               /\ t = a + recipe.offset
               /\ Within(s, a, Len(sig)) /\ Within(s, t, Length)
               /\ Matches(sig, memory, a)
               /\ Valid(t)
    BY DEF Places
  <2>2. s \in Section
    BY DEF InScope
  <2>3. a \in Scan(sig)
    BY <1>1, <2>1, <2>2 DEF Scan
  <2>4. Within(s, a, 1)
    <3>1. PICK i \in Index : s = Sections[i]
      BY <2>2 DEF Section
    <3>2. a \in Nat /\ 1 \in 1..Len(sig) /\ Len(sig) \in Nat /\ a + 1 - 1 = a
      BY SectionFacts, RecipeFacts DEF Address
    <3> QED BY <2>1, <3>1, <3>2, BytesOfWindow
  <2> QED BY <2>1, <2>3, <2>4 DEF Targets, ContainsRelativeTarget, Places
<1>3. ASSUME NEW t \in Targets(Scan(sig)) PROVE t \in Places
  <2>1. PICK a \in Scan(sig) : /\ t = a + recipe.offset
                               /\ ContainsRelativeTarget(a, t)
                               /\ Valid(t)
    BY DEF Targets
  <2>2. a \in Address /\ a \in Nat
    BY SectionFacts DEF Scan, Address
  <2>3. PICK s \in InScope : Within(s, a, Len(sig))
    BY DEF Scan
  <2>4. PICK u \in InScope : Within(u, a, 1) /\ Within(u, t, Length)
    BY <2>1 DEF ContainsRelativeTarget
  <2>5. PICK i \in Index : s = Sections[i]
    BY DEF InScope, Section
  <2>6. PICK j \in Index : u = Sections[j]
    BY DEF InScope, Section
  <2>7. Within(Sections[i], a, 1)
    <3>1. 1 \in 1..Len(sig) /\ Len(sig) \in Nat /\ a + 1 - 1 = a
      BY <2>2, RecipeFacts
    <3> QED BY <2>2, <2>3, <2>5, <3>1, BytesOfWindow
  <2>8. i = j
    BY <2>2, <2>4, <2>6, <2>7, OneSection
  <2>9. Matches(sig, memory, a)
    BY <1>1, <2>2, <2>3 DEF Scan, InScope
  <2> QED BY <2>1, <2>2, <2>3, <2>4, <2>5, <2>6, <2>8, <2>9
          DEF Targets, Places
<1> QED BY <1>2, <1>3

\* What a step that leaves the world alone leaves as it is.
LEMMA SameWorld ==
  ASSUME UNCHANGED <<memory, readable, recipe>>
  PROVE  /\ Length' = Length
         /\ \A t : Valid(t)' <=> Valid(t)
         /\ Places' = Places
<1>1. Length' = Length /\ InScope' = InScope
  BY DEF Length, InScope
<1>2. \A t : Valid(t)' <=> Valid(t)
  BY <1>1 DEF Valid, Readable, At
<1> QED BY <1>1, <1>2 DEF Places, Matches

\* The search goes on as it has, and ends with the only place, or with none.
LEMMA SearchPreserved ==
  TypeOK /\ ImageInv /\ ContextInv /\ SnapshotInv /\ SearchInv
      /\ [ScanNext]_scanVars
    => SearchInv'
<1> SUFFICES ASSUME TypeOK, ImageInv, ContextInv, SnapshotInv, SearchInv,
                    [ScanNext]_scanVars, Undisturbed',
                    (recipe.method = "signature")'
             PROVE  (/\ pc = "match" =>
                          accepted = Targets(Scan(recipe.signature) \ queue)
                     /\ pc \in Found => Places = {target}
                     /\ pc = "done" /\ result \in Refusals =>
                          \A t \in Address : Places # {t})'
  BY DEF SearchInv
<1>0. /\ Undisturbed /\ stores = 0 /\ readable = Index
      /\ recipe.method = "signature" /\ recipe' = recipe
  BY OnceDisturbed, SameRecipe DEF Undisturbed
<1> DEFINE sig == recipe.signature
<1> USE DEF Go, Refuse, worldVars, imageVars, planVars, Found
<1>1. CASE CheckSection
  <2>1. pc' = "copy"
    BY <1>0, <1>1 DEF CheckSection, RangeReadable, ImageInv, Copying
  <2> QED BY <2>1
<1>2. CASE CopySection \/ Again
  BY <1>2 DEF CopySection, Again
<1>3. CASE FindRawMatches
  <2>1. UNCHANGED <<memory, readable, recipe, snapshot, accepted>>
    BY <1>3 DEF FindRawMatches
  <2>2. CASE Scan(sig) = {}
    <3>1. Places = {}
      BY <1>0, <1>3, <2>2, MatchesLeadToPlaces
         DEF FindRawMatches, Using, Targets
    <3>2. Places' = {}
      BY <2>1, <3>1, SameWorld
    <3>3. pc' = "done"
      BY <1>3, <2>2 DEF FindRawMatches
    <3> QED BY <3>2, <3>3
  <2>3. CASE Scan(sig) # {}
    <3>1. pc' = "match" /\ queue' = Scan(sig)
      BY <1>3, <2>3 DEF FindRawMatches
    <3>2. Scan(sig)' = Scan(sig)
      BY <2>1 DEF Scan, InScope
    <3>3. Targets(Scan(sig) \ queue)' = {}
      BY <3>1, <3>2 DEF Targets
    <3>4. accepted' = {}
      BY <1>3, <2>1 DEF FindRawMatches, ContextInv
    <3> QED BY <3>1, <3>3, <3>4
  <2> QED BY <2>2, <2>3
<1>4. ASSUME NEW a \in queue, Match(a)
      PROVE  pc' = "match"
             /\ accepted' = Targets(Scan(sig) \ queue)'
  <2> DEFINE t == a + recipe.offset
  <2>1. /\ pc = "match" /\ pc' = "match" /\ queue' = queue \ {a}
        /\ UNCHANGED <<memory, readable, recipe, snapshot>>
    BY <1>4 DEF Match
  <2>2. accepted' = IF ContainsRelativeTarget(a, t) /\ Valid(t)
                      THEN accepted \cup {t} ELSE accepted
    BY <1>4 DEF Match
  <2>3. a \in Scan(sig) /\ accepted = Targets(Scan(sig) \ queue)
    BY <1>0, <2>1 DEF ContextInv, SearchInv
  <2>4. Scan(sig)' \ queue' = (Scan(sig) \ queue) \cup {a}
    <3>1. Scan(sig)' = Scan(sig)
      BY <2>1 DEF Scan, InScope
    <3> QED BY <2>1, <2>3, <3>1
  <2>5. \A ms : Targets(ms)' = Targets(ms)
    BY <2>1, SameWorld DEF Targets, ContainsRelativeTarget, InScope
  <2>6. ContainsRelativeTarget(a, t) => t \in Address
    <3>1. ContainsRelativeTarget(a, t) => InSection(t, Length)
      BY DEF ContainsRelativeTarget, InSection
    <3>2. t \in Nat
      <4>1. a \in Nat
        BY SectionFacts DEF TypeOK, Address
      <4> QED BY <4>1, RecipeFacts
    <3> QED BY <3>1, <3>2, RecipeFacts, PlaceInImage
  <2>7. Targets((Scan(sig) \ queue) \cup {a}) = accepted'
    BY <2>2, <2>3, <2>6 DEF Targets
  <2> QED BY <2>1, <2>4, <2>5, <2>7
<1>5. CASE Choose
  <2>1. UNCHANGED <<memory, readable, recipe>> /\ pc = "match" /\ queue = {}
    BY <1>5 DEF Choose
  <2>2. accepted = Places
    <3>1. accepted = Targets(Scan(sig))
      BY <1>0, <2>1 DEF SearchInv
    <3> QED BY <1>0, <2>1, <3>1, MatchesLeadToPlaces DEF Using
  <2>3. Places' = Places
    BY <2>1, SameWorld
  <2>4. \/ accepted = {} /\ pc' = "done"
        \/ accepted = {target'} /\ pc' = "validate"
        \/ accepted # {} /\ OnlyOne(accepted) = {} /\ pc' = "done"
    BY <1>5 DEF Choose, OnlyOne
  <2>5. OnlyOne(accepted) = {} => \A t : accepted # {t}
    BY DEF OnlyOne
  <2> QED BY <2>2, <2>3, <2>4, <2>5
<1>6. CASE FindKnownStart \/ FindKnownTarget
  BY <1>0, <1>6 DEF FindKnownStart, FindKnownTarget, ContextInv
<1>7. CASE Validate \/ Apply
  <2>1. Places = {target} /\ pc \in Found
    BY <1>0, <1>7 DEF SearchInv, Validate, Apply
  <2>2. Valid(target) /\ Readable(target)
    BY <2>1 DEF Places, Valid
  <2>3. CASE Validate
    <3>1. pc' = "ready" /\ UNCHANGED <<memory, readable, recipe, target>>
      BY <2>2, <2>3 DEF Validate
    <3> QED BY <2>1, <3>1, SameWorld
  <2>4. CASE Apply
    BY <2>2, <2>4 DEF Apply, Refusals
  <2> QED BY <1>7, <2>3, <2>4
<1>8. CASE Store
  <2>1. stores' = stores + 1
    BY <1>8 DEF Store
  <2> QED BY <1>0, <2>1 DEF Undisturbed
<1>9. CASE TakeAway
  <2>1. \E i \in readable : readable' = readable \ {i}
    BY <1>9 DEF TakeAway
  <2> QED BY <1>0, <2>1 DEF Undisturbed
<1>10. CASE UNCHANGED scanVars
  <2>1. Scan(sig)' = Scan(sig) /\ Places' = Places
        /\ \A ms : Targets(ms)' = Targets(ms)
    BY <1>10, SameWorld DEF scanVars, Scan, InScope, Targets,
       ContainsRelativeTarget
  <2> QED BY <1>0, <1>10, <2>1 DEF scanVars, SearchInv
<1> QED BY <1>1, <1>2, <1>3, <1>4, <1>5, <1>6, <1>7, <1>8, <1>9, <1>10
        DEF ScanNext, Step

-----------------------------------------------------------------------------
(* The second patcher. *)

\* A patch leaves the bytes outside its target alone, and those inside are its
\* replacement.
Patch(t) ==
  [a \in Address |-> IF a \in t..(t + Length - 1)
                       THEN recipe.replacement[a - t + 1] ELSE memory[a]]

\* What the recipe's bytes are.
LEMMA RecipeBytes ==
  ASSUME TypeOK
  PROVE  /\ DOMAIN recipe.signature = 1..Len(recipe.signature)
         /\ DOMAIN recipe.expected = 1..Length
         /\ DOMAIN recipe.replacement = 1..Length
         /\ \A j \in 1..Length : recipe.expected[j] \in Byte
                                 /\ recipe.replacement[j] \in Byte
         /\ Any \notin Byte
         /\ Distinctive(recipe)
<1>1. recipe \in Recipe
  BY DEF TypeOK
<1>2. Distinctive(recipe)
  BY <1>1, DistinctiveAssumption
<1> QED BY <1>2, RecipeFacts, AnyAssumption DEF Length

\* A byte of the target after the patch, and a byte elsewhere.
LEMMA PatchedBytes ==
  ASSUME TypeOK, NEW t \in Nat, InSection(t, Length)
  PROVE  /\ \A j \in 1..Length : Patch(t)[t + j - 1] = recipe.replacement[j]
         /\ \A a \in Address :
              (\A j \in 1..Length : a # t + j - 1) => Patch(t)[a] = memory[a]
<1>1. Length \in Nat /\ Length > 0 /\ Size \in Nat
  BY RecipeFacts, SectionFacts
<1>2. t + Length <= Size
  BY <1>1, PlaceInImage
<1>3. ASSUME NEW j \in 1..Length
      PROVE  Patch(t)[t + j - 1] = recipe.replacement[j]
  <2>1. t + j - 1 \in Address /\ t + j - 1 \in t..(t + Length - 1)
    BY <1>1, <1>2 DEF Address
  <2>2. t + j - 1 - t + 1 = j
    OBVIOUS
  <2> QED BY <2>1, <2>2 DEF Patch
<1>4. ASSUME NEW a \in Address, \A j \in 1..Length : a # t + j - 1
      PROVE  Patch(t)[a] = memory[a]
  <2>1. a \in Nat
    BY <1>1 DEF Address
  <2>2. a \notin t..(t + Length - 1)
    <3>1. SUFFICES ASSUME a \in t..(t + Length - 1) PROVE FALSE
      OBVIOUS
    <3>2. a - t + 1 \in 1..Length /\ a = t + (a - t + 1) - 1
      BY <1>1, <2>1, <3>1
    <3> QED BY <1>4, <3>2
  <2> QED BY <2>2 DEF Patch
<1> QED BY <1>3, <1>4

\* A signature that matches o bytes before t and at a does not conflict with
\* itself at the distance of the two.
LEMMA NoConflict ==
  ASSUME NEW sig, \A p \in DOMAIN sig : p \in Nat, NEW bytes,
         NEW o \in Nat, NEW t \in Nat, NEW a \in Nat,
         NEW k \in Nat, NEW j \in Nat, a + k - 1 = t + j - 1,
         Matches(sig, bytes, t - o), Matches(sig, bytes, a)
  PROVE  ~Conflict(sig, o + j - k)
<1> SUFFICES ASSUME NEW p \in DOMAIN sig, NEW q \in DOMAIN sig,
                    p = q + (o + j - k), sig[p] # Any, sig[q] # Any
             PROVE  sig[p] = sig[q]
  BY DEF Conflict
<1>1. p \in Nat /\ q \in Nat
  OBVIOUS
<1>2. t - o + p - 1 = a + q - 1
  BY <1>1
<1>3. bytes[t - o + p - 1] = sig[p] /\ bytes[a + q - 1] = sig[q]
  BY DEF Matches
<1> QED BY <1>2, <1>3

\* KeepsMatch: where the signature is, it is still after the patch.
LEMMA SignatureStays ==
  ASSUME TypeOK, NEW t \in Nat, InSection(t, Length), t >= recipe.offset,
         InSection(t - recipe.offset, Len(recipe.signature)),
         Matches(recipe.signature, memory, t - recipe.offset)
  PROVE  Matches(recipe.signature, Patch(t), t - recipe.offset)
<1> DEFINE sig == recipe.signature
           start == t - recipe.offset
<1>1. start \in Nat /\ recipe.offset \in Nat /\ Len(sig) \in Nat
  BY RecipeFacts
<1> SUFFICES ASSUME NEW k \in DOMAIN sig, sig[k] # Any
             PROVE  Patch(t)[start + k - 1] = sig[k]
  BY DEF Matches
<1>2. k \in 1..Len(sig) /\ k \in Nat
  BY RecipeBytes, <1>1
<1>3. memory[start + k - 1] = sig[k]
  BY DEF Matches
<1>4. start + k - 1 \in Address
  <2>1. PICK i \in Index : Within(Sections[i], start, Len(sig))
    BY DEF InSection, InScope, Section
  <2> QED BY <1>1, <1>2, <2>1, BytesOfWindow
<1>5. CASE \A j \in 1..Length : start + k - 1 # t + j - 1
  BY <1>3, <1>4, <1>5, PatchedBytes
<1>6. CASE \E j \in 1..Length : start + k - 1 = t + j - 1
  <2>1. PICK j \in 1..Length : start + k - 1 = t + j - 1
    BY <1>6
  <2>2. k = recipe.offset + j
    <3> DEFINE o == recipe.offset
    <3>1. o \in Nat /\ j \in Nat /\ k \in Nat
      BY <1>1, <1>2, RecipeFacts
    <3>2. t - o + k - 1 = t + j - 1
      BY <2>1
    <3> HIDE DEF o
    <3>3. k = o + j
      BY <3>1, <3>2
    <3> QED BY <3>3 DEF o
  <2>3. sig[k] = recipe.replacement[j]
    BY <2>2, RecipeBytes DEF Distinctive, KeepsMatch
  <2> QED BY <2>1, <2>3, PatchedBytes
<1> QED BY <1>5, <1>6

\* MakesNoMatch: where the signature is after the patch, it was before.
LEMMA NoSignatureAppears ==
  ASSUME TypeOK, NEW t \in Nat, InSection(t, Length), t >= recipe.offset,
         InSection(t - recipe.offset, Len(recipe.signature)),
         Matches(recipe.signature, memory, t - recipe.offset),
         At(t, recipe.expected),
         NEW a \in Address, InSection(a, Len(recipe.signature)),
         Matches(recipe.signature, Patch(t), a)
  PROVE  Matches(recipe.signature, memory, a)
<1> DEFINE sig == recipe.signature
           start == t - recipe.offset
<1>1. /\ start \in Nat /\ recipe.offset \in Nat /\ Len(sig) \in Nat
      /\ a \in Nat /\ Length \in Nat
  BY RecipeFacts, SectionFacts DEF Address
<1> SUFFICES ASSUME NEW k \in DOMAIN sig, sig[k] # Any,
                    memory[a + k - 1] # sig[k]
             PROVE  FALSE
  BY DEF Matches
<1>2. k \in 1..Len(sig) /\ k \in Nat
  BY RecipeBytes, <1>1
<1>3. Patch(t)[a + k - 1] = sig[k]
  BY DEF Matches
<1>4. a + k - 1 \in Address
  <2>1. PICK i \in Index : Within(Sections[i], a, Len(sig))
    BY DEF InSection, InScope, Section
  <2> QED BY <1>1, <1>2, <2>1, BytesOfWindow
<1>5. PICK j \in 1..Length : a + k - 1 = t + j - 1
  BY <1>3, <1>4, PatchedBytes
<1>6. sig[k] = recipe.replacement[j]
  BY <1>3, <1>5, PatchedBytes
<1>7. memory[a + k - 1] = recipe.expected[j]
  BY <1>5, RecipeBytes DEF At
<1>8. recipe.expected[j] # recipe.replacement[j]
  BY <1>6, <1>7
<1>9. CASE k = recipe.offset + j
  <2>1. a = start
    <3> DEFINE o == recipe.offset
    <3>1. o \in Nat /\ j \in Nat /\ k \in Nat /\ a \in Nat
      BY <1>1, <1>2
    <3>2. a + k - 1 = t + j - 1 /\ k = o + j
      BY <1>5, <1>9
    <3> HIDE DEF o
    <3>3. a = t - o
      BY <3>1, <3>2
    <3> QED BY <3>3 DEF o
  <2> QED BY <2>1 DEF Matches
<1>10. CASE k # recipe.offset + j
  <2>1. Conflict(sig, recipe.offset + j - k)
    BY <1>6, <1>8, <1>10, RecipeBytes DEF Distinctive, MakesNoMatch
  <2>2. Matches(sig, Patch(t), start)
    BY SignatureStays
  <2>3. \A p \in DOMAIN sig : p \in Nat
    BY RecipeBytes, <1>1
  <2>4. j \in Nat
    BY <1>1
  <2>5. ~Conflict(sig, recipe.offset + j - k)
    BY <1>1, <1>2, <1>5, <2>2, <2>3, <2>4, NoConflict
  <2> QED BY <2>1, <2>5
<1> QED BY <1>9, <1>10

\* MakesNoMatch: what holds the original or the replacement after the patch did
\* so before, or is the target.
LEMMA NoTargetAppears ==
  ASSUME TypeOK, NEW t \in Nat, InSection(t, Length), At(t, recipe.expected),
         NEW u \in Nat, u # t, InSection(u, Length),
         NEW bytes \in {recipe.expected, recipe.replacement},
         \A i \in DOMAIN bytes : Patch(t)[u + i - 1] = bytes[i]
  PROVE  At(u, bytes)
<1>1. Length \in Nat /\ DOMAIN bytes = 1..Length
  BY RecipeFacts, RecipeBytes
<1> SUFFICES ASSUME NEW i \in 1..Length, memory[u + i - 1] # bytes[i]
             PROVE  FALSE
  BY <1>1 DEF At
<1>2. u + i - 1 \in Address
  <2>1. PICK x \in Index : Within(Sections[x], u, Length)
    BY DEF InSection, InScope, Section
  <2> QED BY <1>1, <2>1, BytesOfWindow
<1>3. PICK j \in 1..Length : u + i - 1 = t + j - 1
  <2>1. Patch(t)[u + i - 1] = bytes[i]
    BY <1>1
  <2>2. Patch(t)[u + i - 1] # memory[u + i - 1]
    BY <2>1
  <2> QED BY <1>2, <2>2, PatchedBytes
<1>4. i # j
  BY <1>1, <1>3
<1>5. bytes[i] = recipe.replacement[j]
  <2>1. Patch(t)[u + i - 1] = bytes[i]
    BY <1>1
  <2>2. Patch(t)[t + j - 1] = recipe.replacement[j]
    BY PatchedBytes
  <2> QED BY <1>3, <2>1, <2>2
<1>6. memory[u + i - 1] = recipe.expected[j]
  BY <1>3, RecipeBytes DEF At
<1>7. recipe.expected[j] # recipe.replacement[j]
  BY <1>5, <1>6
<1>8. recipe.replacement[j] \notin {recipe.expected[i], recipe.replacement[i]}
  BY <1>4, <1>7, RecipeBytes DEF Distinctive, MakesNoMatch
<1> QED BY <1>5, <1>8

\* Outside the scope and the lengths nothing of a window depends on memory.
LEMMA SameWindows ==
  ASSUME recipe' = recipe
  PROVE  /\ Length' = Length /\ InScope' = InScope
         /\ \A rva, n : InSection(rva, n)' <=> InSection(rva, n)
BY DEF Length, InScope, InSection

\* The patch of the place a search leads to leaves the search lead there.
LEMMA PatchSettles ==
  ASSUME TypeOK, readable = Index, NEW t \in Nat, LeadsTo(t),
         InSection(t, Length), At(t, recipe.expected),
         memory' = Patch(t), recipe' = recipe, readable' = readable
  PROVE  Settled(t)'
<1> DEFINE sig == recipe.signature
           start == t - recipe.offset
<1>0. At(t, recipe.replacement)'
  BY PatchedBytes, RecipeBytes DEF At
<1>1. \A u : Readable(u) /\ Readable(u)'
  <2>1. \A u : Readable(u)
    BY DEF Readable
  <2>2. \A u : Readable(u)'
    BY DEF Readable
  <2> QED BY <2>1, <2>2
<1>2. CASE recipe.method = "signature"
  <2>1. t \in Places /\ \A u \in Places : u = t
    BY <1>2 DEF LeadsTo
  <2>2. PICK s \in InScope, a \in Address :
               /\ t = a + recipe.offset
               /\ Within(s, a, Len(sig)) /\ Within(s, t, Length)
               /\ Matches(sig, memory, a)
               /\ Valid(t)
    BY <2>1 DEF Places
  <2>3. t >= recipe.offset /\ start = a
    <3>1. a \in Nat /\ recipe.offset \in Nat
      BY RecipeFacts, SectionFacts DEF Address
    <3> QED BY <2>2, <3>1
  <2>4. InSection(start, Len(sig)) /\ Matches(sig, memory, start)
    BY <2>2, <2>3 DEF InSection
  <2>5. Matches(sig, memory', start)
    BY <2>3, <2>4, SignatureStays
  <2>6. t \in Places'
    <3>1. Valid(t)'
      BY <1>0, <1>1 DEF Valid
    <3>2. t \in Address
      BY <2>1 DEF Places
    <3> QED BY <2>2, <2>3, <2>5, <3>1, <3>2, SameWindows DEF Places
  <2>7. ASSUME NEW u \in Places', u # t PROVE FALSE
    <3>1. PICK x \in InScope, b \in Address :
                 /\ u = b + recipe.offset
                 /\ Within(x, b, Len(sig)) /\ Within(x, u, Length)
                 /\ Matches(sig, memory', b)
                 /\ Valid(u)'
      BY SameWindows DEF Places
    <3>2. u \in Address /\ u \in Nat
      BY SectionFacts DEF Places, Address
    <3>3. InSection(b, Len(sig)) /\ InSection(u, Length)
      BY <3>1 DEF InSection
    <3>4. Matches(sig, memory, b)
      BY <2>3, <2>4, <3>1, <3>3, NoSignatureAppears
    <3>5. PICK bytes \in {recipe.expected, recipe.replacement} :
                 \A i \in DOMAIN bytes : Patch(t)[u + i - 1] = bytes[i]
      BY <3>1 DEF Valid, At
    <3>6. At(u, bytes)
      BY <2>7, <3>2, <3>3, <3>5, NoTargetAppears
    <3>7. Valid(u)
      BY <1>1, <3>6 DEF Valid
    <3>8. u \in Places
      BY <3>1, <3>2, <3>4, <3>7 DEF Places
    <3> QED BY <2>1, <2>7, <3>8
  <2>8. Places' = {t}
    BY <2>6, <2>7
  <2> QED BY <1>0, <1>2, <2>8 DEF Settled, LeadsTo
<1>3. CASE recipe.method # "signature"
  <2>1. t = recipe.rva
    BY <1>3 DEF LeadsTo
  <2>2. recipe.method = "knownSignature" =>
          /\ t >= recipe.offset
          /\ InSection(start, Len(sig))
          /\ Matches(sig, memory, start)
    BY <1>3 DEF LeadsTo
  <2>3. recipe.method = "knownSignature" => Matches(sig, memory', start)
    BY <2>2, SignatureStays
  <2> QED BY <1>0, <1>3, <2>1, <2>2, <2>3, SameWindows DEF Settled, LeadsTo
<1> QED BY <1>2, <1>3

\* What is found is where the search leads, for the image holds what is in
\* memory.
LEMMA FoundLeads ==
  TypeOK /\ PlaceInv /\ ContextInv /\ SnapshotInv /\ SearchInv /\ Undisturbed
    /\ pc \in Found /\ (recipe.method # "signature" => target = recipe.rva)
  => LeadsTo(target)
<1> SUFFICES ASSUME TypeOK, PlaceInv, ContextInv, SnapshotInv, SearchInv,
                    Undisturbed, pc \in Found,
                    recipe.method # "signature" => target = recipe.rva
             PROVE  LeadsTo(target)
  OBVIOUS
<1> DEFINE sig == recipe.signature
           start == target - recipe.offset
<1>1. InSection(target, Length)
  BY DEF PlaceInv
<1>2. CASE recipe.method = "signature"
  BY <1>2 DEF SearchInv, LeadsTo
<1>3. CASE recipe.method = "knownSignature"
  <2>1. target >= recipe.offset /\ start \in Scan(sig)
    BY <1>3 DEF ContextInv, Matched
  <2>2. PICK i \in Index : /\ Sections[i] \in InScope
                           /\ Within(Sections[i], start, Len(sig))
    BY <2>1 DEF Scan, InScope, Section
  <2>3. start \in Nat /\ Len(sig) \in Nat
    BY <2>1, RecipeFacts, SectionFacts DEF Scan, Address
  <2>4. ASSUME NEW k \in DOMAIN sig
        PROVE  snapshot[start + k - 1] = memory[start + k - 1]
    <3>1. k \in 1..Len(sig)
      BY RecipeBytes
    <3>2. start + k - 1 \in Address /\ Within(Sections[i], start + k - 1, 1)
      BY <2>2, <2>3, <3>1, BytesOfWindow
    <3> QED BY <3>2 DEF SnapshotInv, Undisturbed, Found, Using
  <2>5. Matches(sig, memory, start)
    BY <2>1, <2>4 DEF Scan, Matches
  <2>6. InSection(start, Len(sig))
    BY <2>2 DEF InSection
  <2> QED BY <1>1, <1>3, <2>1, <2>5, <2>6 DEF LeadsTo
<1>4. CASE recipe.method = "knownRva"
  BY <1>1, <1>4 DEF LeadsTo
<1> QED BY <1>2, <1>3, <1>4, RecipeFacts DEF Methods

\* A search leads to one place.
LEMMA LeadsToOne ==
  ASSUME NEW t, NEW u, LeadsTo(t), LeadsTo(u)
  PROVE  t = u
BY DEF LeadsTo

\* A patched place is not original any more.
LEMMA NotBoth ==
  ASSUME TypeOK, NEW t, At(t, recipe.expected), At(t, recipe.replacement)
  PROVE  FALSE
<1>1. \A j \in 1..Length : recipe.expected[j] = recipe.replacement[j]
  BY RecipeBytes DEF At
<1>2. recipe.expected = recipe.replacement
  <2>1. /\ recipe.expected \in Seq(Byte) /\ recipe.replacement \in Seq(Byte)
        /\ Len(recipe.expected) = Length /\ Len(recipe.replacement) = Length
    BY RecipeFacts DEF Length
  <2> QED BY <1>1, <2>1
<1> QED BY <1>2, RecipeAssumption DEF TypeOK

\* The second patcher is not turned away from a place that is known.
LEMMA KnownStartStays ==
  ASSUME TypeOK, SnapshotInv, stores = 0, pc \in Using, NEW t, LeadsTo(t),
         recipe.method = "knownSignature"
  PROVE  /\ t = recipe.rva /\ recipe.rva >= recipe.offset
         /\ Outside(recipe.rva - recipe.offset, Len(recipe.signature)) = {}
         /\ StartMatches(recipe.rva - recipe.offset)
<1> DEFINE sig == recipe.signature
           start == recipe.rva - recipe.offset
<1>1. t = recipe.rva /\ t >= recipe.offset /\ InSection(start, Len(sig))
      /\ Matches(sig, memory, start)
  BY DEF LeadsTo
<1>2. PICK i \in Index : /\ Sections[i] \in InScope
                         /\ Within(Sections[i], start, Len(sig))
  BY <1>1 DEF InSection, InScope, Section
<1>3. start \in Nat /\ Len(sig) \in Nat /\ Len(sig) > 0
  BY <1>1, RecipeFacts
<1>4. start \in Address /\ start + Len(sig) <= Size
  BY <1>1, <1>3, PlaceInImage
<1>5. ASSUME NEW k \in DOMAIN sig
      PROVE  snapshot[start + k - 1] = memory[start + k - 1]
  <2>1. k \in 1..Len(sig)
    BY RecipeBytes
  <2>2. start + k - 1 \in Address /\ Within(Sections[i], start + k - 1, 1)
    BY <1>2, <1>3, <2>1, BytesOfWindow
  <2> QED BY <2>2 DEF SnapshotInv
<1>6. start \in Scan(sig)
  BY <1>1, <1>2, <1>4, <1>5 DEF Scan, Matches
<1>7. Outside(start, Len(sig)) = {}
  <2>1. Size \in Nat
    BY SectionFacts
  <2> QED BY <1>1, <1>3, <1>4, <2>1 DEF Outside
<1> QED BY <1>1, <1>6, <1>7 DEF StartMatches

\* What has been patched stays what the search leads to, and patched.
LEMMA RepeatPreserved ==
  /\ TypeOK /\ ImageInv /\ PlaceInv /\ ContextInv /\ SnapshotInv /\ SearchInv
  /\ (TypeOK /\ PlaceInv /\ ContextInv /\ SnapshotInv /\ SearchInv)'
  /\ RepeatInv /\ [ScanNext]_scanVars
  => RepeatInv'
<1> SUFFICES ASSUME TypeOK, ImageInv, PlaceInv, ContextInv, SnapshotInv,
                    SearchInv, RepeatInv, [ScanNext]_scanVars,
                    (TypeOK /\ PlaceInv /\ ContextInv /\ SnapshotInv
                       /\ SearchInv)'
             PROVE  RepeatInv'
  OBVIOUS
<1>0. recipe' = recipe
  BY SameRecipe
<1>1. pc' \in Found /\ recipe'.method # "signature" => target' = recipe'.rva
  <2> USE DEF Go, Refuse, worldVars, imageVars, planVars, Found
  <2>1. CASE CheckSection \/ CopySection \/ FindRawMatches
             \/ (\E a \in queue : Match(a)) \/ FindKnownStart \/ Again
    BY <2>1 DEF CheckSection, CopySection, FindRawMatches, Match,
       FindKnownStart, Again
  <2>2. CASE Choose
    BY <1>0, <2>2 DEF Choose, ContextInv
  <2>3. CASE FindKnownTarget
    BY <1>0, <2>3 DEF FindKnownTarget
  <2>4. CASE Validate \/ Apply
    BY <1>0, <2>4 DEF Validate, Apply, RepeatInv
  <2>5. CASE Store \/ TakeAway \/ UNCHANGED scanVars
    BY <1>0, <2>5 DEF Store, TakeAway, MayMeddle, scanVars, RepeatInv
  <2> QED BY <2>1, <2>2, <2>3, <2>4, <2>5 DEF ScanNext, Step
<1> DEFINE Patching ==
      /\ pc = "done" /\ result \in Patched => Settled(target)
      /\ first.result \in Patched =>
           /\ Settled(first.target)
           /\ pc = "done" => result = "AlreadyApplied" /\ target = first.target
<1>2. ASSUME Undisturbed' PROVE (pc \in Found => LeadsTo(target))'
  <2>1. (TypeOK /\ PlaceInv /\ ContextInv /\ SnapshotInv /\ SearchInv
           /\ Undisturbed /\ pc \in Found
           /\ (recipe.method # "signature" => target = recipe.rva)
         => LeadsTo(target))'
    BY FoundLeads, PTL
  <2> QED BY <1>1, <1>2, <2>1
<1>3. ASSUME Undisturbed' PROVE Patching'
  <2>0. /\ Undisturbed /\ stores = 0 /\ readable = Index /\ readable' = Index
        /\ Patching /\ (pc \in Found => LeadsTo(target))
    BY <1>3, OnceDisturbed DEF Undisturbed, RepeatInv
  <2>1. ASSUME memory' = memory PROVE \A t : Settled(t)' <=> Settled(t)
    <3>1. Places' = Places /\ Length' = Length /\ InScope' = InScope
      BY <1>0, <2>0, <2>1, SameWorld, SameWindows
    <3> QED BY <1>0, <2>1, <3>1
            DEF Settled, LeadsTo, At, Matches, InSection
  <2>2. ASSUME recipe.method = "signature", pc' = "done", result' \in Refusals,
               NEW t, Settled(t)'
        PROVE  FALSE
    <3>1. Places' = {t}
      BY <1>0, <2>2 DEF Settled, LeadsTo
    <3>2. t \in Address
      BY <3>1 DEF Places
    <3> QED BY <1>0, <1>3, <2>2, <3>1, <3>2 DEF SearchInv
  <2>3. Refusals \cap Patched = {}
    BY DEF Refusals, Patched
  <2>4. ASSUME memory' = memory, first' = first,
               pc' = "done" /\ first.result \in Patched => FALSE,
               pc' = "done" => result' \in Refusals
        PROVE  Patching'
    BY <2>0, <2>1, <2>3, <2>4
  <2> HIDE DEF Patching
  <2> USE DEF Go, Refuse, worldVars, imageVars, planVars
  <2>5. CASE CheckSection \/ CopySection \/ (\E a \in queue : Match(a))
    <3>1. memory' = memory /\ first' = first
      BY <2>5 DEF CheckSection, CopySection, Match
    <3>2. pc' # "done"
      BY <2>0, <2>5 DEF CheckSection, CopySection, Match, RangeReadable,
         ImageInv, Copying
    <3> QED BY <2>4, <3>1, <3>2
  <2>6. CASE FindRawMatches \/ Choose
    <3>1. memory' = memory /\ first' = first
      BY <2>6 DEF FindRawMatches, Choose
    <3>2. pc' = "done" => result' \in Refusals
      BY <2>6 DEF FindRawMatches, Choose, Refusals
    <3>3. recipe.method = "signature"
      BY <2>6 DEF FindRawMatches, Choose, ContextInv
    <3>4. first.result \in Patched => Settled(first.target)'
      BY <2>0, <2>1, <3>1 DEF Patching
    <3> QED BY <2>2, <2>4, <3>1, <3>2, <3>3, <3>4
  <2>7. CASE FindKnownStart
    <3>1. memory' = memory /\ first' = first /\ pc = "scan"
          /\ recipe.method = "knownSignature"
      BY <2>7 DEF FindKnownStart
    <3>2. pc' = "done" => result' \in Refusals
      BY <2>7 DEF FindKnownStart, Outside, Refusals
    <3>3. ASSUME first.result \in Patched PROVE pc' # "done"
      <4>1. LeadsTo(first.target)
        BY <2>0, <3>3 DEF Patching, Settled
      <4>2. /\ recipe.rva >= recipe.offset
            /\ Outside(recipe.rva - recipe.offset, Len(recipe.signature)) = {}
            /\ StartMatches(recipe.rva - recipe.offset)
        BY <2>0, <3>1, <4>1, KnownStartStays DEF Using
      <4>3. ~(recipe.rva < recipe.offset)
        BY <4>2, RecipeFacts
      <4> QED BY <2>7, <4>2, <4>3 DEF FindKnownStart
    <3> QED BY <2>4, <3>1, <3>2, <3>3
  <2>8. CASE FindKnownTarget
    <3>1. memory' = memory /\ first' = first
      BY <2>8 DEF FindKnownTarget
    <3>2. pc' = "done" => result' \in Refusals
      BY <2>8 DEF FindKnownTarget, Outside, Refusals
    <3>3. ASSUME first.result \in Patched PROVE pc' # "done"
      <4>1. recipe.method # "signature"
        BY <2>8 DEF FindKnownTarget, ContextInv
      <4>2. InSection(recipe.rva, Length)
        BY <2>0, <3>3, <4>1 DEF Patching, Settled, LeadsTo
      <4>3. Outside(recipe.rva, Length) = {}
        <5>1. recipe.rva + Length <= Size
          BY <4>2, RecipeFacts, PlaceInImage
        <5> QED BY <4>2, <5>1, RecipeFacts, SectionFacts DEF Outside
      <4> QED BY <2>8, <4>3 DEF FindKnownTarget
    <3> QED BY <2>4, <3>1, <3>2, <3>3
  <2>9. first.result \in Patched /\ pc \in Found =>
          target = first.target /\ At(target, recipe.replacement)
    BY <2>0, LeadsToOne DEF Patching, Settled
  <2>10. \A t : Readable(t)
    BY <2>0 DEF Readable
  <2>11. CASE Validate
    <3>1. memory' = memory /\ first' = first /\ pc \in Found
      BY <2>11 DEF Validate, Found
    <3>2. pc' = "done" => result' \in Refusals
      BY <2>11 DEF Validate, Refusals
    <3>3. first.result \in Patched => Valid(target)
      BY <2>9, <2>10, <3>1 DEF Valid
    <3>4. first.result \in Patched => pc' # "done"
      BY <2>10, <2>11, <3>3 DEF Validate
    <3> QED BY <2>4, <3>1, <3>2, <3>4
  <2>12. CASE Apply
    <3>1. first' = first /\ target' = target /\ pc \in Found
      BY <2>12 DEF Apply, Found
    <3>2. InSection(target, Length) /\ target \in Nat
      BY <3>1 DEF PlaceInv, TypeOK
    <3>3. CASE Refuse("UnexpectedBytes") /\ ~Valid(target)
      <4>1. first.result \notin Patched
        BY <2>9, <2>10, <3>1, <3>3 DEF Valid
      <4> QED BY <2>4, <3>3, <4>1 DEF Refusals
    <3>4. CASE Refuse("AlreadyApplied") /\ At(target, recipe.replacement)
      <4>1. Settled(target)
        BY <2>0, <3>1, <3>4 DEF Settled
      <4>2. Settled(target)'
        <5>1. ASSUME NEW t, t = target PROVE Settled(t)'
          BY <2>1, <3>4, <4>1, <5>1
        <5> QED BY <3>1, <5>1 DEF Settled, LeadsTo, Places, Matches, At
      <4> QED BY <2>0, <2>1, <2>9, <3>1, <3>4, <4>2 DEF Patching
    <3>5. CASE /\ At(target, recipe.expected) /\ memory' = Patch(target)
               /\ result' = "Applied"
      <4>1. first.result \notin Patched
        BY <2>9, <3>1, <3>5, NotBoth
      <4>2. Settled(target)'
        <5>1. ASSUME NEW t, t = target PROVE Settled(t)'
          BY <1>0, <2>0, <3>1, <3>2, <3>5, <5>1, PatchSettles
        <5> QED BY <3>1, <5>1 DEF Settled, LeadsTo, Places, Matches, At
      <4> QED BY <3>1, <4>1, <4>2 DEF Patching
    <3> QED BY <2>10, <2>12, <3>3, <3>4, <3>5 DEF Apply, Patch
  <2>13. CASE Again
    BY <2>0, <2>1, <2>13 DEF Again, Patching
  <2>14. CASE Store
    <3>1. stores' = stores + 1
      BY <2>14 DEF Store
    <3> QED BY <1>3, <2>0, <3>1 DEF Undisturbed
  <2>15. CASE TakeAway
    <3>1. \E i \in readable : readable' = readable \ {i}
      BY <2>15 DEF TakeAway
    <3> QED BY <2>0, <3>1
  <2>16. CASE UNCHANGED scanVars
    BY <2>0, <2>1, <2>16 DEF scanVars, Patching
  <2> QED BY <2>5, <2>6, <2>7, <2>8, <2>11, <2>12, <2>13, <2>14, <2>15, <2>16
          DEF ScanNext, Step
<1> QED BY <1>1, <1>2, <1>3 DEF RepeatInv

\* The invariant holds of the patchers as they start.
LEMMA InitiallyTrue == ScanInit => TypeOK /\ ScanInv
<1> SUFFICES ASSUME ScanInit PROVE TypeOK /\ ScanInv
  OBVIOUS
<1> USE DEF ScanInit
<1>1. TypeOK
  <2>1. queue \subseteq Address /\ accepted \subseteq Address
        /\ taken \subseteq Index /\ readable \subseteq Index
    OBVIOUS
  <2>2. /\ target \in Nat
        /\ first \in [target : Nat,
                      result : Patched \cup Refusals \cup {"none"}]
    BY SectionFacts DEF Nowhere
  <2>3. memory \in [Address -> Byte] /\ snapshot \in [Address -> Byte]
        /\ recipe \in Recipe /\ pc = "check" /\ next = 1 /\ result = "none"
        /\ stores = 0
    OBVIOUS
  <2> QED BY <2>1, <2>2, <2>3 DEF TypeOK, Copying
<1>2. ImageInv
  BY SectionFacts DEF ImageInv
<1>3. PlaceInv
  BY DEF PlaceInv, Found
<1>4. ContextInv
  BY DEF ContextInv, Found
<1>5. SnapshotInv
  BY DEF SnapshotInv
<1>6. SearchInv
  BY DEF SearchInv, Found
<1>7. RepeatInv
  BY DEF RepeatInv, Found, Patched
<1> QED BY <1>1, <1>2, <1>3, <1>4, <1>5, <1>6, <1>7 DEF ScanInv

\* The invariant holds of every behaviour.
LEMMA ScanCorrect == ScanSpec => [](TypeOK /\ ScanInv)
<1>1. TypeOK /\ ScanInv /\ [ScanNext]_scanVars => (TypeOK /\ ScanInv)'
  BY TypePreserved, ImagePreserved, PlacePreserved, ContextPreserved,
     SnapshotPreserved, SearchPreserved, RepeatPreserved DEF ScanInv
<1> QED BY InitiallyTrue, <1>1, PTL DEF ScanSpec
-----------------------------------------------------------------------------
(* What the invariant means for the game's image. *)

\* The patchers' fields keep their types, whatever other threads do.
THEOREM TypeCorrect == ScanSpec => []TypeOK
BY ScanCorrect, PTL

\* from_module faults only on a section that was taken away after it had been
\* found readable.
THEOREM FaultNeedsTakingHolds == ScanSpec => []FaultNeedsTaking
<1>1. ScanInv => FaultNeedsTaking
  BY DEF ScanInv, ImageInv, FaultNeedsTaking
<1> QED BY <1>1, ScanCorrect, PTL

\* find_signature_target and checked_known_signature_write plan a write only
\* where the image had the signature.
THEOREM ContextWasThereHolds == ScanSpec => []ContextWasThere
<1>1. ScanInv => ContextWasThere
  BY DEF ScanInv, ContextInv, ContextWasThere, Matched, Found
<1> QED BY <1>1, ScanCorrect, PTL

\* A signature is patched where it leads to one place only.
THEOREM OnePlaceOnlyHolds == ScanSpec => []OnePlaceOnly
<1>1. ScanInv => OnePlaceOnly
  BY DEF ScanInv, SearchInv, OnePlaceOnly, Found
<1> QED BY <1>1, ScanCorrect, PTL

\* A second patcher finds the place the first one patched, and finds it patched:
\* the wildcards and literals of a Distinctive signature make the discovery
\* idempotent (mod.rs:42-55).
THEOREM SecondFindsFirstHolds == ScanSpec => []SecondFindsFirst
<1>1. ScanInv => SecondFindsFirst
  BY DEF ScanInv, RepeatInv, SecondFindsFirst
<1> QED BY <1>1, ScanCorrect, PTL

\* write_checked changes bytes of one section of the scope and of no other.
THEOREM WritesInScopeHolds == ScanSpec => WritesInScope
<1> DEFINE InOneSection ==
      \E s \in InScope :
        \A a \in Address : memory'[a] # memory[a] =>
                             a \in s.rva..(s.rva + s.size - 1)
<1>1. ASSUME TypeOK, ScanInv, Apply, memory' # memory
      PROVE  InOneSection
  <2>1. PICK s \in InScope : Within(s, target, Length)
    BY <1>1 DEF Apply, ScanInv, PlaceInv, Found, InSection
  <2>2. s.rva \in Nat /\ s.size \in Nat
    BY SectionFacts DEF InScope, Section
  <2>3. \A a \in Address :
          memory'[a] # memory[a] => a \in target..(target + Length - 1)
    BY <1>1 DEF Apply, Refuse, worldVars
  <2>4. target \in Nat /\ Length \in Nat
    <3>1. target \in Nat
      BY <1>1 DEF TypeOK
    <3> QED BY <1>1, <3>1, RecipeFacts
  <2>5. target..(target + Length - 1) \subseteq s.rva..(s.rva + s.size - 1)
    BY <2>1, <2>2, <2>4 DEF Within
  <2> QED BY <2>3, <2>5
<1> HIDE DEF InOneSection
<1>2. TypeOK /\ ScanInv /\ [ScanNext]_scanVars =>
        [Apply /\ memory' # memory => InOneSection]_scanVars
  BY <1>1
<1>3. ScanSpec =>
        [][Apply /\ memory' # memory => InOneSection]_scanVars
  BY <1>2, ScanCorrect, PTL DEF ScanSpec
<1> QED BY <1>3 DEF WritesInScope, InOneSection
=============================================================================
