------------------------- MODULE ImageSections_proofs -------------------------
(***************************************************************************)
(* Proofs about the sections of an image, for words of any width and any   *)
(* section table.                                                          *)
(***************************************************************************)
EXTENDS ImageSections, FiniteSetTheorems, TLAPS

Section == [rva : Word, size : Word, scanned : BOOLEAN]

TypeOK ==
  /\ source \in {"module", "file"}
  /\ dll \in BOOLEAN
  /\ headers \in Seq(SectionHeader)
  /\ imageSize \in Word /\ size \in Word /\ fileSize \in Word
  /\ pc \in {"headers", "ranges", "map", "load", "done"}
  /\ next \in Nat \ {0}
  /\ sections \in Seq(Section)
  /\ result \in {"none", "error", "panic", "image"}

\* The sections are those of the headers so far, each inside the image, and what
\* is loaded is among them.
RangeInv ==
  /\ pc \in {"headers", "ranges"} => next = Len(sections) + 1 /\ loaded = {}
  /\ pc = "headers" => sections = <<>>
  /\ pc # "done" => next <= Len(headers) + 1
  /\ Len(sections) <= Len(headers)
  /\ \A n \in DOMAIN sections :
       /\ sections[n] = RangeOf(headers[n])
       /\ headers[n].rva + SizeOf(headers[n]) <= imageSize
  /\ loaded \subseteq {sections[n] : n \in DOMAIN sections}
  /\ \A s \in loaded : Kept(s)
  /\ source = "file" => size = imageSize

\* All headers have been looked at, and the sections are apart.
Validated ==
  /\ Len(sections) = Len(headers)
  /\ ~Overlap(sections)
  /\ imageSize = size

\* The bytes of the first sections are laid out; the rest is zero.
LaidOut(laid) ==
  /\ mapping = [i \in 0..(imageSize - 1) |-> mapping[i]]
  /\ \A n \in DOMAIN headers : \A i \in 0..(SizeOf(headers[n]) - 1) :
       mapping[headers[n].rva + i] =
         IF n < laid /\ i < headers[n].raw THEN headers[n].pointer + i ELSE Zero

OrderInv ==
  /\ pc \in {"ranges", "map", "load"} => imageSize = size
  /\ pc \in {"map", "load"} \/ Ready => Validated
  /\ pc = "map" => source = "file" /\ LaidOut(next)
  /\ source = "file" /\ (pc = "load" \/ Ready) => LaidOut(Len(headers) + 1)
  /\ result # "panic"
  /\ pc # "done" => result = "none"

ImageInv == RangeInv /\ OrderInv
-----------------------------------------------------------------------------
(* Words. *)

\* Words are the numbers below a limit, and a sum that fits does not wrap.
LEMMA WordFacts ==
  /\ 2^Width \in Nat /\ 2^Width > 0 /\ 0 \in Word
  /\ \A w : w \in Word <=> w \in Nat /\ w < 2^Width
<1>1. Width \in Nat
  BY WidthAssumption
<1>2. 2^Width \in Nat /\ 2^Width > 0
  <2> DEFINE bits == 1..Width
  <2>1. IsFiniteSet(bits) /\ Cardinality(bits) = Width
    <3>1. 1 \in Int /\ Width \in Int
      BY <1>1
    <3>2. IsFiniteSet(1..Width)
          /\ Cardinality(1..Width) = IF 1 > Width THEN 0 ELSE Width - 1 + 1
      BY <3>1, FS_Interval, Zenon
    <3> QED BY <1>1, <3>2
  <2>2. IsFiniteSet(SUBSET bits) /\ Cardinality(SUBSET bits) = 2^Width
    BY <2>1, FS_SUBSET
  <2>3. Cardinality(SUBSET bits) \in Nat /\ Cardinality(SUBSET bits) # 0
    BY <2>2, FS_CardinalityType, FS_EmptySet
  <2> QED BY <2>2, <2>3
<1> DEFINE limit == 2^Width
<1>3. limit \in Nat /\ limit > 0 /\ Word = 0..(limit - 1)
  BY <1>2 DEF Word
<1> HIDE DEF limit
<1>4. 0 \in Word /\ \A w : w \in Word <=> w \in Nat /\ w < limit
  BY <1>3
<1> QED BY <1>2, <1>4 DEF limit

\* A sum that fits a word is not cut off.
LEMMA SumFits ==
  ASSUME NEW a \in Nat, NEW b \in Nat, a + b \in Word
  PROVE  Add(a, b) = a + b
<1> DEFINE limit == 2^Width
<1>1. limit \in Nat /\ limit > 0 /\ a + b < limit
  BY WordFacts
<1> HIDE DEF limit
<1>2. (a + b) % limit = a + b
  BY <1>1
<1> QED BY <1>2 DEF Add, limit

\* What is known of a header: the section has room for its raw data.
LEMMA HeaderFacts ==
  ASSUME TypeOK, NEW n \in DOMAIN headers
  PROVE  /\ headers[n].rva \in Nat /\ headers[n].raw \in Nat
         /\ headers[n].pointer \in Nat /\ SizeOf(headers[n]) \in Nat
         /\ headers[n].raw <= SizeOf(headers[n])
         /\ RangeOf(headers[n]).rva = headers[n].rva
         /\ RangeOf(headers[n]).size = SizeOf(headers[n])
         /\ headers[n].raw = 0 => SizeOf(headers[n]) = headers[n].virtual
         /\ headers[n].virtual \in Word /\ headers[n].raw \in Word
         /\ RangeOf(headers[n]) \in Section
         /\ RangeOf(headers[n]).scanned \in BOOLEAN
<1> DEFINE h == headers[n]
<1>1. h \in SectionHeader
  BY DEF TypeOK
<1>2. /\ h.rva \in Word /\ h.virtual \in Word /\ h.raw \in Word
      /\ h.pointer \in Word /\ h.scanned \in BOOLEAN
  BY <1>1 DEF SectionHeader
<1>3. /\ h.rva \in Nat /\ h.virtual \in Nat /\ h.raw \in Nat
      /\ h.pointer \in Nat
  BY <1>2, WordFacts
<1>4. SizeOf(h) \in Word /\ SizeOf(h) \in Nat /\ h.raw <= SizeOf(h)
      /\ (h.raw = 0 => SizeOf(h) = h.virtual)
  BY <1>2, <1>3 DEF SizeOf, Larger
<1>5. RangeOf(h) \in Section
  BY <1>2, <1>4 DEF RangeOf, Section
<1> QED BY <1>2, <1>3, <1>4, <1>5 DEF RangeOf
-----------------------------------------------------------------------------
(* The steps. *)

\* Every step keeps the types.
LEMMA TypePreserved ==
  TypeOK /\ RangeInv /\ [ImageNext]_imageVars => TypeOK'
<1> SUFFICES ASSUME TypeOK, RangeInv, [ImageNext]_imageVars PROVE TypeOK'
  OBVIOUS
<1> USE DEF inputVars, End
<1>1. CASE CheckHeaders
  BY <1>1 DEF TypeOK, CheckHeaders
<1>2. CASE CheckRange
  <2>1. RangeOf(headers[next]) \in Section
    BY <1>2, HeaderFacts DEF CheckRange
  <2>2. \/ sections' = sections
        \/ sections' = Append(sections, RangeOf(headers[next]))
    BY <1>2 DEF CheckRange
  <2>3. sections' \in Seq(Section)
    BY <2>1, <2>2 DEF TypeOK
  <2>4. next' = next \/ next' = next + 1
    BY <1>2 DEF CheckRange
  <2>5. UNCHANGED inputVars /\ pc' \in {"ranges", "done"}
        /\ result' \in {result, "error"}
    BY <1>2 DEF CheckRange
  <2> QED BY <2>3, <2>4, <2>5 DEF TypeOK
<1>3. CASE CheckOverlap
  BY <1>3 DEF TypeOK, CheckOverlap
<1>4. CASE NoRawData
  BY <1>4 DEF TypeOK, NoRawData
<1>5. CASE MapSection
  BY <1>5 DEF TypeOK, MapSection
<1>6. CASE Mapped
  BY <1>6 DEF TypeOK, Mapped
<1>7. CASE LoadSection
  BY <1>7 DEF TypeOK, LoadSection
<1>8. CASE Finish
  BY <1>8 DEF TypeOK, Finish
<1>9. CASE UNCHANGED imageVars
  BY <1>9 DEF TypeOK, imageVars
<1> QED BY <1>1, <1>2, <1>3, <1>4, <1>5, <1>6, <1>7, <1>8, <1>9 DEF ImageNext

\* Each round looks at one header, and ends when its section leaves the image.
LEMMA RangePreserved ==
  TypeOK /\ RangeInv /\ [ImageNext]_imageVars => RangeInv'
<1> SUFFICES ASSUME TypeOK, RangeInv, [ImageNext]_imageVars PROVE RangeInv'
  OBVIOUS
<1> USE DEF inputVars, End
<1>1. /\ Len(headers) \in Nat /\ DOMAIN headers = 1..Len(headers)
      /\ Len(sections) \in Nat /\ DOMAIN sections = 1..Len(sections)
      /\ next \in Nat /\ next # 0
  BY DEF TypeOK
<1>2. CASE CheckHeaders
  BY <1>2 DEF CheckHeaders, RangeInv
<1>3. CASE CheckRange
  <2> DEFINE h == headers[next]
  <2>1. /\ pc = "ranges" /\ next \in DOMAIN headers
        /\ UNCHANGED <<inputVars, loaded>>
    BY <1>3 DEF CheckRange
  <2>2. CASE pc' = "done"
    <3>1. UNCHANGED <<next, sections>>
      BY <1>3, <2>1, <2>2 DEF CheckRange
    <3> QED BY <2>1, <2>2, <3>1 DEF RangeInv
  <2>3. CASE pc' # "done"
    <3>1. /\ h.rva + SizeOf(h) <= imageSize
          /\ sections' = Append(sections, RangeOf(h))
          /\ next' = next + 1 /\ pc' = "ranges"
      <4>1. imageSize \in Nat
        BY WordFacts DEF TypeOK
      <4>2. h.rva + SizeOf(h) \in Nat
        BY <2>1, HeaderFacts
      <4> QED BY <1>3, <2>1, <2>3, <4>1, <4>2 DEF CheckRange
    <3>2. next = Len(sections) + 1 /\ loaded = {}
      BY <2>1 DEF RangeInv
    <3>3. sections \in Seq(Section) /\ RangeOf(h) \in Section
      BY <2>1, HeaderFacts DEF TypeOK
    <3>4. /\ Len(sections') = Len(sections) + 1
          /\ DOMAIN sections' = 1..next
          /\ sections'[next] = RangeOf(h)
          /\ \A n \in 1..Len(sections) : sections'[n] = sections[n]
      BY <3>1, <3>2, <3>3
    <3>5. \A n \in DOMAIN sections' :
            /\ sections'[n] = RangeOf(headers[n])
            /\ headers[n].rva + SizeOf(headers[n]) <= imageSize
      BY <1>1, <3>1, <3>2, <3>4 DEF RangeInv
    <3> QED BY <1>1, <2>1, <3>1, <3>2, <3>4, <3>5 DEF RangeInv
  <2> QED BY <2>2, <2>3
<1>4. CASE CheckOverlap
  BY <1>1, <1>4 DEF CheckOverlap, RangeInv
<1>5. CASE NoRawData \/ MapSection \/ Mapped \/ Finish
  <2>1. /\ UNCHANGED <<inputVars, sections, loaded>>
        /\ pc' \in {"map", "load", "done"} /\ pc \in {"map", "load"}
        /\ \/ next' \in {1, next}
           \/ next' = next + 1 /\ next \in DOMAIN headers
    <3>1. CASE NoRawData
      BY <3>1 DEF NoRawData
    <3>2. CASE MapSection
      BY <3>2 DEF MapSection
    <3>3. CASE Mapped
      BY <3>3 DEF Mapped
    <3>4. CASE Finish
      BY <3>4 DEF Finish
    <3> QED BY <1>5, <3>1, <3>2, <3>3, <3>4
  <2>2. next' <= Len(headers) + 1 \/ pc' = "done"
    BY <1>1, <2>1 DEF RangeInv
  <2> QED BY <2>1, <2>2 DEF RangeInv
<1>6. CASE LoadSection
  <2>1. /\ UNCHANGED <<inputVars, sections>>
        /\ pc' \in {"load", "done"} /\ pc = "load" /\ next \in DOMAIN sections
        /\ next' \in {next, next + 1}
        /\ \/ loaded' = loaded
           \/ Kept(sections[next]) /\ loaded' = loaded \cup {sections[next]}
    BY <1>6 DEF LoadSection
  <2>2. next' <= Len(headers) + 1
    BY <1>1, <2>1 DEF RangeInv
  <2>3. /\ loaded' \subseteq {sections[n] : n \in DOMAIN sections}
        /\ \A s \in loaded' : Kept(s)
    BY <2>1 DEF RangeInv
  <2> QED BY <2>1, <2>2, <2>3 DEF RangeInv
<1>7. CASE UNCHANGED imageVars
  BY <1>7 DEF imageVars, RangeInv
<1> QED BY <1>2, <1>3, <1>4, <1>5, <1>6, <1>7 DEF ImageNext

\* Sections that are apart hold no byte in common.
LEMMA Apart ==
  ASSUME TypeOK, RangeInv, Validated,
         NEW n \in DOMAIN headers, NEW m \in DOMAIN headers,
         NEW i \in 0..(SizeOf(headers[n]) - 1),
         NEW j \in 0..(SizeOf(headers[m]) - 1),
         headers[n].rva + i = headers[m].rva + j
  PROVE  n = m
<1> DEFINE g == headers[n]
           h == headers[m]
<1>1. /\ g.rva \in Nat /\ SizeOf(g) \in Nat /\ i \in Nat /\ i < SizeOf(g)
      /\ h.rva \in Nat /\ SizeOf(h) \in Nat /\ j \in Nat /\ j < SizeOf(h)
  BY HeaderFacts
<1>2. n \in DOMAIN sections /\ m \in DOMAIN sections
      /\ n \in Nat /\ m \in Nat
  BY DEF Validated, TypeOK
<1>3. /\ sections[n].rva = g.rva /\ sections[n].size = SizeOf(g)
      /\ sections[m].rva = h.rva /\ sections[m].size = SizeOf(h)
  BY <1>2, HeaderFacts DEF RangeInv
<1> HIDE DEF g, h
<1>4. /\ sections[n].size # 0 /\ sections[m].size # 0
      /\ sections[n].rva < sections[m].rva + sections[m].size
      /\ sections[m].rva < sections[n].rva + sections[n].size
  BY <1>1, <1>3 DEF g, h
<1>5. ~(n < m) /\ ~(m < n)
  BY <1>2, <1>4 DEF Validated, Overlap
<1> QED BY <1>2, <1>5

\* A byte of a section is a byte of the image.
LEMMA InImage ==
  ASSUME TypeOK, RangeInv, Validated, NEW n \in DOMAIN headers,
         NEW i \in 0..(SizeOf(headers[n]) - 1)
  PROVE  headers[n].rva + i \in 0..(imageSize - 1)
<1>1. /\ headers[n].rva \in Nat /\ SizeOf(headers[n]) \in Nat
      /\ imageSize \in Nat
  BY HeaderFacts, WordFacts DEF TypeOK
<1>2. headers[n].rva + SizeOf(headers[n]) <= imageSize
  BY DEF RangeInv, Validated, TypeOK
<1> QED BY <1>1, <1>2

\* The raw data of one section is laid out without disturbing another.
LEMMA CopyLaysOut ==
  ASSUME TypeOK, RangeInv, Validated, LaidOut(next),
         next \in DOMAIN headers,
         UNCHANGED <<headers, imageSize>>, next' = next + 1,
         mapping' = Copy(headers[next], sections[next])
  PROVE  LaidOut(next)'
<1> DEFINE h == headers[next]
           s == sections[next]
<1>1. /\ s.rva = h.rva /\ h.rva \in Nat /\ h.raw \in Nat /\ h.pointer \in Nat
      /\ SizeOf(h) \in Nat /\ h.raw <= SizeOf(h) /\ next \in Nat
  <2>1. s = RangeOf(h)
    BY DEF RangeInv, Validated, TypeOK
  <2> QED BY <2>1, HeaderFacts DEF TypeOK
<1>2. DOMAIN mapping = 0..(imageSize - 1)
  BY DEF LaidOut
<1>3. mapping' = [k \in 0..(imageSize - 1) |->
                    IF k \in h.rva..(h.rva + h.raw - 1)
                      THEN h.pointer + (k - h.rva) ELSE mapping[k]]
  BY <1>1, <1>2 DEF Copy
<1>4. ASSUME NEW n \in DOMAIN headers,
             NEW i \in 0..(SizeOf(headers[n]) - 1)
      PROVE  mapping'[headers[n].rva + i] =
               IF n < next + 1 /\ i < headers[n].raw
                 THEN headers[n].pointer + i ELSE Zero
  <2> DEFINE k == headers[n].rva + i
  <2>1. /\ k \in 0..(imageSize - 1) /\ k \in Nat /\ n \in Nat
        /\ headers[n].rva \in Nat /\ SizeOf(headers[n]) \in Nat
    BY <1>4, InImage, HeaderFacts DEF TypeOK
  <2>2. mapping[k] = IF n < next /\ i < headers[n].raw
                       THEN headers[n].pointer + i ELSE Zero
    BY <1>4 DEF LaidOut
  <2>3. mapping'[k] = IF k \in h.rva..(h.rva + h.raw - 1)
                        THEN h.pointer + (k - h.rva) ELSE mapping[k]
    BY <1>3, <2>1
  <2>4. CASE n = next
    <3>1. k - h.rva = i
      BY <1>1, <1>4, <2>4
    <3>2. k \in h.rva..(h.rva + h.raw - 1) <=> i < h.raw
      BY <1>1, <1>4, <2>4
    <3>3. n < next + 1 /\ ~(n < next)
      BY <2>1, <2>4
    <3>4. headers[n] = h
      BY <2>4
    <3>5. ASSUME i < h.raw PROVE mapping'[k] = h.pointer + i
      BY <2>3, <3>1, <3>2, <3>5
    <3>6. ASSUME ~(i < h.raw) PROVE mapping'[k] = Zero
      BY <2>2, <2>3, <3>2, <3>3, <3>6
    <3> QED BY <3>3, <3>4, <3>5, <3>6
  <2>5. CASE n # next
    <3>1. k \notin h.rva..(h.rva + h.raw - 1)
      <4> SUFFICES ASSUME k \in h.rva..(h.rva + h.raw - 1) PROVE FALSE
        OBVIOUS
      <4>1. k - h.rva \in 0..(SizeOf(h) - 1) /\ k = h.rva + (k - h.rva)
        BY <1>1, <2>1
      <4> QED BY <1>4, <2>5, <4>1, Apart
    <3>2. n < next + 1 <=> n < next
      BY <1>1, <2>1, <2>5
    <3>3. mapping'[k] = mapping[k]
      BY <2>3, <3>1
    <3> QED BY <2>2, <3>2, <3>3
  <2> QED BY <2>4, <2>5
<1>5. mapping' = [k \in 0..(imageSize - 1) |-> mapping'[k]]
  BY <1>3
<1> QED BY <1>4, <1>5 DEF LaidOut, Zero

\* The headers are laid out in their order, every slice is in range, and an
\* image is made of what was found apart.
LEMMA OrderPreserved ==
  TypeOK /\ RangeInv /\ OrderInv /\ [ImageNext]_imageVars => OrderInv'
<1> SUFFICES ASSUME TypeOK, RangeInv, OrderInv, [ImageNext]_imageVars
             PROVE  OrderInv'
  OBVIOUS
<1> USE DEF inputVars, End
<1>1. /\ Len(headers) \in Nat /\ DOMAIN headers = 1..Len(headers)
      /\ Len(sections) \in Nat /\ DOMAIN sections = 1..Len(sections)
      /\ next \in Nat /\ next # 0 /\ imageSize \in Nat /\ fileSize \in Nat
  BY WordFacts DEF TypeOK
<1>2. ASSUME UNCHANGED <<headers, imageSize, size, sections>>, Validated
      PROVE  Validated'
  BY <1>2 DEF Validated, Overlap
<1>3. ASSUME UNCHANGED <<headers, imageSize, mapping>>, NEW n,
             LaidOut(n)
      PROVE  LaidOut(n)'
  BY <1>3 DEF LaidOut, Zero
<1>4. CASE CheckHeaders \/ CheckRange
  <2>1. pc' \in {"ranges", "done"} /\ result' # "panic" /\ ~Ready'
    BY <1>4 DEF CheckHeaders, CheckRange, OrderInv, Ready
  <2>2. pc' # "done" => result' = "none" /\ imageSize' = size'
    BY <1>4 DEF CheckHeaders, CheckRange, OrderInv
  <2> QED BY <2>1, <2>2 DEF OrderInv, Ready
<1>5. CASE CheckOverlap
  <2>1. CASE Overlap(sections)
    <3>1. pc' = "done" /\ result' = "error"
      BY <1>5, <2>1 DEF CheckOverlap
    <3> QED BY <3>1 DEF OrderInv, Ready
  <2>2. CASE ~Overlap(sections)
    <3>1. /\ pc = "ranges" /\ next \notin DOMAIN headers
          /\ pc' = IF source = "file" THEN "map" ELSE "load"
          /\ next' = 1
          /\ UNCHANGED <<inputVars, sections, loaded, result>>
          /\ source = "file" => mapping' = [i \in 0..(imageSize - 1) |-> Zero]
      BY <1>5, <2>2 DEF CheckOverlap
    <3>2. Validated
      <4>1. next = Len(sections) + 1 /\ Len(sections) <= Len(headers)
        BY <3>1 DEF RangeInv
      <4>2. Len(sections) = Len(headers)
        <5>1. next \notin 1..Len(headers)
          BY <1>1, <3>1
        <5>2. ~(next <= Len(headers))
          BY <1>1, <5>1
        <5>3. Len(headers) \in Nat /\ Len(sections) \in Nat /\ next \in Nat
          BY <1>1
        <5> QED BY <4>1, <5>2, <5>3
      <4>3. imageSize = size
        BY <3>1 DEF OrderInv
      <4> QED BY <2>2, <4>2, <4>3 DEF Validated
    <3>3. source = "file" => LaidOut(next)'
      <4> SUFFICES ASSUME source = "file" PROVE LaidOut(next)'
        OBVIOUS
      <4>1. mapping' = [i \in 0..(imageSize - 1) |-> Zero] /\ next' = 1
        BY <3>1
      <4>2. \A n \in DOMAIN headers : ~(n < 1)
        BY <1>1
      <4>3. \A n \in DOMAIN headers : \A i \in 0..(SizeOf(headers[n]) - 1) :
              mapping'[headers[n].rva + i] = Zero
        BY <3>2, <4>1, InImage
      <4>4. mapping' = [i \in 0..(imageSize - 1) |-> mapping'[i]]
        BY <4>1
      <4>5. imageSize' = imageSize /\ headers' = headers
        BY <3>1
      <4> HIDE DEF inputVars, End
      <4>6. \A n \in DOMAIN headers : ~(n < next')
        BY <4>1, <4>2
      <4> QED BY <4>3, <4>4, <4>5, <4>6 DEF LaidOut, Zero
    <3>4. result = "none"
      BY <3>1 DEF OrderInv
    <3> QED BY <1>2, <3>1, <3>2, <3>3, <3>4 DEF OrderInv, Ready, Validated
  <2> QED BY <2>1, <2>2
<1>6. CASE NoRawData
  <2>1. /\ pc = "map" /\ next \in DOMAIN headers /\ headers[next].raw = 0
        /\ next' = next + 1
        /\ UNCHANGED <<inputVars, pc, sections, mapping, loaded, result>>
    BY <1>6 DEF NoRawData
  <2>2. Validated /\ LaidOut(next) /\ source = "file" /\ result = "none"
    BY <2>1 DEF OrderInv
  <2>3. LaidOut(next + 1)
    <3>1. ASSUME NEW n \in DOMAIN headers,
                 NEW i \in 0..(SizeOf(headers[n]) - 1)
          PROVE  n < next + 1 /\ i < headers[n].raw
                   <=> n < next /\ i < headers[n].raw
      BY <1>1, <2>1
    <3> QED BY <2>2, <3>1 DEF LaidOut
  <2>4. LaidOut(next)'
    BY <1>3, <2>1, <2>3
  <2> QED BY <1>2, <2>1, <2>2, <2>4 DEF OrderInv, Ready
<1>7. CASE MapSection
  <2> DEFINE h == headers[next]
             s == sections[next]
  <2>1. /\ pc = "map" /\ next \in DOMAIN headers
        /\ UNCHANGED <<inputVars, sections, loaded>>
    BY <1>7 DEF MapSection
  <2>2. Validated /\ LaidOut(next) /\ source = "file" /\ result = "none"
    BY <2>1 DEF OrderInv
  <2>3. CASE ~RawDataOk(h, s)
    <3>1. pc' = "done" /\ result' = "error"
      BY <1>7, <2>3 DEF MapSection
    <3> QED BY <3>1 DEF OrderInv, Ready
  <2>4. CASE RawDataOk(h, s)
    <3>1. /\ h.pointer \in Nat /\ h.raw \in Nat /\ s.rva \in Nat
      <4>1. s = RangeOf(h)
        BY <1>1, <2>1, <2>2 DEF RangeInv, Validated
      <4> QED BY <2>1, <4>1, HeaderFacts
    <3>2. /\ Add(h.pointer, h.raw) = h.pointer + h.raw
          /\ Add(s.rva, h.raw) = s.rva + h.raw
          /\ h.pointer + h.raw <= fileSize /\ s.rva + h.raw <= imageSize
      BY <2>4, <3>1, SumFits DEF RawDataOk, Fits
    <3>3. /\ InRange(s.rva, Add(s.rva, h.raw), imageSize)
          /\ InRange(h.pointer, Add(h.pointer, h.raw), fileSize)
      BY <3>1, <3>2 DEF InRange
    <3>4. /\ mapping' = Copy(h, s) /\ next' = next + 1
          /\ UNCHANGED <<pc, result>>
      BY <1>7, <2>4, <3>3 DEF MapSection
    <3>5. LaidOut(next)'
      BY <2>1, <2>2, <3>4, CopyLaysOut
    <3> QED BY <1>2, <2>1, <2>2, <3>4, <3>5 DEF OrderInv, Ready
  <2> QED BY <2>3, <2>4
<1>8. CASE Mapped
  <2>1. /\ pc = "map" /\ next \notin DOMAIN headers /\ pc' = "load"
        /\ UNCHANGED <<inputVars, sections, mapping, loaded, result>>
    BY <1>8 DEF Mapped
  <2>2. Validated /\ LaidOut(next) /\ source = "file" /\ result = "none"
    BY <2>1 DEF OrderInv
  <2>3. next = Len(headers) + 1
    BY <1>1, <2>1 DEF RangeInv
  <2>4. LaidOut(Len(headers) + 1)'
    BY <1>3, <2>1, <2>2, <2>3
  <2> QED BY <1>2, <2>1, <2>2, <2>4 DEF OrderInv, Ready, Validated
<1>9. CASE LoadSection \/ Finish
  <2>1. /\ pc = "load" /\ Validated /\ result = "none" /\ imageSize = size
        /\ source = "file" => LaidOut(Len(headers) + 1)
    BY <1>9 DEF LoadSection, Finish, OrderInv
  <2>2. /\ UNCHANGED <<inputVars, sections, mapping>>
        /\ \/ pc' = "load" /\ result' = result
           \/ pc' = "done" /\ result' # "none"
    BY <1>9, <2>1 DEF LoadSection, Finish
  <2>3. result' # "panic"
    <3>1. CASE Finish
      BY <3>1 DEF Finish
    <3>2. CASE LoadSection
      <4> DEFINE s == sections[next]
      <4>1. next \in DOMAIN sections
        BY <3>2 DEF LoadSection
      <4>2. s.rva \in Nat /\ s.size \in Nat /\ s.rva + s.size <= imageSize
        <5>1. s = RangeOf(headers[next]) /\ next \in DOMAIN headers
              /\ headers[next].rva + SizeOf(headers[next]) <= imageSize
          BY <1>1, <2>1, <4>1 DEF RangeInv, Validated
        <5> QED BY <5>1, HeaderFacts
      <4>3. s.rva + s.size \in Word
        <5>1. 2^Width \in Nat /\ imageSize < 2^Width
          BY WordFacts DEF TypeOK
        <5>2. s.rva + s.size \in Nat /\ s.rva + s.size < 2^Width
          BY <1>1, <4>2, <5>1
        <5> QED BY <5>2, WordFacts
      <4>4. InRange(s.rva, Add(s.rva, s.size), imageSize)
        BY <4>2, <4>3, SumFits DEF InRange
      <4> QED BY <2>1, <3>2, <4>4 DEF LoadSection
    <3> QED BY <1>9, <3>1, <3>2
  <2>4. Validated' /\ (source' = "file" => LaidOut(Len(headers) + 1)')
    BY <1>2, <1>3, <2>1, <2>2
  <2> QED BY <2>1, <2>2, <2>3, <2>4 DEF OrderInv, Ready
<1>10. CASE UNCHANGED imageVars
  <2>1. UNCHANGED <<headers, imageSize, size, sections, mapping, next>>
        /\ UNCHANGED <<source, pc, result>>
    BY <1>10 DEF imageVars
  <2>2. LaidOut(next) => LaidOut(next)'
    BY <1>3, <2>1
  <2>3. LaidOut(Len(headers) + 1) => LaidOut(Len(headers) + 1)'
    BY <1>3, <2>1
  <2> QED BY <1>2, <2>1, <2>2, <2>3 DEF OrderInv, Ready
<1> QED BY <1>4, <1>5, <1>6, <1>7, <1>8, <1>9, <1>10 DEF ImageNext

\* Everything holds of an image that has not been looked at.
LEMMA InitiallyTrue == ImageInit => TypeOK /\ ImageInv
<1> SUFFICES ASSUME ImageInit PROVE TypeOK /\ ImageInv
  OBVIOUS
<1> USE DEF ImageInit
<1>1. headers \in Seq(SectionHeader)
  BY HeadersAssumption
<1>2. imageSize \in Word /\ size \in Word /\ fileSize \in Word
  <2>1. imageSize \in Word
    BY SizesAssumption
  <2>2. size \in Word
    BY <2>1, SizesAssumption
  <2>3. fileSize \in Word
    BY WordFacts, SizesAssumption
  <2> QED BY <2>1, <2>2, <2>3
<1>3. sections \in Seq(Section) /\ Len(sections) = 0 /\ DOMAIN sections = {}
      /\ Len(headers) \in Nat /\ next = 1 /\ pc = "headers" /\ result = "none"
  BY <1>1
<1>4. TypeOK
  BY <1>1, <1>2, <1>3 DEF TypeOK
<1>5. RangeInv
  <2>1. loaded \subseteq {sections[n] : n \in DOMAIN sections}
        /\ \A s \in loaded : Kept(s)
    OBVIOUS
  <2>2. source = "file" => size = imageSize
    OBVIOUS
  <2>3. sections = <<>> /\ loaded = {}
    OBVIOUS
  <2> QED BY <1>3, <2>1, <2>2, <2>3 DEF RangeInv
<1>6. OrderInv
  BY <1>3 DEF OrderInv, Ready
<1> QED BY <1>4, <1>5, <1>6 DEF ImageInv

\* The invariant holds of every behaviour.
LEMMA ImageCorrect == ImageSpec => [](TypeOK /\ ImageInv)
<1>1. TypeOK /\ ImageInv /\ [ImageNext]_imageVars => (TypeOK /\ ImageInv)'
  BY TypePreserved, RangePreserved, OrderPreserved DEF ImageInv
<1> QED BY InitiallyTrue, <1>1, PTL DEF ImageSpec
-----------------------------------------------------------------------------
(* What the invariant means for the image. *)

\* The words of an image stay words, whatever its headers hold.
THEOREM TypeCorrect == ImageSpec => []TypeOK
BY ImageCorrect, PTL

\* validate_pe_sections, from_pe_file and the reader of the headers never slice
\* out of range, whatever the headers hold.
THEOREM NoPanicHolds == ImageSpec => []NoPanic
<1>1. ASSUME TypeOK, NEW offset \in Word, NEW asked \in Word,
             ReadAt(offset, asked) # 0
      PROVE  offset + ReadAt(offset, asked) <= size
  <2>1. offset \in Nat /\ asked \in Nat /\ size \in Nat
    BY <1>1, WordFacts DEF TypeOK
  <2> QED BY <1>1, <2>1 DEF ReadAt
<1>2. TypeOK /\ ImageInv => NoPanic
  BY <1>1 DEF NoPanic, ImageInv, OrderInv
<1> QED BY <1>2, ImageCorrect, PTL

\* The sections that validate_pe_sections lets through are apart and inside the
\* module.
THEOREM SectionsApartHolds == ImageSpec => []SectionsApart
<1>1. ASSUME TypeOK, ImageInv, Ready PROVE SectionsApart
  <2>1. RangeInv /\ Validated
    BY <1>1 DEF ImageInv, OrderInv
  <2>2. \A s \in loaded : \E n \in DOMAIN headers :
          /\ n \in DOMAIN sections /\ s = sections[n]
          /\ s.rva = headers[n].rva /\ s.size = SizeOf(headers[n])
          /\ s.rva \in Nat /\ s.size \in Nat /\ s.rva + s.size <= size
    <3> SUFFICES ASSUME NEW n \in DOMAIN sections
                 PROVE  /\ n \in DOMAIN headers
                        /\ sections[n].rva = headers[n].rva
                        /\ sections[n].size = SizeOf(headers[n])
                        /\ sections[n].rva \in Nat /\ sections[n].size \in Nat
                        /\ sections[n].rva + sections[n].size <= size
      BY <2>1 DEF RangeInv
    <3>1. n \in DOMAIN headers
      BY <1>1, <2>1 DEF TypeOK, Validated
    <3>2. /\ sections[n] = RangeOf(headers[n])
          /\ headers[n].rva + SizeOf(headers[n]) <= size
      BY <2>1 DEF RangeInv, Validated
    <3> QED BY <1>1, <3>1, <3>2, HeaderFacts
  <2>3. \A s \in loaded : Cells(s) \subseteq 0..(size - 1)
    <3>1. size \in Nat
      BY <1>1, WordFacts DEF TypeOK
    <3> QED BY <2>2, <3>1 DEF Cells
  <2>4. ASSUME NEW s \in loaded, NEW t \in loaded,
               NEW c \in Cells(s), c \in Cells(t)
        PROVE  s = t
    <3>1. PICK n \in DOMAIN headers :
            /\ n \in DOMAIN sections /\ s = sections[n]
            /\ s.rva = headers[n].rva /\ s.size = SizeOf(headers[n])
            /\ s.rva \in Nat /\ s.size \in Nat
      BY <2>2
    <3>2. PICK m \in DOMAIN headers :
            /\ m \in DOMAIN sections /\ t = sections[m]
            /\ t.rva = headers[m].rva /\ t.size = SizeOf(headers[m])
            /\ t.rva \in Nat /\ t.size \in Nat
      BY <2>2
    <3>3. /\ c - s.rva \in 0..(SizeOf(headers[n]) - 1)
          /\ c - t.rva \in 0..(SizeOf(headers[m]) - 1)
          /\ headers[n].rva + (c - s.rva) = headers[m].rva + (c - t.rva)
      BY <2>4, <3>1, <3>2 DEF Cells
    <3>4. n = m
      BY <1>1, <2>1, <3>3, Apart
    <3> QED BY <3>1, <3>2, <3>4
  <2> QED BY <2>3, <2>4 DEF SectionsApart
<1>2. TypeOK /\ ImageInv => SectionsApart
  BY <1>1 DEF SectionsApart
<1> QED BY <1>2, ImageCorrect, PTL

\* from_pe_file lays every section out as the loader does, whatever the order
\* the sections have in the file.
THEOREM LaidOutAsLoadedHolds == ImageSpec => []LaidOutAsLoaded
<1>1. ASSUME TypeOK, ImageInv, Ready, source = "file"
      PROVE  LaidOutAsLoaded
  <2>1. LaidOut(Len(headers) + 1)
    BY <1>1 DEF ImageInv, OrderInv
  <2>2. \A n \in DOMAIN headers : n < Len(headers) + 1
    BY <1>1 DEF TypeOK
  <2> QED BY <2>1, <2>2 DEF LaidOut, LaidOutAsLoaded
<1>2. TypeOK /\ ImageInv => LaidOutAsLoaded
  BY <1>1 DEF LaidOutAsLoaded
<1> QED BY <1>2, ImageCorrect, PTL
=============================================================================
