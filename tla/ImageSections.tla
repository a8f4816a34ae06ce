--------------------------- MODULE ImageSections ---------------------------
(***************************************************************************)
(* ModuleImage of src/patches/sigscan.rs: validate_pe_sections, and the    *)
(* two ways an image is made of the sections it lets through: from_module  *)
(* copies them out of the loaded Dunia.dll, from_pe_file lays a file out   *)
(* as the loader would.  Addresses and sizes are the code's 32-bit words,  *)
(* of Width bits here; a slice that is out of range panics.                *)
(***************************************************************************)
EXTENDS Naturals, Sequences

CONSTANTS
  Width,           \* bits of a usize
  Headers,         \* the section tables an image may have
  ImageSizes,      \* SizeOfImage, as the optional header has it
  ModuleSizes,     \* SizeOfImage, as K32GetModuleInformation reports it
  FileSizes

Word == 0..(2^Width - 1)

\* A section header: where the section is loaded, the room it is given there,
\* and the part of the file it is filled from.  "scanned" stands for the
\* characteristics: readable or executable.
SectionHeader == [rva : Word, virtual : Word, raw : Word, pointer : Word,
                  scanned : BOOLEAN]

ASSUME WidthAssumption == Width \in Nat \ {0}
ASSUME HeadersAssumption == Headers \subseteq Seq(SectionHeader)
ASSUME SizesAssumption ==
  ImageSizes \cup ModuleSizes \cup FileSizes \subseteq Word

VARIABLES
  source,          \* "module" or "file"
  dll,             \* the headers are those of a 32-bit x86 DLL
  headers,
  imageSize,
  size,            \* what the image must have the size of
  fileSize,
  pc,
  next,            \* the section header or section being looked at
  sections,        \* ranges that have been validated
  mapping,         \* which byte of the file is where in the mapping
  loaded,          \* the sections of the ModuleImage
  result

imageVars == <<source, dll, headers, imageSize, size, fileSize, pc, next,
               sections, mapping, loaded, result>>
inputVars == <<source, dll, headers, imageSize, size, fileSize>>

Zero == 2^Width    \* a byte of the mapping that is not from the file
-----------------------------------------------------------------------------
Fits(n) == n \in Word                      \* checked_add
Add(a, b) == (a + b) % 2^Width             \* in a release build

Larger(a, b) == IF a > b THEN a ELSE b
SizeOf(h) == Larger(h.virtual, h.raw)
RangeOf(h) == [rva |-> h.rva, size |-> SizeOf(h), scanned |-> h.scanned]
Cells(s) == s.rva..(s.rva + s.size - 1)

\* ValidatedModuleReader::read_at, with which the headers of a loaded module are
\* read: how many of the bytes asked for at an offset it reads.
ReadAt(offset, asked) ==
  IF offset > size THEN 0
  ELSE IF asked > size - offset THEN size - offset ELSE asked

End(r) ==
  /\ pc' = "done"
  /\ result' = r
  /\ UNCHANGED <<inputVars, next, sections, mapping, loaded>>

\* What is checked of the headers before their sections are.
CheckHeaders ==
  /\ pc = "headers"
  /\ IF /\ dll /\ Len(headers) \in 1..96
        /\ imageSize # 0 /\ imageSize = size
       THEN /\ pc' = "ranges"
            /\ UNCHANGED <<inputVars, next, sections, mapping, loaded, result>>
       ELSE End("error")

\* One round of the loop over the section headers.
CheckRange ==
  /\ pc = "ranges"
  /\ next \in DOMAIN headers
  /\ LET h == headers[next]
         end == h.rva + SizeOf(h)
     IN  IF ~Fits(end) \/ end > imageSize THEN End("error")
         ELSE /\ sections' = Append(sections, RangeOf(h))
              /\ next' = next + 1
              /\ UNCHANGED <<inputVars, pc, mapping, loaded, result>>

\* (Fault) A section is compared with the one after it only.
OverlapNext(s) ==
  \E i \in DOMAIN s : /\ i + 1 \in DOMAIN s
                      /\ s[i].size # 0 /\ s[i + 1].size # 0
                      /\ s[i].rva < s[i + 1].rva + s[i + 1].size
                      /\ s[i + 1].rva < s[i].rva + s[i].size

Overlap(s) ==
  \E i, j \in DOMAIN s : /\ i < j
                         /\ s[i].size # 0 /\ s[j].size # 0
                         /\ s[i].rva < s[j].rva + s[j].size
                         /\ s[j].rva < s[i].rva + s[i].size

CheckOverlap ==
  /\ pc = "ranges"
  /\ next \notin DOMAIN headers
  /\ IF Overlap(sections) THEN End("error")
     ELSE /\ pc' = IF source = "file" THEN "map" ELSE "load"
          /\ next' = 1
          /\ mapping' = IF source = "file"
                          THEN [i \in 0..(imageSize - 1) |-> Zero] ELSE mapping
          /\ UNCHANGED <<inputVars, sections, loaded, result>>

\* from_pe_file: the raw data of one section.
NoRawData ==
  /\ pc = "map"
  /\ next \in DOMAIN headers
  /\ headers[next].raw = 0
  /\ next' = next + 1
  /\ UNCHANGED <<inputVars, pc, sections, mapping, loaded, result>>

\* (Fault) The raw data may end outside the file.
RawDataOkAnywhere(h, s) ==
  /\ h.pointer # 0
  /\ Fits(h.pointer + h.raw)
  /\ Fits(s.rva + h.raw)
  /\ s.rva + h.raw <= imageSize
  /\ h.raw <= s.size

RawDataOk(h, s) ==
  /\ h.pointer # 0
  /\ Fits(h.pointer + h.raw)
  /\ h.pointer + h.raw <= fileSize
  /\ Fits(s.rva + h.raw)
  /\ s.rva + h.raw <= imageSize
  /\ h.raw <= s.size

\* (Fault) A section is laid out as it lies in the file.
CopyUnmoved(h, s) ==
  [i \in DOMAIN mapping |->
     IF i \in h.pointer..(h.pointer + h.raw - 1) THEN i ELSE mapping[i]]

\* mapping[rva..rva + raw].copy_from_slice(&file[pointer..pointer + raw])
Copy(h, s) ==
  [i \in DOMAIN mapping |->
     IF i \in s.rva..(s.rva + h.raw - 1) THEN h.pointer + (i - s.rva)
                                         ELSE mapping[i]]

InRange(first, end, length) == first <= end /\ end <= length

MapSection ==
  /\ pc = "map"
  /\ next \in DOMAIN headers
  /\ headers[next].raw # 0
  /\ LET h == headers[next]
         s == sections[next]
     IN  IF ~RawDataOk(h, s) THEN End("error")
         ELSE IF ~InRange(s.rva, Add(s.rva, h.raw), imageSize)
                 \/ ~InRange(h.pointer, Add(h.pointer, h.raw), fileSize)
         THEN End("panic")
         ELSE /\ mapping' = Copy(h, s)
              /\ next' = next + 1
              /\ UNCHANGED <<inputVars, pc, sections, loaded, result>>

Mapped ==
  /\ pc = "map"
  /\ next \notin DOMAIN headers
  /\ pc' = "load"
  /\ next' = 1
  /\ UNCHANGED <<inputVars, sections, mapping, loaded, result>>

\* Sections that are empty, or neither readable nor executable, are left out.
Kept(s) == s.size # 0 /\ s.scanned

\* A section that is not readable as loaded, whatever its header says, refuses
\* the module.  In a file's mapping the section is a slice.
LoadSection ==
  /\ pc = "load"
  /\ next \in DOMAIN sections
  /\ LET s == sections[next] IN
       \/ /\ ~Kept(s)
          /\ next' = next + 1
          /\ UNCHANGED <<inputVars, pc, sections, mapping, loaded, result>>
       \/ /\ Kept(s)
          /\ source = "file" => InRange(s.rva, Add(s.rva, s.size), imageSize)
          /\ loaded' = loaded \cup {s}
          /\ next' = next + 1
          /\ UNCHANGED <<inputVars, pc, sections, mapping, result>>
       \/ /\ Kept(s)
          /\ source = "file"
          /\ ~InRange(s.rva, Add(s.rva, s.size), imageSize)
          /\ End("panic")
       \/ Kept(s) /\ source = "module" /\ End("error")

Finish ==
  /\ pc = "load"
  /\ next \notin DOMAIN sections
  /\ End(IF loaded = {} THEN "error" ELSE "image")

ImageInit ==
  /\ source \in {"module", "file"}
  /\ dll \in BOOLEAN
  /\ headers \in Headers
  /\ imageSize \in ImageSizes
  /\ IF source = "file" THEN size = imageSize ELSE size \in ModuleSizes \ {0}
  /\ IF source = "file" THEN fileSize \in FileSizes ELSE fileSize = 0
  /\ pc = "headers"
  /\ next = 1
  /\ sections = <<>>
  /\ mapping = <<>>
  /\ loaded = {}
  /\ result = "none"

ImageNext ==
  \/ CheckHeaders \/ CheckRange \/ CheckOverlap
  \/ NoRawData \/ MapSection \/ Mapped
  \/ LoadSection \/ Finish

ImageSpec == ImageInit /\ [][ImageNext]_imageVars
-----------------------------------------------------------------------------
(* Properties. *)

\* No slice is out of range and no sum wraps into one: a section table that
\* cannot be laid out is an error, never a panic in the game's process; and no
\* offset its headers hold makes the reader leave the module.
NoPanic ==
  /\ result # "panic"
  /\ \A offset, asked \in Word :
       ReadAt(offset, asked) # 0 => offset + ReadAt(offset, asked) <= size

Ready == result = "image"

\* The image is what may be searched and what a patch may be placed in: each of
\* its bytes belongs to one section, so that "the matched section"
\* (contains_relative_target) is well-defined, and lies inside the module, so
\* that no address computed from an RVA leaves it or wraps.
SectionsApart ==
  Ready => /\ \A s \in loaded : Cells(s) \subseteq 0..(size - 1)
           /\ \A s, t \in loaded : s # t => Cells(s) \cap Cells(t) = {}

\* A file is laid out as the loader does it: a section holds its raw data from
\* its first byte on and is zero behind that, and laying out one section never
\* disturbs another.  Offline validation is worth what this is worth.
LaidOutAsLoaded ==
  Ready /\ source = "file" =>
    \A n \in DOMAIN headers :
      \A i \in 0..(SizeOf(headers[n]) - 1) :
        mapping[headers[n].rva + i] =
          IF i < headers[n].raw THEN headers[n].pointer + i ELSE Zero
=============================================================================
