----------------------------- MODULE Relocations -----------------------------
(***************************************************************************)
(* The RELA table of an arm64 kernel: KallsymsFinder.find_elf64_rela       *)
(* searches it backwards from the end of the image and infers the address  *)
(* the image is loaded at; .apply_elf64_rela then relocates a copy of the  *)
(* image, which replaces the image only if every entry is usable.  The     *)
(* entries found also tell elf_symbolizer where to punch a hole.           *)
(*                                                                         *)
(* An optional value is a set: {} for None, {v} for v.                     *)
(***************************************************************************)
EXTENDS Digits, FiniteSetsExt

CONSTANTS
    Base,           \* how many values a byte has (256)
    Ptr,            \* bytes of a pointer (8)
    StartAlign,     \* the scan starts at a multiple of this (4)
    RelType,        \* R_AARCH64_RELATIVE (0x403)
    MinCount,       \* minimal_heuristic_count (1000)
    MinVA,          \* minimal_kernel_va (0xFFFFC00080000000)
    Page,           \* a text candidate is a multiple of this (0x1000)
    GuessAlign,     \* ALIGN, of a guessed base (0x10000)
    Inputs          \* the images, each with base_address

RelaSize == 3 * Ptr
WordLimit == PowerOf(Base)[Ptr]

ASSUME RelocationsAssumption ==
    /\ Base \in Nat /\ Base >= 2
    /\ Ptr \in Nat /\ Ptr >= 2
    /\ StartAlign \in Nat /\ StartAlign >= 2 /\ Ptr % StartAlign = 0
    /\ RelType \in 1 .. WordLimit - 1
    /\ MinCount \in Nat /\ MinCount >= 1
    /\ MinVA \in Nat
    /\ Page \in Nat /\ Page >= 1
    /\ GuessAlign \in Nat /\ GuessAlign >= 1

(* An image, as a sequence of bytes, and the base_address given by the user, if any. *)
ASSUME RelocationInputs ==
    \A c \in Inputs :
        /\ c.image \in Seq(0 .. Base - 1) /\ Len(c.image) >= Ptr
        /\ c.base \in {{}} \cup {{b} : b \in 0 .. WordLimit - 1}

VARIABLES
    original,   \* file_contents: what elf_symbolizer writes
    supplied,   \* base_address
    kernelImg,  \* kernel_img: what the rest of the finder reads
    start,      \* elf64_rela_start
    rela,       \* elf64_rela, last entry of the table first
    addend,     \* addend_candidate
    possible,   \* possible_offset, in the search for the next candidate
    base,       \* kernel_text_candidate
    endExcl,    \* elf64_rela_end_excl
    img,        \* the copy under relocation
    next,       \* the relocation to apply
    phase       \* "scan", "seek", "infer", "apply", "relocated", "absent", "refused", "error"

vars == <<original, supplied, kernelImg, start, rela, addend, possible, base, endExcl,
          img, next, phase>>

size == Len(original)

----------------------------------------------------------------------------
(* The little-endian word at a file offset, and its bytes. *)
Word(bytes, at) == NumberOf(Base, [k \in 1 .. Ptr |-> bytes[at + Ptr - k + 1]])
ByteOf(word, k) == DigitOf(Base, word, k)
IsWordAt(bytes, at, word) == \A k \in 0 .. Ptr - 1 : bytes[at + k + 1] = ByteOf(word, k)

(* Where bytes.rfind(word, first, end) looks, with Python's reading of a negative end. *)
WordsBelow(bytes, word, first, end) ==
    LET stop == IF end >= 0 THEN end ELSE Len(bytes) + end
    IN  {p \in first .. stop - Ptr : IsWordAt(bytes, p, word)}

(* The entry at a file offset: its three words. *)
EntryAt(at) ==
    [at     |-> at,
     offset |-> Word(kernelImg, at),
     info   |-> Word(kernelImg, at + Ptr),
     addend |-> Word(kernelImg, at + 2 * Ptr)]

(* The one that ends at `start'. *)
Entry == EntryAt(start - RelaSize)

IsEmpty(e) == e.offset = 0 /\ e.info = 0 /\ e.addend = 0

AlignDown(n, a) == n - (n % a)
AlignUp(n, a) == AlignDown(n + a - 1, a)

(* The bases that place every relocated pointer inside the image. *)
Offsets == {rela[i].offset : i \in 1 .. Len(rela)}
BaseLow == Max(Offsets) - (size - Ptr)
BaseHigh == Min(Offsets)
Fits(b) == BaseLow <= b /\ b <= BaseHigh

----------------------------------------------------------------------------
Init ==
    /\ \E c \in Inputs : original = c.image /\ supplied = c.base
    /\ kernelImg = original
    /\ start = AlignDown(size, StartAlign)
    /\ rela = << >>
    /\ addend = {}
    /\ possible = 0
    /\ base = {}
    /\ endExcl = 0
    /\ img = << >>
    /\ next = 1
    /\ phase = "scan"

(* An empty entry inside the table is stepped over, and not counted. *)
SkipEmpty ==
    /\ phase = "scan" /\ start >= RelaSize
    /\ IsEmpty(Entry) /\ rela # << >>
    /\ start' = start - RelaSize
    /\ UNCHANGED <<original, supplied, kernelImg, rela, addend, possible, base, endExcl,
                   img, next, phase>>

(* Another kind of entry ends a table that is long enough. *)
EndTable ==
    /\ phase = "scan" /\ start >= RelaSize
    /\ Entry.info # RelType /\ ~(IsEmpty(Entry) /\ rela # << >>)
    /\ Len(rela) >= MinCount
    /\ phase' = "infer"
    /\ UNCHANGED <<original, supplied, kernelImg, start, rela, addend, possible, base,
                   endExcl, img, next>>

(* Mutant: the entries of a table that was dropped stay in the list. *)
DropTableKeepsEntries ==
    /\ phase = "scan" /\ start >= RelaSize
    /\ Entry.info # RelType /\ ~(IsEmpty(Entry) /\ rela # << >>)
    /\ Len(rela) < MinCount
    /\ possible' = start - 1
    /\ phase' = "seek"
    /\ UNCHANGED <<original, supplied, kernelImg, start, rela, addend, base, endExcl, img,
                   next>>

(* Anything shorter is dropped; the addend candidate it gave is kept. *)
DropTable ==
    /\ phase = "scan" /\ start >= RelaSize
    /\ Entry.info # RelType /\ ~(IsEmpty(Entry) /\ rela # << >>)
    /\ Len(rela) < MinCount
    /\ rela' = << >>
    /\ possible' = start - 1
    /\ phase' = "seek"
    /\ UNCHANGED <<original, supplied, kernelImg, start, addend, base, endExcl, img, next>>

Candidates == WordsBelow(kernelImg, RelType, Ptr, possible - RelaSize + 1)

(* Mutant: a search that finds nothing goes on. *)
SeekCandidateForever ==
    /\ phase = "seek"
    /\ possible % Ptr # 0
    /\ possible' = IF Candidates = {} THEN -1 ELSE Max(Candidates)
    /\ UNCHANGED <<original, supplied, kernelImg, start, rela, addend, base, endExcl, img,
                   next, phase>>

(* One turn of the search for an aligned RelType word further down. *)
SeekCandidate ==
    /\ phase = "seek"
    /\ possible % Ptr # 0
    /\ \/ /\ Candidates = {}
          /\ possible' = -1
          /\ start' = 0
          /\ phase' = "scan"
       \/ \E p \in Candidates :
             /\ \A q \in Candidates : q <= p
             /\ possible' = p
             /\ UNCHANGED <<start, phase>>
    /\ UNCHANGED <<original, supplied, kernelImg, rela, addend, base, endExcl, img, next>>

(* The scan goes on below the aligned word found. *)
ResumeScan ==
    /\ phase = "seek"
    /\ possible % Ptr = 0
    /\ start' = possible - Ptr
    /\ phase' = "scan"
    /\ UNCHANGED <<original, supplied, kernelImg, rela, addend, possible, base, endExcl,
                   img, next>>

(* Mutant: an addend inside a page is taken for the address of the text. *)
IsTextCandidateAnywhere(e) ==
    /\ MinVA <= e.addend
    /\ \A a \in addend : e.addend < a

(* The lowest page-aligned kernel address so far. *)
IsTextCandidate(e) ==
    /\ e.addend % Page = 0
    /\ MinVA <= e.addend
    /\ \A a \in addend : e.addend < a

(* A relocation joins the table; a page-aligned kernel address may be that of the text. *)
TakeEntry ==
    /\ phase = "scan" /\ start >= RelaSize
    /\ Entry.info = RelType
    /\ rela' = Append(rela, Entry)
    /\ addend' = IF IsTextCandidate(Entry) THEN {Entry.addend} ELSE addend
    /\ start' = start - RelaSize
    /\ UNCHANGED <<original, supplied, kernelImg, possible, base, endExcl, img, next, phase>>

(* The file's start: a short table is none (return False), a long one is taken. *)
EndOfFile ==
    /\ phase = "scan" /\ start < RelaSize
    /\ phase' = IF Len(rela) < MinCount THEN "absent" ELSE "infer"
    /\ UNCHANGED <<original, supplied, kernelImg, start, rela, addend, possible, base,
                   endExcl, img, next>>

(***************************************************************************)
(* The base: the user's, else the addend candidate if it fits, else an     *)
(* aligned value of the range of bases that fit (when the range holds none *)
(* the one below it), else the addend candidate all the same.  Logging a   *)
(* base that is None raises TypeError.                                     *)
(***************************************************************************)
GuessedBaseBelow == AlignDown(BaseLow, GuessAlign)      \* mutant: rounded the wrong way

GuessedBase ==
    LET up == AlignUp(BaseLow, GuessAlign)
    IN  IF up > BaseHigh THEN AlignDown(BaseHigh, GuessAlign) ELSE up

InferredBase ==
    IF supplied # {} THEN supplied
    ELSE IF addend # {} /\ \A a \in addend : Fits(a) THEN addend
    ELSE IF BaseLow <= BaseHigh THEN {GuessedBase}
    ELSE addend

(* Mutant: one entry too many. *)
TableEndLate == start + (Len(rela) + 1) * RelaSize

(* elf64_rela_end_excl counts the entries taken, not the empty ones stepped over. *)
TableEnd == start + Len(rela) * RelaSize

InferBase ==
    /\ phase = "infer"
    /\ base' = InferredBase
    /\ endExcl' = TableEnd
    /\ img' = kernelImg
    /\ phase' = IF InferredBase = {} THEN "error" ELSE "apply"
    /\ UNCHANGED <<original, supplied, kernelImg, start, rela, addend, possible, next>>

(* The place in the file that the next relocation changes. *)
Target == rela[next].offset - (CHOOSE b \in base : TRUE)

(* One relocation outside the image and the whole table is given up. *)
RefuseTable ==
    /\ phase = "apply" /\ next <= Len(rela)
    /\ Target < 0 \/ Target >= size - Ptr
    /\ base' = {}
    /\ rela' = << >>
    /\ phase' = "refused"
    /\ UNCHANGED <<original, supplied, kernelImg, start, addend, possible, endExcl, img, next>>

(* The addend is added to the word the image had before any relocation. *)
Relocated(word, r) == IF word = r.addend THEN word ELSE (word + r.addend) % WordLimit

Patch(bytes, at, word) ==
    [p \in 1 .. Len(bytes) |->
        IF p - 1 \in at .. at + Ptr - 1 THEN ByteOf(word, p - 1 - at) ELSE bytes[p]]

(* Mutant: the image itself is relocated, without a copy. *)
ApplyInPlace ==
    /\ phase = "apply" /\ next <= Len(rela)
    /\ Target >= 0 /\ Target < size - Ptr
    /\ LET word == Word(kernelImg, Target)
       IN  img' = IF word = rela[next].addend THEN img
                  ELSE Patch(img, Target, Relocated(word, rela[next]))
    /\ kernelImg' = img'
    /\ next' = next + 1
    /\ UNCHANGED <<original, supplied, start, rela, addend, possible, base, endExcl, phase>>

(* Mutant: the word is read from the copy, after earlier relocations. *)
ApplyToCopy ==
    /\ phase = "apply" /\ next <= Len(rela)
    /\ Target >= 0 /\ Target < size - Ptr
    /\ LET word == Word(img, Target)
       IN  img' = IF word = rela[next].addend THEN img
                  ELSE Patch(img, Target, Relocated(word, rela[next]))
    /\ next' = next + 1
    /\ UNCHANGED <<original, supplied, kernelImg, start, rela, addend, possible, base,
                   endExcl, phase>>

ApplyRelocation ==
    /\ phase = "apply" /\ next <= Len(rela)
    /\ Target >= 0 /\ Target < size - Ptr
    /\ LET word == Word(kernelImg, Target)
       IN  img' = IF word = rela[next].addend THEN img
                  ELSE Patch(img, Target, Relocated(word, rela[next]))
    /\ next' = next + 1
    /\ UNCHANGED <<original, supplied, kernelImg, start, rela, addend, possible, base,
                   endExcl, phase>>

(* All applied: the copy becomes the image. *)
AdoptImage ==
    /\ phase = "apply" /\ next > Len(rela)
    /\ kernelImg' = img
    /\ phase' = "relocated"
    /\ UNCHANGED <<original, supplied, start, rela, addend, possible, base, endExcl, img, next>>

Next ==
    \/ SkipEmpty
    \/ EndTable
    \/ DropTable
    \/ SeekCandidate
    \/ ResumeScan
    \/ TakeEntry
    \/ EndOfFile
    \/ InferBase
    \/ RefuseTable
    \/ ApplyRelocation
    \/ AdoptImage

(* Both methods are called once, one after the other, and run until they return. *)
Spec == Init /\ [][Next]_vars /\ WF_vars(Next)

Ended == phase \in {"relocated", "absent", "refused", "error"}

----------------------------------------------------------------------------
Bytes == Seq(0 .. Base - 1)

TypeOK ==
    /\ original \in Bytes /\ kernelImg \in Bytes /\ img \in Bytes
    /\ start \in 0 .. size
    /\ rela \in Seq([at : Nat, offset : Nat, info : {RelType}, addend : Nat])
    /\ addend \in {{}} \cup {{a} : a \in {v \in MinVA .. WordLimit - 1 : v % Page = 0}}
    /\ possible \in -1 .. size
    /\ base \subseteq Int /\ \A a, b \in base : a = b
    /\ endExcl \in 0 .. size
    /\ next \in 1 .. Len(rela) + 1 \/ phase = "refused"
    /\ phase \in {"scan", "seek", "infer", "apply", "relocated", "absent", "refused", "error"}

TableFound == phase \in {"infer", "apply", "relocated"}
TableTop == rela[1].at + RelaSize
IsEmptyAt(at) == \A k \in 1 .. RelaSize : original[at + k] = 0

(***************************************************************************)
(* The scan neither loses nor repeats an entry between the two ends of the *)
(* table it reports: going down from the last entry in steps of one entry, *)
(* each place is empty or the next relocation of elf64_rela, although the  *)
(* scan was restarted any number of times before.                          *)
(***************************************************************************)
TableIsWhole ==
    TableFound =>
        /\ {rela[i].at : i \in 1 .. Len(rela)} =
              {at \in start .. TableTop - RelaSize :
                  (TableTop - at) % RelaSize = 0 /\ ~IsEmptyAt(at)}
        /\ \A i \in 1 .. Len(rela) - 1 : rela[i + 1].at < rela[i].at
        /\ \A i \in 1 .. Len(rela) : IsWordAt(original, rela[i].at + Ptr, RelType)

(***************************************************************************)
(* The hole elf_symbolizer punches, from elf64_rela_start to               *)
(* elf64_rela_end_excl, is inside the file and removes nothing but the     *)
(* table: no byte past its last entry is lost.                             *)
(***************************************************************************)
HoleInsideTable ==
    phase \in {"apply", "relocated"} => start <= endExcl /\ endExcl <= TableTop

(***************************************************************************)
(* The image changes all at once or not at all: one relocation that falls  *)
(* outside it leaves every byte as it was, those already relocated in the  *)
(* copy included.                                                          *)
(***************************************************************************)
AllOrNothing ==
    kernelImg # original =>
        /\ phase = "relocated"
        /\ \A b \in base : \A i \in 1 .. Len(rela) :
              0 <= rela[i].offset - b /\ rela[i].offset - b < size - Ptr

TargetOf(i) == rela[i].offset - (CHOOSE b \in base : TRUE)
Changes == {i \in 1 .. Len(rela) : Word(original, TargetOf(i)) # rela[i].addend}
Overlap(p, q) == p - q \in -(Ptr - 1) .. Ptr - 1

(***************************************************************************)
(* Applying the table has the effect of each relocation on the image as it *)
(* was loaded: a word holds the sum modulo the word size of its first      *)
(* value and the addend of the last relocation that changes it, however    *)
(* often or in whatever order the table names it, and the other bytes are  *)
(* unchanged.                                                              *)
(***************************************************************************)
RelocatedOnce ==
    phase = "relocated" =>
        /\ \A i \in Changes :
              (\A j \in Changes : j > i => ~Overlap(TargetOf(j), TargetOf(i))) =>
                  IsWordAt(kernelImg, TargetOf(i),
                           (Word(original, TargetOf(i)) + rela[i].addend) % WordLimit)
        /\ \A p \in 0 .. size - 1 :
              (\A i \in Changes : p \notin TargetOf(i) .. TargetOf(i) + Ptr - 1) =>
                  kernelImg[p + 1] = original[p + 1]

(***************************************************************************)
(* When an aligned base puts every relocated pointer inside the image, the *)
(* base inferred without the user's help does so too.                      *)
(***************************************************************************)
GuessFitsIfAlignedBaseDoes ==
    phase = "apply" /\ supplied = {} =>
        ((\E b \in BaseLow .. BaseHigh : b % GuessAlign = 0) => \A b \in base : Fits(b))

(***************************************************************************)
(* "Infer a sane base range from relocation offsets so that every          *)
(* relocation offset maps somewhere inside the image": when some base does *)
(* so, the inferred one does.                                              *)
(***************************************************************************)
InferredBaseFits ==
    phase = "apply" /\ supplied = {} /\ BaseLow <= BaseHigh => \A b \in base : Fits(b)

(***************************************************************************)
(* "Punch a hole into the ELF to remove relocation tables": what follows   *)
(* the hole is not another relocation of the table.                        *)
(***************************************************************************)
HoleRemovesTable ==
    phase = "relocated" /\ endExcl + RelaSize <= size =>
        ~IsWordAt(original, endExcl + Ptr, RelType)

(***************************************************************************)
(* The search returns: on every image whose first bytes hold no RelType    *)
(* word at an unaligned place.                                             *)
(***************************************************************************)
LowStray == \E p \in 0 .. RelaSize - 2 : p % Ptr # 0 /\ IsWordAt(original, p, RelType)
ReturnsWithoutStray == ~LowStray => <>Ended

(* "Find relocations table, return True if success, False otherwise": it returns. *)
Returns == <>Ended
============================================================================
