---------------------------- MODULE Decompressor ----------------------------
(***************************************************************************)
(* core/vmlinuz_decompressor.py and utils/lz4_legacy.py: a kernel that may *)
(* be compressed, or packed in the image of a boot partition, is looked    *)
(* for at the places that the last words of the file name, and then at     *)
(* every signature of a compression format; what is not accepted, and      *)
(* every exception, sends the search on.  The decompressors are libraries: *)
(* what they make of the bytes at a place belongs to the file.             *)
(*                                                                         *)
(* An optional value is a set: {} for None, {v} for v.                     *)
(***************************************************************************)
EXTENDS Integers, SequencesExt

CONSTANTS
    Formats,    \* Signature.Compressed, in its order
    Streams,    \* what can stand at a place of a file, or of an image in it
    Nesting,    \* how many images are in one another, for each stream
    Files       \* the files that are read

ASSUME FormatsAssumption ==
    /\ Formats \in Seq(STRING)
    /\ \A i \in DOMAIN Formats : Formats[i] \notin {"android", "none"}
    /\ \A i, j \in DOMAIN Formats : Formats[i] = Formats[j] => i = j

(* What a decompressor yields: whether it has more than 0x1000 bytes, whether there is   *)
(* a 0 in the first 32, and how much of the stream it holds.  It may raise instead.      *)
Data == [large : BOOLEAN, zero : BOOLEAN, part : Nat]
Attempts == {o \in SUBSET Data : \A a, b \in o : a = b}

(* "cut": fewer bytes than announced; "bad": not a block; "zero": no bytes announced.    *)
Blocks == {"full", "partial", "cut", "bad", "zero"}

Nothing == [sign |-> "none", outputs |-> << >>]

(* A stream of LZ4 blocks, of which so many are the kernel's; an Android image, which    *)
(* may not be as expected, and what is at its start; or any other, with what each of     *)
(* the attempts to decompress it yields.                                                 *)
Packed(s) ==
    CASE s.sign = "none" -> s = Nothing
      [] s.sign = "lz4_legacy" -> s.blocks \in Seq(Blocks) /\ s.kernel \in 0 .. Len(s.blocks)
      [] s.sign = "android" ->
            /\ s.valid \in BOOLEAN /\ s.slice \in Data
            /\ s.inner \in Streams /\ Nesting[s.inner] < Nesting[s]
      [] OTHER -> s.outputs # << >> /\ s.outputs \in Seq(Attempts)

ASSUME StreamsAssumption ==
    /\ Nothing \in Streams
    /\ \A s \in Streams : Nesting[s] \in Nat /\ Packed(s)

(* A file: too short for the words at its end or not, an ELF file or not, the places     *)
(* that those words name, and what stands at each of its own.                            *)
ASSUME FilesAssumption ==
    \A f \in Files :
        /\ f.short \in BOOLEAN /\ f.elf \in BOOLEAN
        /\ f.words \subseteq Nat
        /\ f.streams \in Seq(Streams)
        /\ f.elf => f.streams # << >> /\ f.streams[1].sign = "none"

VARIABLES
    file,       \* input_file
    queue,      \* the possible_offsets that are left, the lowest first
    format,     \* the index of possible_signature
    place,      \* possible_offset, -1 for none
    stream,     \* what is tried
    packed,     \* the slices of the images around it
    attempt,    \* which of the outputs is next
    block,      \* the next block
    part,       \* the blocks in uncompressed_stream
    decoded,    \* decoded
    result,     \* what is returned, with its place; {} for the file itself
    phase       \* "tail", "scan", "try", "blocks", "return", "done", "error"

vars == <<file, queue, format, place, stream, packed, attempt, block, part, decoded, result,
          phase>>
trial == <<stream, packed, attempt, block, part, decoded>>

----------------------------------------------------------------------------
StreamAt(p) == IF p < Len(file.streams) THEN file.streams[p + 1] ELSE Nothing

Acceptable(d) == d.zero /\ d.large

(* decompress_lz4_buffer has read so many blocks: no block at all is no kernel. *)
Legacy(n) == [large |-> n > 0, zero |-> TRUE, part |-> n]

(* find(possible_signature, possible_offset + 1) *)
Found ==
    {p \in 0 .. Len(file.streams) - 1 :
        p > place /\ StreamAt(p).sign = Formats[format]}

----------------------------------------------------------------------------
Init ==
    /\ file \in Files
    /\ queue = {0} \cup file.words
    /\ format = 0 /\ place = -1
    /\ stream = Nothing /\ packed = << >>
    /\ attempt = 1 /\ block = 1 /\ part = 0
    /\ decoded = {} /\ result = {}
    /\ phase = "tail"

TryAt(p) ==
    /\ place' = p
    /\ stream' = StreamAt(p)
    /\ packed' = << >> /\ attempt' = 1
    /\ block' = 1 /\ part' = 0 /\ decoded' = {}
    /\ phase' = "try"

(* The start of the file, and the places its last words name. *)
TryWord ==
    /\ phase = "tail" /\ ~file.short /\ queue # {}
    /\ TryAt(Min(queue))
    /\ queue' = queue \ {Min(queue)}
    /\ UNCHANGED <<file, format, result>>

(* An ELF file is not searched. *)
EndWords ==
    /\ phase = "tail" /\ ~file.short /\ queue = {}
    /\ phase' = IF file.elf THEN "done" ELSE "scan"
    /\ format' = 1
    /\ place' = -1
    /\ UNCHANGED <<file, queue, result, trial>>

TryFound ==
    /\ phase = "scan" /\ format <= Len(Formats)
    /\ Found # {}
    /\ TryAt(Min(Found))
    /\ UNCHANGED <<file, queue, format, result>>

NextFormat ==
    /\ phase = "scan" /\ format <= Len(Formats)
    /\ Found = {}
    /\ format' = format + 1
    /\ place' = -1
    /\ UNCHANGED <<file, queue, result, phase, trial>>

(* Nothing was found: the file itself is returned. *)
GiveUp ==
    /\ phase = "scan" /\ format > Len(Formats)
    /\ phase' = "done"
    /\ UNCHANGED <<file, queue, format, place, result, trial>>

----------------------------------------------------------------------------
(* What is at the start of the image is tried as well. *)
OpenImage ==
    /\ phase = "try" /\ stream.sign = "android" /\ stream.valid
    /\ packed' = Append(packed, stream.slice)
    /\ stream' = stream.inner
    /\ attempt' = 1
    /\ UNCHANGED <<file, queue, format, place, block, part, decoded, result, phase>>

(* An assertion fails: it is passed over like every exception. *)
RefuseImage ==
    /\ phase = "try" /\ stream.sign = "android" /\ ~stream.valid
    /\ phase' = "return"
    /\ UNCHANGED <<file, queue, format, place, result, trial>>

(* Mutant: another attempt follows every exception. *)
DecompressAgain ==
    /\ phase = "try" /\ stream.sign \notin {"android", "lz4_legacy", "none"}
    /\ attempt <= Len(stream.outputs)
    /\ decoded' = stream.outputs[attempt]
    /\ attempt' = attempt + 1
    /\ phase' = IF decoded' = {} THEN "try" ELSE "return"
    /\ UNCHANGED <<file, queue, format, place, stream, packed, block, part, result>>

(* One attempt; LZMA has a second, with another header, when the first raises. *)
Decompress ==
    /\ phase = "try" /\ stream.sign \notin {"android", "lz4_legacy", "none"}
    /\ attempt <= Len(stream.outputs)
    /\ decoded' = stream.outputs[attempt]
    /\ attempt' = attempt + 1
    /\ phase' = IF decoded' = {} /\ attempt < Len(stream.outputs) THEN "try" ELSE "return"
    /\ UNCHANGED <<file, queue, format, place, stream, packed, block, part, result>>

RecogniseNothing ==
    /\ phase = "try" /\ stream.sign = "none"
    /\ phase' = "return"
    /\ UNCHANGED <<file, queue, format, place, result, trial>>

StartBlocks ==
    /\ phase = "try" /\ stream.sign = "lz4_legacy"
    /\ phase' = "blocks"
    /\ UNCHANGED <<file, queue, format, place, result, trial>>

AnyBlock == block <= Len(stream.blocks)

(* Mutant: a block that is not full does not end the stream. *)
ReadBlockOn ==
    /\ phase = "blocks" /\ AnyBlock
    /\ stream.blocks[block] \in {"full", "partial"}
    /\ part' = part + 1
    /\ block' = block + 1
    /\ UNCHANGED <<file, queue, format, place, stream, packed, attempt, decoded, result, phase>>

(* Only the last block is not full. *)
ReadBlock ==
    /\ phase = "blocks" /\ AnyBlock
    /\ stream.blocks[block] \in {"full", "partial"}
    /\ part' = part + 1
    /\ block' = block + 1
    /\ IF stream.blocks[block] = "partial"
         THEN phase' = "return" /\ decoded' = {Legacy(part + 1)}
         ELSE UNCHANGED <<phase, decoded>>
    /\ UNCHANGED <<file, queue, format, place, stream, packed, attempt, result>>

(* No block is left, or none that is whole. *)
EndBlocks ==
    /\ phase = "blocks"
    /\ AnyBlock => stream.blocks[block] \in {"cut", "zero"}
    /\ decoded' = {Legacy(part)}
    /\ phase' = "return"
    /\ UNCHANGED <<file, queue, format, place, stream, packed, attempt, block, part, result>>

(* An exception: the blocks that were read are lost. *)
LoseBlocks ==
    /\ phase = "blocks" /\ AnyBlock /\ stream.blocks[block] = "bad"
    /\ phase' = "return"
    /\ UNCHANGED <<file, queue, format, place, result, trial>>

----------------------------------------------------------------------------
Accepted == {d \in decoded : Acceptable(d)}

(* Mutant: what is at the start of the image is not returned. *)
ReturnToImageSlice ==
    /\ phase = "return" /\ packed # << >>
    /\ decoded' = {Last(packed)}
    /\ packed' = Front(packed)
    /\ UNCHANGED <<file, queue, format, place, stream, attempt, block, part, result, phase>>

(* What the image holds is what its start gives, or else the slice. *)
ReturnToImage ==
    /\ phase = "return" /\ packed # << >>
    /\ decoded' = IF Accepted # {} THEN Accepted ELSE {Last(packed)}
    /\ packed' = Front(packed)
    /\ UNCHANGED <<file, queue, format, place, stream, attempt, block, part, result, phase>>

Return ==
    /\ phase = "return" /\ packed = << >>
    /\ Accepted # {}
    /\ result' = {[place |-> place, data |-> d] : d \in Accepted}
    /\ phase' = "done"
    /\ UNCHANGED <<file, queue, format, place, trial>>

GoOn ==
    /\ phase = "return" /\ packed = << >>
    /\ Accepted = {}
    /\ phase' = IF format = 0 THEN "tail" ELSE "scan"
    /\ UNCHANGED <<file, queue, format, place, result, trial>>

(* struct.error: there are not so many words. *)
Fail ==
    /\ phase = "tail" /\ file.short
    /\ phase' = "error"
    /\ UNCHANGED <<file, queue, format, place, result, trial>>

Next ==
    \/ TryWord \/ EndWords \/ TryFound \/ NextFormat \/ GiveUp
    \/ OpenImage \/ RefuseImage \/ Decompress \/ RecogniseNothing
    \/ StartBlocks \/ ReadBlock \/ EndBlocks \/ LoseBlocks
    \/ ReturnToImage \/ Return \/ GoOn \/ Fail

Spec == Init /\ [][Next]_vars

----------------------------------------------------------------------------
TypeOK ==
    /\ format \in 0 .. Len(Formats) + 1
    /\ place \in Nat \cup {-1}
    /\ packed \in Seq(Data)
    /\ decoded \in Attempts
    /\ phase = "try" /\ stream.sign \notin {"android", "lz4_legacy", "none"} =>
          attempt \in DOMAIN stream.outputs
    /\ phase \in {"tail", "scan", "try", "blocks", "return", "done", "error"}

(* What a stream yields, said without the steps: of blocks, those before the first that *)
(* is not full, and that one too if it is the last of the stream; of an image, what its *)
(* start yields if that is a kernel, or else its slice; of any other, its first output. *)
BlocksYield(s) ==
    LET open == {i \in DOMAIN s.blocks : s.blocks[i] # "full"}
    IN  IF open = {} THEN {Legacy(Len(s.blocks))}
        ELSE CASE s.blocks[Min(open)] = "partial" -> {Legacy(Min(open))}
               [] s.blocks[Min(open)] = "bad" -> {}
               [] OTHER -> {Legacy(Min(open) - 1)}
KernelIn(data) == {d \in data : Acceptable(d)}
YieldOf(s, inside) ==
    CASE s.sign = "lz4_legacy" -> BlocksYield(s)
      [] s.sign = "android" ->
            IF ~s.valid THEN {}
            ELSE IF KernelIn(inside) # {} THEN KernelIn(inside) ELSE {s.slice}
      [] OTHER ->
            LET outputs == {i \in DOMAIN s.outputs : s.outputs[i] # {}}
            IN  IF outputs = {} THEN {} ELSE s.outputs[Min(outputs)]
Yield ==
    LET yield[s \in Streams] == YieldOf(s, IF s.sign = "android" THEN yield[s.inner] ELSE {})
    IN  yield
KernelAt(p) == KernelIn(Yield[StreamAt(p)])

NamedPlaces == {p \in {0} \cup file.words : KernelAt(p) # {}}
FoundPlaces ==
    {p \in 0 .. Len(file.streams) - 1 :
        ~file.elf /\ StreamAt(p).sign \in ToSet(Formats) /\ KernelAt(p) # {}}
FormatAt(p) == CHOOSE i \in DOMAIN Formats : Formats[i] = StreamAt(p).sign
Sooner(p, q) == FormatAt(p) < FormatAt(q) \/ (FormatAt(p) = FormatAt(q) /\ p <= q)

(* "Check for known signatures at fixed offsets" and "If not successful, scan": a false *)
(* signature, whatever it decompresses to or raises, neither hides a kernel nor is      *)
(* taken for one.  The kernel returned is that of the lowest place the words name, or   *)
(* else of the first place with the first format; the file is only returned as it is    *)
(* when there is none.                                                                  *)
KernelTaken ==
    phase = "done" =>
        IF NamedPlaces \cup FoundPlaces = {} THEN result = {}
        ELSE \E p \in NamedPlaces \cup FoundPlaces :
                /\ IF NamedPlaces # {} THEN p = Min(NamedPlaces)
                   ELSE \A q \in FoundPlaces : Sooner(p, q)
                /\ result = {[place |-> p, data |-> d] : d \in KernelAt(p)}

(* A stream as a kernel has it: every block is full but the last, and what is behind a  *)
(* full last block (the size of the kernel, other data) is not taken for a block.       *)
WholeBlocks(s) ==
    /\ s.kernel > 0
    /\ \A i \in 1 .. s.kernel - 1 : s.blocks[i] = "full"
    /\ \/ s.blocks[s.kernel] = "partial"
       \/ /\ s.blocks[s.kernel] = "full"
          /\ s.kernel < Len(s.blocks) => s.blocks[s.kernel + 1] \in {"cut", "zero", "bad"}

(* A kernel in LZ4 blocks is returned whole, without what follows it, or not at all.    *)
BlocksWhole ==
    \A r \in result :
        LET s == StreamAt(r.place)
        IN  s.sign = "lz4_legacy" /\ WholeBlocks(s) => r.data.part = s.kernel
=============================================================================
