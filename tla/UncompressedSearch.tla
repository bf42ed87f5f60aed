------------------------- MODULE UncompressedSearch -------------------------
(***************************************************************************)
(* How KallsymsFinder of core/kallsyms.py finds a table that is not        *)
(* compressed (OpenWRT), when there is no token table: kallsyms_names by a *)
(* run of names of an ordinary form, from which the names are counted,     *)
(* and kallsyms_markers behind them, with the size of a marker guessed     *)
(* from the longest distance between two groups of bytes that are not 0.   *)
(*                                                                         *)
(* A byte is a number below Base, an offset counts from 0, as in Python,   *)
(* and an optional value is a set: {} for None, {v} for v.  How a kernel   *)
(* stores its table is modelled as external.                               *)
(***************************************************************************)
EXTENDS Digits, SequencesExt

CONSTANTS
    Base,           \* the values of a byte (256)
    Lengths,        \* the lengths of an ordinary name (5 .. 35)
    RunTypes,       \* the types of an ordinary name
    Letters,        \* the characters of an ordinary name
    MinLetters,     \* of which it has so many at least (4)
    MaxLetters,     \* and at most (34)
    RunLength,      \* the ordinary names the search looks for (14)
    Types,          \* the types of any name
    Printable,      \* the characters of any name
    Newline,        \* which may come last: "$" matches in front of it
    MinNames,       \* the fewest names that are a table (100)
    Align,          \* the alignment of the markers, whatever their size (4)
    Chunks,         \* the groups of bytes that are measured (20)
    Sizes,          \* the sizes of a marker: 2, 4 and 8
    Kernels         \* the kernels that are read

(* In ASCII the ordinary lengths come before the letters, and these, or rather the types *)
(* that are letters, after any number of letters in an ordinary name.                    *)
ASSUME UncompressedAssumption ==
    /\ Base \in Nat /\ Base >= 2
    /\ RunLength \in Nat /\ RunLength >= 2 /\ MinNames \in Nat /\ Chunks \in Nat \ {0}
    /\ MinLetters \in Nat \ {0} /\ MaxLetters \in Nat
    /\ Align = 4 /\ Sizes = {2, 4, 8}
    /\ Lengths \cap Letters = {}
    /\ RunTypes \subseteq Nat /\ \A t \in RunTypes : t > MaxLetters + 1

(* A kernel: the bytes of a marker; the byte order, and what is known of it in advance;  *)
(* the bytes before the names; the names, each its type and its characters, in a table   *)
(* of bytes; the markers, of which the first is where the names begin; the bytes behind. *)
Bytes == 0 .. Base - 1
ASSUME KernelsAssumption ==
    \A k \in Kernels :
        /\ k.size \in Sizes /\ k.big \in BOOLEAN /\ k.known \in {{}, {FALSE}, {TRUE}}
        /\ k.front \in Seq(Bytes) /\ k.after \in Seq(Bytes)
        /\ k.names \in Seq(Seq(Bytes)) /\ \A i \in DOMAIN k.names : Len(k.names[i]) \in Bytes
        /\ k.markers \in Seq(Nat) /\ k.markers # << >> /\ k.markers[1] = 0

VARIABLES
    given,      \* the kernel
    img,        \* kernel_img
    position,   \* position
    names,      \* kallsyms_names__offset
    count,      \* number_of_symbols
    end,        \* end_of_kallsyms_names_uncompressed
    chunk,      \* null_separated_bytes_chunks
    widest,     \* max_number_of_space_between_two_nulls
    size,       \* offset_table_element_size
    big,        \* is_big_endian
    markers,    \* kallsyms_markers__offset
    phase       \* "run", "count", "skip", "measure", "first", "done",
                \* "absent" (KallsymsNotFoundException), "error"

vars == <<given, img, position, names, count, end, chunk, widest, size, big, markers, phase>>

----------------------------------------------------------------------------
(* The image of a kernel. *)
Zeros(n) == [i \in 1 .. n |-> 0]
Padded(s, n) == s \o Zeros((-Len(s)) % n)
Encoded(v, k) ==
    [i \in 1 .. k.size |-> DigitOf(Base, v, IF k.big THEN k.size - i ELSE i - 1)]
Entry(name) == <<Len(name)>> \o name
Entries(k, n) == k.front \o FlattenSeq([i \in 1 .. n |-> Entry(k.names[i])])
ToMarkers(k) == Padded(Entries(k, Len(k.names)), k.size)
Image(k) ==
    ToMarkers(k) \o FlattenSeq([i \in DOMAIN k.markers |-> Encoded(k.markers[i], k)])
        \o k.after

(* Where the entries begin and where the last one ends. *)
Boundary(k, n) == Len(Entries(k, n))

----------------------------------------------------------------------------
At(p) == img[p + 1]
Inside(p) == 0 <= p /\ p < Len(img)

(* The letters from p on. *)
LetterCount(p) ==
    LET letters[q \in Nat] == IF Inside(q) /\ At(q) \in Letters THEN letters[q + 1] ELSE q
    IN  letters[p] - p

(* The regular expression: n ordinary names from p on.  A length is not a letter: the   *)
(* letters of a name end in front of the next one.                                      *)
RunFrom(first) ==
    LET run[n \in 0 .. RunLength] ==
            {p \in Nat :
                n > 0 => /\ Inside(p + 1) /\ At(p) \in Lengths /\ At(p + 1) \in RunTypes
                         /\ LetterCount(p + 2) >= MinLetters
                         /\ n > 1 => /\ LetterCount(p + 2) <= MaxLetters
                                     /\ p + 2 + LetterCount(p + 2) \in run[n - 1]}
    IN  first \in run[RunLength]
Runs == {p \in 0 .. Len(img) - 1 : RunFrom(p)}

(* The bytes an entry at p says it has; the image may end before. *)
Text(p) == SubSeq(img, p + 2, Min({p + 1 + At(p), Len(img)}))
IsText(s) ==
    \A i \in DOMAIN s : s[i] \in Printable \/ (i = Len(s) /\ i > 1 /\ s[i] = Newline)

(* Whether the walk takes what is at position for a name. *)
IsName(p) == /\ Inside(p) /\ Inside(p + 1)
             /\ At(p) >= 2 /\ At(p + 1) \in Types
             /\ IsText(Text(p))

AlignUp(p, n) == p + ((-p) % n)
AfterNames(p) == AlignUp(p, Align)

NextNull == {q \in position + 1 .. Len(img) - 1 : At(q) = 0}
NextByte == {q \in position + 1 .. Len(img) - 1 :
                At(q) # 0 /\ \E n \in NextNull : n < q}

----------------------------------------------------------------------------
Init ==
    /\ given \in Kernels
    /\ img = Image(given)
    /\ position = 0 /\ count = 0 /\ chunk = 0 /\ widest = 0
    /\ names = {} /\ end = {} /\ size = {} /\ markers = {}
    /\ big = given.known
    /\ phase = "run"

(* The first run of ordinary names. *)
FindRun ==
    /\ phase = "run" /\ Runs # {}
    /\ names' = {Min(Runs)}
    /\ position' = Min(Runs)
    /\ phase' = "count"
    /\ UNCHANGED <<given, img, count, end, chunk, widest, size, big, markers>>

(* Mutant: the length is taken to include its own byte. *)
CountNameShort ==
    /\ phase = "count" /\ IsName(position)
    /\ position' = position + At(position)
    /\ count' = count + 1
    /\ UNCHANGED <<given, img, names, end, chunk, widest, size, big, markers, phase>>

CountName ==
    /\ phase = "count" /\ IsName(position)
    /\ position' = position + 1 + At(position)
    /\ count' = count + 1
    /\ UNCHANGED <<given, img, names, end, chunk, widest, size, big, markers, phase>>

EndNames ==
    /\ phase = "count" /\ ~IsName(position) /\ count >= MinNames
    /\ end' = {position}
    /\ position' = AfterNames(position)
    /\ phase' = "skip"
    /\ UNCHANGED <<given, img, names, count, chunk, widest, size, big, markers>>

(* The padding and the first marker, up to the byte in front of the second. *)
SkipNull ==
    /\ phase = "skip" /\ Inside(position + 1) /\ At(position + 1) = 0
    /\ position' = position + 1
    /\ UNCHANGED <<given, img, names, count, end, chunk, widest, size, big, markers, phase>>

StartMeasuring ==
    /\ phase = "skip" /\ ~(Inside(position + 1) /\ At(position + 1) = 0)
    /\ phase' = "measure"
    /\ UNCHANGED <<given, img, position, names, count, end, chunk, widest, size, big,
                   markers>>

(* One group of bytes that are not null and the nulls behind it; the first is counted   *)
(* with the null in front of it.                                                        *)
MeasureChunk ==
    /\ phase = "measure" /\ chunk < Chunks
    /\ NextByte # {}
    /\ position' = Min(NextByte)
    /\ widest' = Max({widest, Min(NextByte) - position})
    /\ chunk' = chunk + 1
    /\ UNCHANGED <<given, img, names, count, end, size, big, markers, phase>>

(* Mutant: the null in front of the first group is not made up for. *)
WidthAsMeasured == widest

(* The width is even: the first group and a leap to a smaller byte make it one too many. *)
Width == widest - (widest % 2)

(* Mutant: any width is a size. *)
GuessSizeAnyway ==
    /\ phase = "measure" /\ chunk = Chunks
    /\ size' = {Width}
    /\ \E e \in end : position' = AfterNames(e)
    /\ phase' = "first"
    /\ UNCHANGED <<given, img, names, count, end, chunk, widest, big, markers>>

GuessSize ==
    /\ phase = "measure" /\ chunk = Chunks
    /\ Width \in Sizes
    /\ size' = {Width}
    /\ \E e \in end : position' = AfterNames(e)
    /\ phase' = "first"
    /\ UNCHANGED <<given, img, names, count, end, chunk, widest, big, markers>>

(* The first byte that is not null, of the second marker. *)
FirstByte ==
    LET bytes == {q \in position .. Len(img) - 1 : At(q) # 0}
    IN  IF bytes = {} THEN Len(img) ELSE Min(bytes)

(* Mutant: only one marker back. *)
FirstMarkerLate(s) ==
    LET back == (IF FirstByte % s = 0 THEN FirstByte + s ELSE s) - s
    IN  back - (back % s)

(* Two markers back from the end of the second; but a place that is not aligned is       *)
(* replaced by the size, for "-position" has lost its remainder.                         *)
FirstMarker(s) ==
    LET back == (IF FirstByte % s = 0 THEN FirstByte + s ELSE s) - 2 * s
    IN  back - (back % s)

FindMarkers ==
    /\ phase = "first"
    /\ \E s \in size :
          /\ big' = IF big = {} THEN {FirstByte % s > 1} ELSE big
          /\ markers' = {FirstMarker(s)}
    /\ phase' = "done"
    /\ UNCHANGED <<given, img, position, names, count, end, chunk, widest, size>>

(* KallsymsNotFoundException: no run, or too few names. *)
GiveUp ==
    /\ \/ phase = "run" /\ Runs = {}
       \/ phase = "count" /\ ~IsName(position) /\ count < MinNames
    /\ phase' = "absent"
    /\ UNCHANGED <<given, img, position, names, count, end, chunk, widest, size, big,
                   markers>>

(* IndexError: the image ends.  ValueError: the width is no size. *)
Fail ==
    /\ phase = "measure"
    /\ IF chunk < Chunks THEN NextByte = {} ELSE Width \notin Sizes
    /\ phase' = "error"
    /\ UNCHANGED <<given, img, position, names, count, end, chunk, widest, size, big,
                   markers>>

Next ==
    \/ FindRun \/ CountName \/ EndNames \/ SkipNull \/ StartMeasuring
    \/ MeasureChunk \/ GuessSize \/ FindMarkers \/ GiveUp \/ Fail

Spec == Init /\ [][Next]_vars

----------------------------------------------------------------------------
TypeOK ==
    /\ position \in 0 .. Len(img) + Base + Align
    /\ count \in Nat /\ chunk \in 0 .. Chunks /\ widest \in Nat
    /\ names \subseteq 0 .. Len(img) - 1
    /\ end \subseteq Nat
    /\ size \subseteq Sizes
    /\ big \subseteq BOOLEAN /\ Cardinality(big) <= 1
    /\ markers \subseteq Int
    /\ phase \in {"run", "count", "skip", "measure", "first", "done", "absent", "error"}

(* The names are text of known types, in which the length of an ordinary name ("#", say, *)
(* or a newline) comes last if at all; and what is around them does not look like names. *)
Textual(k) ==
    /\ \A i \in DOMAIN k.names :
          /\ Len(k.names[i]) >= 2 /\ Head(k.names[i]) \in Types /\ IsText(k.names[i])
          /\ \A j \in 1 .. Len(k.names[i]) - 1 : k.names[i][j] \notin Lengths
    /\ \A p \in Runs : Len(k.front) <= p /\ p < Boundary(k, Len(k.names))

Ordinary(name) ==
    /\ Len(name) \in Lengths /\ Head(name) \in RunTypes
    /\ Len(name) - 1 \in MinLetters .. MaxLetters
    /\ \A i \in 2 .. Len(name) : name[i] \in Letters
OrdinaryFrom(k, n) ==
    n + RunLength <= Len(k.names) /\ \A i \in 1 .. RunLength : Ordinary(k.names[n + i])

(* The names counted are the names there are, from the first of the run to the end: the *)
(* walk keeps to the entries, whatever their lengths, and nothing behind them is taken  *)
(* for a name; and a table with enough names from an ordinary run on is not missed.     *)
NamesCounted ==
    Textual(given) =>
        /\ \A e \in end : \E n \in 0 .. Len(given.names) :
              /\ names = {Boundary(given, n)}
              /\ e = Boundary(given, Len(given.names))
              /\ count = Len(given.names) - n
        /\ phase = "absent" =>
              \A n \in 0 .. Len(given.names) - MinNames : ~OrdinaryFrom(given, n)

(* Markers that the guesses are made for: enough of them, one more if the first may be   *)
(* passed over with the padding; none but the first 0, with a null at the end that is    *)
(* most significant.  The first byte that is not null stands at the same place of the    *)
(* second and of the third, which for a big-endian kernel is the third place or a later  *)
(* one, and moves to a later place by one at most, on a little-endian machine; and no    *)
(* null stands between two bytes of the second that are not.                             *)
Significant(k, i) == {j \in 1 .. k.size : Encoded(k.markers[i], k)[j] # 0}
Lead(k, i) == Min(Significant(k, i)) - 1
Regular(k) ==
    /\ Len(k.markers) >= Chunks + (IF k.size < Align THEN 3 ELSE 2)
    /\ \A i \in 2 .. Len(k.markers) : k.markers[i] \in 1 .. PowerOf(Base)[k.size - 1] - 1
    /\ \A i \in 3 .. Len(k.markers) :
          Lead(k, i) <= Lead(k, i - 1) + (IF k.big THEN 0 ELSE 1)
    /\ Lead(k, 2) = Lead(k, 3)
    /\ IF k.big THEN Lead(k, 2) > 1 ELSE Lead(k, 2) = 0
    /\ \A h, j \in Significant(k, 2) : h .. j \subseteq Significant(k, 2)

(* The size of a marker and the byte order, unless it was known, are the kernel's.      *)
LayoutGuessed ==
    Textual(given) /\ Regular(given) =>
        /\ phase # "error"
        /\ size \subseteq {given.size}
        /\ given.known = {} => big \subseteq {given.big}

(* On a little-endian machine the markers are found where they are. *)
MarkersFound ==
    Textual(given) /\ Regular(given) /\ ~given.big =>
        markers \subseteq {Len(ToMarkers(given))}

(* "Once the size of a long has been guessed, use it to find the first offset (0)"      *)
(* (kallsyms.py:712): what is found is in the image, and is 0.                          *)
FirstOffsetFound ==
    Textual(given) /\ Regular(given) /\ phase = "done" =>
        \A m \in markers, s \in size :
            m >= 0 /\ \A j \in 0 .. s - 1 : Inside(m + j) /\ At(m + j) = 0
=============================================================================
