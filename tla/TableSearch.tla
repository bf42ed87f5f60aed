----------------------------- MODULE TableSearch -----------------------------
(***************************************************************************)
(* How KallsymsFinder of core/kallsyms.py finds a compressed symbol table  *)
(* in the image of a kernel: kallsyms_token_table by the run of its one-   *)
(* digit tokens, kallsyms_token_index (and the byte order) by the offsets  *)
(* of the tokens, kallsyms_markers by its first zero and a guess at the    *)
(* approximate place of kallsyms_names, from which NameTable goes on.      *)
(*                                                                         *)
(* The image is what scripts/kallsyms.c makes a kernel hold, laid out by   *)
(* Image and modelled as external.  A byte is a number below Base, and an  *)
(* offset counts from 0, as in Python.  The name of a token is its index.  *)
(***************************************************************************)
EXTENDS Integers, SequencesExt

CONSTANTS
    Base,           \* the values of a byte (256)
    Zero, Nine,     \* ord("0"), ord("9"): a byte, and the index of its token
    LastLetter,     \* ord("z")
    Alnum,          \* the bytes isalnum() accepts
    Avoid,          \* sequences_to_avoid
    TokenCount,     \* the tokens of a table (256)
    MaxToken,       \* the bytes a token ends within (50)
    TableAlign,     \* the alignment of the token table (4)
    IndexPadding,   \* MAX_ALIGNMENT, of the token index (256)
    Sizes,          \* the sizes a marker is tried with: 8, 4, 2
    Attempts,       \* the places tried with each (32)
    MinGap, MaxGap, \* the distance of two markers (0x200, 0x40000)
    MaxMarkers,     \* the markers read to find the last (3000)
    Every,          \* the names from one marker to the next (256)
    Kernels         \* the kernels that are read

VARIABLES
    given,      \* the kernel
    img,        \* its image
    truth,      \* where its parts lie
    position,   \* position
    tokens,     \* the tokens gone past, backward and then forward
    offsets,    \* all_token_offsets
    table,      \* kallsyms_token_table__offset
    index,      \* kallsyms_token_index__offset
    big,        \* is_big_endian
    size,       \* the index in Sizes of table_element_size
    tried,      \* the places tried with that size
    markers,    \* kallsyms_markers__offset
    names,      \* kallsyms_names__offset
    phase       \* "digits", "back", "forward", "index", "markers", "test", "names", "done",
                \* "uncompressed" (the other kind of table is looked for), "error"

kernel == <<given, img, truth>>
vars == <<kernel, position, tokens, offsets, table, index, big, size, tried, markers, names,
          phase>>

----------------------------------------------------------------------------
(* The image of a kernel.  size: the bytes of kallsyms_num_syms and of a marker; align: *)
(* what each table is aligned to; big: the byte order; zeros: in front; names: the     *)
(* tokens of each; seqs: kallsyms_seqs_of_names; tokens: of the table, or << >> if it   *)
(* has none; decoy: other bytes behind it.                                             *)
Zeros(n) == [i \in 1 .. n |-> 0]
Padded(s, n) == s \o Zeros((-Len(s)) % n)
Digit(v, i) == (v \div Base ^ i) % Base
Encoded(v, n, isBig) ==
    [i \in 1 .. n |-> Digit(v, IF isBig THEN n - i ELSE i - 1)] \o << >>
Terminated(t) == Append(t, 0)

(* An entry of kallsyms_names: the length of the name in one byte, or two, then its tokens. *)
Half == Base \div 2
Entry(name) ==
    (IF Len(name) < Half THEN <<Len(name)>>
     ELSE <<Half + (Len(name) % Half), Len(name) \div Half>>) \o name
Entries(k, n) == FlattenSeq([i \in 1 .. n |-> Entry(k.names[i])])

(* Where the names of each marker begin. *)
Markers(k) ==
    [i \in 1 .. (Len(k.names) + Every - 1) \div Every |-> Len(Entries(k, (i - 1) * Every))]

(* What lies in front of each table, with its padding. *)
BeforeNames(k) ==
    Padded(Padded(<<LastLetter>> \o Zeros(k.zeros), k.align)
           \o Encoded(Len(k.names), k.size, k.big), k.align)
ToMarkers(k) == Padded(BeforeNames(k) \o Entries(k, Len(k.names)), k.align)
ToSeqs(k) ==
    ToMarkers(k)
    \o FlattenSeq([i \in DOMAIN Markers(k) |-> Encoded(Markers(k)[i], k.size, k.big)])
ToTable(k) == Padded(ToSeqs(k) \o k.seqs, k.align)
ToIndex(k) ==
    Padded(ToTable(k) \o FlattenSeq([i \in DOMAIN k.tokens |-> Terminated(k.tokens[i])]),
           k.align)
TrueOffset(k, i) == Len(FlattenSeq([j \in 1 .. i - 1 |-> Terminated(k.tokens[j])]))
Image(k) ==
    ToIndex(k) \o FlattenSeq([i \in DOMAIN k.tokens |-> Encoded(TrueOffset(k, i), 2, k.big)])
    \o k.decoy
Layout(k) ==
    [names |-> Len(BeforeNames(k)), markers |-> Len(ToMarkers(k)), seqs |-> Len(ToSeqs(k)),
     table |-> Len(ToTable(k)), index |-> Len(ToIndex(k)),
     digits |-> IF k.tokens = << >> THEN {}
                ELSE {Len(ToTable(k)) + TrueOffset(k, Zero + 1)}]

----------------------------------------------------------------------------
At(p) == img[p + 1]
Occurs(s, p) == p >= 0 /\ p + Len(s) <= Len(img) /\ SubSeq(img, p + 1, p + Len(s)) = s

(* The number of n bytes at p. *)
Value(p, n, isBig) ==
    LET worth[i \in 0 .. n] ==
            IF i = 0 THEN 0
            ELSE worth[i - 1] * Base + At(IF isBig THEN p + i - 1 ELSE p + n - i)
    IN  worth[n]

(* sequence_to_find *)
Digits == [i \in 1 .. 2 * (Nine - Zero + 1) |-> IF i % 2 = 1 THEN Zero + i \div 2 ELSE 0]

Candidates ==
    {p \in 1 .. Len(img) : Occurs(Digits, p)
                              /\ \A a \in Avoid : ~Occurs(a, p + Len(Digits))}
FollowedByAscii ==
    {p \in Candidates : p + Len(Digits) < Len(img) /\ At(p + Len(Digits)) \in Alnum}

(* The candidate there is, or the one followed by a letter or a digit. *)
Plausible ==
    IF Cardinality(Candidates) # 1 /\ Cardinality(FollowedByAscii) = 1
    THEN FollowedByAscii
    ELSE Candidates

----------------------------------------------------------------------------
Init ==
    /\ given \in Kernels
    /\ img = Image(given)
    /\ truth = Layout(given)
    /\ position = 0
    /\ tokens = 0
    /\ offsets = << >>
    /\ table = {} /\ index = {} /\ big = {} /\ markers = {} /\ names = {}
    /\ size = 1 /\ tried = 0
    /\ phase = "digits"

(* The digits stand behind the terminator of the token in front of them. *)
FindDigits ==
    /\ phase = "digits"
    /\ Cardinality(Plausible) = 1
    /\ \E p \in Plausible : At(p - 1) = 0 /\ position' = p - 1
    /\ phase' = "back"
    /\ UNCHANGED <<kernel, tokens, offsets, table, index, big, size, tried, markers, names>>

(* Mutant: only a zero ends a token. *)
TokenBreaksAtZero == {p \in 0 .. position - 1 : position - p <= MaxToken /\ At(p) = 0}

(* A zero, or a byte of the markers that no token holds, ends the token before. *)
TokenBreaks ==
    {p \in 0 .. position - 1 :
        position - p <= MaxToken /\ (At(p) = 0 \/ At(p) > LastLetter)}

StepBack ==
    /\ phase = "back" /\ tokens < Zero
    /\ TokenBreaks # {}
    /\ position' = Max(TokenBreaks)
    /\ tokens' = tokens + 1
    /\ UNCHANGED <<kernel, offsets, table, index, big, size, tried, markers, names, phase>>

AlignUp(p, n) == p + ((-p) % n)

ReachTable ==
    /\ phase = "back" /\ tokens = Zero
    /\ table' = {AlignUp(position + 1, TableAlign)}
    /\ position' = AlignUp(position + 1, TableAlign) - 1
    /\ tokens' = 0
    /\ phase' = "forward"
    /\ UNCHANGED <<kernel, offsets, index, big, size, tried, markers, names>>

(* The first byte of a token is not looked at: an empty one takes in the next. *)
TokenEnds ==
    {p \in position + 2 .. Len(img) - 1 : p - position - 1 <= MaxToken /\ At(p) = 0}

StepForward ==
    /\ phase = "forward" /\ tokens < TokenCount
    /\ TokenEnds # {}
    /\ \E t \in table : offsets' = Append(offsets, position + 1 - t)
    /\ position' = Min(TokenEnds)
    /\ tokens' = tokens + 1
    /\ phase' = IF tokens' = TokenCount THEN "index" ELSE "forward"
    /\ UNCHANGED <<kernel, table, index, big, size, tried, markers, names>>

(* Where the offsets are first stored in a byte order, or -1. *)
StoredAt(p, isBig) ==
    /\ p + 2 * TokenCount <= Len(img)
    /\ \A i \in 1 .. TokenCount : Value(p + 2 * (i - 1), 2, isBig) = offsets[i]
IndexPlace(isBig) ==
    LET find[p \in Int] ==
            IF p > position + IndexPadding THEN -1
            ELSE IF StoredAt(p, isBig) THEN p ELSE find[p + 1]
    IN  find[position]

(* Mutant: the order is taken that is found first. *)
FirstOrder(little, isBig) == isBig <= little

LaterOrder(little, isBig) == isBig > little

(* The byte order is that in which the offsets are found. *)
FindIndex ==
    /\ phase = "index"
    /\ \E found \in {<<IndexPlace(FALSE), IndexPlace(TRUE)>>} :
          /\ found[1] # found[2]
          /\ IF LaterOrder(found[1], found[2])
             THEN big' = {TRUE} /\ index' = {found[2]}
             ELSE big' = {FALSE} /\ index' = {found[1]}
    /\ position' = Min(table)
    /\ phase' = "markers"
    /\ UNCHANGED <<kernel, tokens, offsets, table, size, tried, markers, names>>

----------------------------------------------------------------------------
(* What unpack_from makes of n bytes at p. *)
Number(p, n) == Value(p, n, TRUE \in big)

(* Two markers that can follow each other: 256 names lie between them. *)
Spaced(from, to) == from + MinGap < to /\ to <= from + MaxGap

ElementSize == Sizes[size]
LastZeros(end) ==
    LET rfind[p \in Int] ==
            IF p < 0 THEN -1 ELSE IF Occurs(Zeros(ElementSize), p) THEN p ELSE rfind[p - 1]
    IN  rfind[end - ElementSize]

(* Mutant: one place more is tried. *)
SeekZerosOnceMore ==
    /\ phase = "markers" /\ size <= Len(Sizes) /\ tried <= Attempts
    /\ \E p \in {LastZeros(position)} : position' = p - (p % ElementSize)
    /\ tried' = tried + 1
    /\ phase' = "test"
    /\ UNCHANGED <<kernel, tokens, offsets, table, index, big, size, markers, names>>

(* The zeros before position, and the aligned place they begin in; rfind's -1 as well. *)
SeekZeros ==
    /\ phase = "markers" /\ size <= Len(Sizes) /\ tried < Attempts
    /\ \E p \in {LastZeros(position)} : position' = p - (p % ElementSize)
    /\ tried' = tried + 1
    /\ phase' = "test"
    /\ UNCHANGED <<kernel, tokens, offsets, table, index, big, size, markers, names>>

(* unpack_from reads four entries: the end of the image is no place, before it neither. *)
Readable == position >= 0 /\ position + 4 * ElementSize <= Len(img)
MarkersHere ==
    /\ Number(position, ElementSize) = 0
    /\ \A i \in 1 .. 3 : Spaced(Number(position + (i - 1) * ElementSize, ElementSize),
                                Number(position + i * ElementSize, ElementSize))

TakeMarkers ==
    /\ phase = "test" /\ Readable /\ MarkersHere
    /\ markers' = {position}
    /\ phase' = "names"
    /\ UNCHANGED <<kernel, position, tokens, offsets, table, index, big, size, tried,
                   names>>

PassZeros ==
    /\ phase = "test" /\ Readable /\ ~MarkersHere
    /\ phase' = "markers"
    /\ UNCHANGED <<kernel, position, tokens, offsets, table, index, big, size, tried,
                   markers, names>>

NextSize ==
    /\ phase = "markers" /\ size <= Len(Sizes) /\ tried = Attempts
    /\ size' = size + 1
    /\ tried' = 0
    /\ position' = Min(table)
    /\ UNCHANGED <<kernel, tokens, offsets, table, index, big, markers, names, phase>>

----------------------------------------------------------------------------
(* kallsyms_markers_entries, as many as there is room for before the token table. *)
EntryCount ==
    LET room == (Min(table) - Min(markers)) \div ElementSize
    IN  IF room < MaxMarkers THEN room ELSE MaxMarkers
EntryValue(i) == Number(Min(markers) + (i - 1) * ElementSize, ElementSize)

(* Mutant: the entries are not cut where they stop growing. *)
AllEntries == 1 .. EntryCount

(* The entries before the first that does not follow its predecessor. *)
GoodEntries ==
    {n \in 1 .. EntryCount : \A i \in 2 .. n : Spaced(EntryValue(i - 1), EntryValue(i))}

NonZeroEntries == {n \in GoodEntries : EntryValue(n) # 0}
NamesGuess == AlignUp(Min(markers) - EntryValue(Max(NonZeroEntries)), ElementSize)

(* The last marker is a whole number of names short of the length of the table. *)
FindNames ==
    /\ phase = "names"
    /\ NonZeroEntries # {} /\ NamesGuess > 0
    /\ names' = {NamesGuess}
    /\ phase' = "done"
    /\ UNCHANGED <<kernel, position, tokens, offsets, table, index, big, size, tried,
                   markers>>

(* KallsymsNotFoundException: an uncompressed table is looked for. *)
FallBack ==
    /\ phase = "digits"
    /\ Candidates = {}
    /\ phase' = "uncompressed"
    /\ UNCHANGED <<kernel, position, tokens, offsets, table, index, big, size, tried,
                   markers, names>>

(* ValueError, AssertionError, IndexError and struct.error: the program stops. *)
Fail ==
    /\ \/ phase = "digits" /\ Candidates # {}
             /\ (Cardinality(Plausible) # 1 \/ \E p \in Plausible : At(p - 1) # 0)
       \/ phase = "back" /\ tokens < Zero /\ TokenBreaks = {}
       \/ phase = "forward" /\ tokens < TokenCount /\ TokenEnds = {}
       \/ phase = "index" /\ IndexPlace(TRUE) = IndexPlace(FALSE)
       \/ phase = "test" /\ ~Readable
       \/ phase = "markers" /\ size > Len(Sizes)
       \/ phase = "names" /\ (NonZeroEntries = {} \/ NamesGuess <= 0)
    /\ phase' = "error"
    /\ UNCHANGED <<kernel, position, tokens, offsets, table, index, big, size, tried,
                   markers, names>>

Next ==
    \/ FindDigits \/ StepBack \/ ReachTable \/ StepForward \/ FindIndex
    \/ SeekZeros \/ TakeMarkers \/ PassZeros \/ NextSize \/ FindNames \/ FallBack \/ Fail

(* The program is sequential: it goes on while it can. *)
Spec == Init /\ [][Next]_vars /\ WF_vars(Next)

----------------------------------------------------------------------------
TypeOK ==
    /\ position < Len(img) /\ (position < 0 => phase \in {"test", "error"})
    /\ tokens \in 0 .. TokenCount
    /\ offsets \in Seq(Nat)
    /\ table \cup index \cup markers \cup names \subseteq 0 .. Len(img)
    /\ big \subseteq BOOLEAN
    /\ size \in 1 .. Len(Sizes) + 1
    /\ tried \in 0 .. Attempts
    /\ phase \in {"digits", "back", "forward", "index", "markers", "test", "names",
                  "done", "uncompressed", "error"}

(* What the search takes for granted of a table: its tokens are neither empty nor too  *)
(* long, the first with what is in front of it, they hold no byte beyond "z" below "0" *)
(* the token of ":" is not ":" and the table is longer than one byte can count, as that *)
(* of 256 tokens is.                                                                   *)
OrdinaryTokens(k) ==
    /\ Len(k.tokens) = TokenCount
    /\ \A i \in 1 .. TokenCount :
          /\ Len(k.tokens[i]) \in 1 .. MaxToken - (IF i = 1 THEN TableAlign ELSE 1)
          /\ i <= Zero => \A j \in DOMAIN k.tokens[i] : k.tokens[i][j] <= LastLetter
    /\ k.tokens[Nine + 2] # <<Nine + 1>>
    /\ TrueOffset(k, TokenCount) >= Base

(* The run of digits is the only one, or the only one followed by a letter or a digit. *)
ClearDigits(k) ==
    \A p \in 0 .. Len(img) - 1 :
        Occurs(Digits, p) /\ p \notin truth.digits =>
            /\ k.tokens[Nine + 2][1] \in Alnum
            /\ p + Len(Digits) < Len(img) => At(p + Len(Digits)) \notin Alnum

(* A zero or a byte that no token holds is near enough in front of the table. *)
ClearFront(k) ==
    \E p \in truth.table - TableAlign .. truth.table - 1 : At(p) = 0 \/ At(p) > LastLetter

(* Four markers at least, which what follows does not seem to continue, and zeros      *)
(* enough in front for every place tried with a larger size.                           *)
ClearMarkers(k) ==
    LET n == Len(Markers(k))
        after == truth.seqs
    IN  /\ n >= 4
        /\ \A i \in 2 .. n : Spaced(Markers(k)[i - 1], Markers(k)[i])
        /\ after + k.size <= truth.table =>
              ~Spaced(Markers(k)[n], Value(after, k.size, k.big))
        /\ k.size = Sizes[1] \/ k.zeros > (Attempts + 1) * Sizes[1]

Searchable(k) ==
    /\ k.tokens # << >>
    /\ OrdinaryTokens(k) /\ ClearDigits(k) /\ ClearFront(k) /\ ClearMarkers(k)

(* Every part of the table is found where scripts/kallsyms.c put it, in the byte order *)
(* of the kernel, and no false place on the way stops the search or lets it go on      *)
(* without an end, whenever the image is as the search takes for granted:              *)
(* find_kallsyms_token_table to find_kallsyms_names agree.                             *)
TableLocated ==
    Searchable(given) =>
        <>(/\ phase = "done"
           /\ table = {truth.table}
           /\ index = {truth.index}
           /\ big = {given.big}
           /\ markers = {truth.markers} /\ ElementSize = given.size)

(* In an image that holds one table (Image), what looks like another is not taken for  *)
(* it: the run of digits elsewhere, before or behind it, tokens of any length, whatever *)
(* the alignment and the order of the attempts.  The index of its offsets confirms the *)
(* table, and the byte order with it.  A second whole table, with an index of its own, *)
(* could be taken: there is none in these images.                                      *)
WrongTableRefused ==
    index # {} => /\ table = {truth.table}
                  /\ index = {truth.index}
                  /\ big = {given.big}
=============================================================================
