------------------------------ MODULE Addresses ------------------------------
(***************************************************************************)
(* KallsymsFinder.find_kallsyms_addresses_or_symbols: with the number of   *)
(* symbols known, the table of their addresses, or of offsets from a base  *)
(* that is stored behind it, is looked for backwards from what follows it, *)
(* stepping over zero words, and decoded; when too many addresses are null *)
(* the next kind of table is tried.                                        *)
(*                                                                         *)
(* The image is a sequence of longs (4 bytes), which an offset takes one   *)
(* of and an address one or, on a 64-bit machine, two.  Positions count    *)
(* longs.  An optional value is a set: {} for None, {v} for v.             *)
(***************************************************************************)
EXTENDS Integers, SequencesExt

CONSTANTS
    Long,       \* how many values a long has (2^32)
    NullShare,  \* a table with one address in so many null is refused (5)
    Inputs      \* kernels, and the arguments that concern them

ASSUME AddressesAssumption ==
    /\ Long \in Nat /\ Long >= 2 /\ Long % 2 = 0
    /\ NullShare \in Nat \ {0}

(* A kernel: its version, architecture and configuration, the addresses of its symbols *)
(* and those that are absolute per-CPU ones, the base the offsets are relative to; the *)
(* option --use-absolute; what stands before the tables, and after them.               *)
Versions == {<<4, 4>>, <<4, 9>>, <<5, 4>>, <<6, 6>>}
Kernels ==
    [version : Versions, ia64 : BOOLEAN, wide : BOOLEAN, bigEndian : BOOLEAN,
     relative : BOOLEAN, percpu : BOOLEAN, addresses : Seq(Nat), absolute : SUBSET Nat,
     base : Nat, compressed : BOOLEAN, useAbsolute : BOOLEAN, before : Nat, after : Seq(Nat)]

(* Only some of the symbols of a kernel with offsets are absolute; what is stored fits *)
(* into longs, and a word of the machine.                                              *)
WordLimit(k) == IF k.wide THEN Long * Long ELSE Long
ASSUME AddressesInputs ==
    \A k \in Inputs :
        /\ k \in Kernels /\ k.addresses # << >>
        /\ k.absolute \subseteq DOMAIN k.addresses
        /\ k.percpu => k.relative
        /\ k.absolute # {} => k.percpu
        /\ k.base < WordLimit(k) /\ \A i \in DOMAIN k.addresses : k.addresses[i] < WordLimit(k)
        /\ \A i \in k.absolute : k.addresses[i] < Long
        /\ k.after \in Seq(0 .. Long - 1)

VARIABLES
    given,          \* the kernel
    image,          \* kernel_img
    attempt,        \* which of the heuristic_search_parameters is tried
    position,       \* position
    relativeBase,   \* relative_base_address
    hasRelative,    \* has_base_relative
    hasPercpu,      \* has_absolute_percpu
    addresses,      \* kernel_addresses
    phase           \* "start", "words", "offsets", "read", "done", "error"

vars == <<given, image, attempt, position, relativeBase, hasRelative, hasPercpu, addresses,
          phase>>

----------------------------------------------------------------------------
(* What the build of the kernel (scripts/kallsyms.c) puts into the image. *)
AddressSize(k) == IF k.wide THEN 2 ELSE 1
AlignedUp(n, a) == n + ((-n) % a)
Zeros(n) == [i \in 1 .. n |-> 0]
Cells(k, word) ==
    IF ~k.wide THEN <<word>>
    ELSE IF k.bigEndian THEN <<word \div Long, word % Long>>
    ELSE <<word % Long, word \div Long>>

(* An offset: of a per-CPU symbol its address, of others, where there are per-CPU ones, *)
(* a negative number.                                                                   *)
StoredOffset(k, i) ==
    IF ~k.percpu THEN (k.addresses[i] - k.base) % Long
    ELSE IF i \in k.absolute THEN k.addresses[i]
    ELSE (k.base - 1 - k.addresses[i]) % Long

StoredTable(k) ==
    LET n == Len(k.addresses)
        table == IF k.relative
                 THEN [i \in 1 .. n |-> StoredOffset(k, i)]
                 ELSE FlattenSeq([i \in 1 .. n |-> Cells(k, k.addresses[i])])
        pad == Zeros(AlignedUp(Len(table), AddressSize(k)) - Len(table))
    IN  table \o pad \o (IF k.relative THEN Cells(k, k.base) ELSE << >>)

Late(k) == k.version[1] > 6 \/ (k.version[1] = 6 /\ k.version[2] >= 4)

(* Where the token index ends and, earlier kernels, where num_syms is. *)
TableStart(k) == AlignedUp(k.before, AddressSize(k))
NumSyms(k) == TableStart(k) + Len(StoredTable(k))
Image(k) ==
    [i \in 1 .. k.before |-> Long - 1] \o Zeros(TableStart(k) - k.before)
        \o StoredTable(k) \o k.after

----------------------------------------------------------------------------
numSymbols == Len(given.addresses)
addressSize == AddressSize(given)
entrySize == IF hasRelative THEN 1 ELSE addressSize
size == Len(image)

(* "and" binds tighter than "or": the architecture counts for version 4 only. *)
LikelyRelative ==
    \/ given.version[1] > 4
    \/ given.version[1] = 4 /\ given.version[2] >= 6 /\ ~given.ia64

(* The pairs (has_base_relative, can_skip), in the order they are tried. *)
Attempts ==
    IF given.useAbsolute THEN <<[relative |-> FALSE, canSkip |-> FALSE]>>
    ELSE <<[relative |-> LikelyRelative, canSkip |-> TRUE],
           [relative |-> FALSE, canSkip |-> FALSE]>>

(* Right behind the table: from Linux 6.4 on the tables follow the token index. *)
Behind(relative) ==
    IF Late(given)
    THEN LET start == AlignedUp(given.before, addressSize)
         IN  IF relative
             THEN AlignedUp(start + numSymbols, addressSize) + addressSize
             ELSE start + numSymbols * addressSize
    ELSE NumSyms(given)

(* kernel_img[from : to], with Python's reading of negative indexes and of those past *)
(* the end.                                                                           *)
Stop(i) == IF i < 0 THEN Max({i + size, 0}) ELSE Min({i, size})
Slice(from, to) == SubSeq(image, Stop(from) + 1, Stop(to))

ZeroBefore(n) == Slice(position - n, position) = Zeros(n)

(* int.from_bytes: of a slice cut short, what is left. *)
Number(longs) ==
    IF longs = << >> THEN 0
    ELSE IF Len(longs) = 1 THEN longs[1]
    ELSE IF given.bigEndian THEN longs[1] * Long + longs[2]
    ELSE longs[1] + longs[2] * Long
Signed(v) == IF v >= Long \div 2 THEN v - Long ELSE v

(* Where unpack_from reads n longs: a negative offset counts from the end. *)
Readable(p, n) ==
    IF p >= 0 THEN p + n <= size ELSE p + size >= 0 /\ p + n <= 0
ReadAt(p) == IF p >= 0 THEN p ELSE p + size

----------------------------------------------------------------------------
Init ==
    /\ given \in Inputs
    /\ image = Image(given)
    /\ attempt = 1
    /\ position = 0
    /\ relativeBase = {}
    /\ hasRelative = FALSE
    /\ hasPercpu = FALSE
    /\ addresses = << >>
    /\ phase = "start"

StartAttempt ==
    /\ phase = "start"
    /\ Late(given) => given.compressed
    /\ position' = Behind(Attempts[attempt].relative)
    /\ phase' = "words"
    /\ UNCHANGED <<given, image, attempt, relativeBase, hasRelative, hasPercpu, addresses>>

(* Mutant: only one zero word of padding is expected. *)
SkipZeroLong ==
    /\ phase = "words" /\ position > 0
    /\ ZeroBefore(1)
    /\ position' = position - 1
    /\ UNCHANGED <<given, image, attempt, relativeBase, hasRelative, hasPercpu, addresses,
                   phase>>

(* Zero words are stepped over, the padding among them. *)
SkipZeroWord ==
    /\ phase = "words" /\ position > 0
    /\ ZeroBefore(addressSize)
    /\ position' = position - addressSize
    /\ UNCHANGED <<given, image, attempt, relativeBase, hasRelative, hasPercpu, addresses,
                   phase>>

(* The word before is the relative base. *)
TakeBase ==
    /\ phase = "words" /\ position > 0
    /\ ~ZeroBefore(addressSize)
    /\ Attempts[attempt].relative
    /\ hasRelative' = TRUE
    /\ position' = position - addressSize
    /\ relativeBase' = {Number(Slice(position - addressSize, position))}
    /\ phase' = "offsets"
    /\ UNCHANGED <<given, image, attempt, hasPercpu, addresses>>

(* Or it is the last address. *)
TakeAddresses ==
    /\ phase = "words" /\ position > 0
    /\ ~ZeroBefore(addressSize)
    /\ ~Attempts[attempt].relative
    /\ hasRelative' = FALSE
    /\ position' = position - numSymbols * addressSize
    /\ phase' = "read"
    /\ UNCHANGED <<given, image, attempt, relativeBase, hasPercpu, addresses>>

SkipZeroOffset ==
    /\ phase = "offsets" /\ position > 0
    /\ ZeroBefore(1)
    /\ position' = position - 1
    /\ UNCHANGED <<given, image, attempt, relativeBase, hasRelative, hasPercpu, addresses,
                   phase>>

TakeOffsets ==
    /\ phase = "offsets" /\ position > 0
    /\ ~ZeroBefore(1)
    /\ position' = position - numSymbols
    /\ phase' = "read"
    /\ UNCHANGED <<given, image, attempt, relativeBase, hasRelative, hasPercpu, addresses>>

(* The table as it is stored, offsets being signed. *)
Tentative ==
    [i \in 1 .. numSymbols |->
        LET at == ReadAt(position) + (i - 1) * entrySize
            v == Number(Slice(at, at + entrySize))
        IN  IF hasRelative THEN Signed(v) ELSE v]
Negative == {i \in 1 .. numSymbols : Tentative[i] < 0}
MostlyNegative == hasRelative /\ 2 * Cardinality(Negative) >= numSymbols

(* Offsets that are mostly negative are those of a kernel with absolute per-CPU symbols. *)
Decoded ==
    IF ~hasRelative THEN Tentative
    ELSE LET base == CHOOSE b \in relativeBase : TRUE
         IN  [i \in 1 .. numSymbols |->
                 IF ~MostlyNegative THEN Tentative[i] + base
                 ELSE IF Tentative[i] < 0 THEN base - 1 - Tentative[i]
                 ELSE Tentative[i]]

TooManyNulls ==
    NullShare * Cardinality({i \in 1 .. numSymbols : Decoded[i] = 0}) >= numSymbols

(* Mutant: the last kind can be given up as well. *)
SkipWhatever == TooManyNulls

Skip == TooManyNulls /\ Attempts[attempt].canSkip

(* The table is decoded; one with too many nulls is given up if another kind is left. *)
ReadTable ==
    /\ phase = "read"
    /\ Readable(position, numSymbols * entrySize)
    /\ hasPercpu' = MostlyNegative
    /\ IF Skip
       THEN /\ attempt' = attempt + 1
            /\ phase' = "start"
            /\ UNCHANGED addresses
       ELSE /\ addresses' = Decoded
            /\ phase' = "done"
            /\ UNCHANGED attempt
    /\ UNCHANGED <<given, image, position, relativeBase, hasRelative>>

(* TypeError: no token index was found, and the tables follow it.  AssertionError: the *)
(* start of the image was reached.  struct.error: the table leaves the image.          *)
Fail ==
    /\ \/ phase = "start" /\ Late(given) /\ ~given.compressed
       \/ phase \in {"words", "offsets"} /\ position <= 0
       \/ phase = "read" /\ ~Readable(position, numSymbols * entrySize)
    /\ phase' = "error"
    /\ UNCHANGED <<given, image, attempt, position, relativeBase, hasRelative, hasPercpu,
                   addresses>>

Next ==
    \/ StartAttempt \/ SkipZeroWord \/ TakeBase \/ TakeAddresses
    \/ SkipZeroOffset \/ TakeOffsets \/ ReadTable \/ Fail

(* The program is sequential: it goes on while it can. *)
Spec == Init /\ [][Next]_vars /\ WF_vars(Next)

----------------------------------------------------------------------------
TypeOK ==
    /\ image \in Seq(0 .. Long - 1)
    /\ attempt \in DOMAIN Attempts
    /\ position \in Int
    /\ \A b \in relativeBase : b \in Nat
    /\ hasRelative => relativeBase # {}
    /\ hasPercpu => relativeBase # {}
    /\ Len(addresses) \in {0, numSymbols}
    /\ phase \in {"start", "words", "offsets", "read", "done", "error"}

(* Kernels the heuristics are made for: with a base that is not null and a last symbol  *)
(* that is not stored as 0; if they have offsets, with few null addresses, and half of  *)
(* the offsets negative exactly when some may be absolute.                              *)
Recoverable(k) ==
    LET n == Len(k.addresses)
    IN  /\ Late(k) => k.compressed
        /\ IF k.relative THEN k.base # 0 /\ StoredOffset(k, n) # 0 ELSE k.addresses[n] # 0
        /\ k.relative =>
              /\ NullShare * Cardinality({i \in 1 .. n : k.addresses[i] = 0}) < n
              /\ \A i \in 1 .. n :
                    IF i \in k.absolute THEN k.addresses[i] < Long \div 2
                    ELSE k.addresses[i] - k.base \in 0 .. Long \div 2 - 1
        /\ k.percpu => 2 * Cardinality(k.absolute) <= n

(* The kind of table that is looked for is the one that the kernel has. *)
KindTried == Attempts[attempt].relative = given.relative

(* Once the kind of its table is tried, first or after a table of offsets was given up, *)
(* every kernel of these is given exactly the addresses it was built with: whatever the *)
(* width, the byte order, the padding and the place of the table are, whatever the      *)
(* first attempt has left behind and however many absolute addresses are null.          *)
AddressesRecovered ==
    Recoverable(given) /\ KindTried ~> phase = "done" /\ addresses = given.addresses
=============================================================================
