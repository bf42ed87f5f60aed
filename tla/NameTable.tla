------------------------------ MODULE NameTable ------------------------------
(***************************************************************************)
(* The exact search for kallsyms_names and the walk that decodes it:       *)
(* KallsymsFinder.find_kallsyms_num_syms and .parse_symbol_table of        *)
(* core/kallsyms.py.                                                       *)
(*                                                                         *)
(* kallsyms_names is a run of entries, each a size (one byte, or two when  *)
(* the top bit of the first is set) and that many token indexes; an entry  *)
(* of size 0 ends it and kallsyms_markers follows.  The search starts at   *)
(* the estimate of find_kallsyms_names, which may lie a few bytes too      *)
(* high, and moves down until three tests pass: the first name starts with *)
(* a symbol type, the table has enough entries, and the number of entries  *)
(* is stored just below it.  The counts come from a bottom-up dynamic      *)
(* program `dp' that is extended, never recomputed, when the search moves. *)
(*                                                                         *)
(* The image is a function from file offsets to bytes.  One action is one  *)
(* iteration of one of the code's loops.                                   *)
(***************************************************************************)
EXTENDS Digits

CONSTANTS
    Half,           \* weight of a byte's top bit (0x80): a byte is in 0 .. 2 * Half - 1
    StepBack,       \* how far the search moves after a refused offset (4)
    MinSyms,        \* fewest symbols of a table that is believed (256)
    PadWindow,      \* farthest a terminator may lie below kallsyms_markers (256)
    NeedleWindow,   \* how far below kallsyms_names num_syms is looked for (256 + 20)
    Inputs          \* the images, with what the earlier phases found in each

Byte == 0 .. (2 * Half - 1)

(***************************************************************************)
(* What earlier phases guarantee: the first element of kallsyms_markers is *)
(* 0 (find_kallsyms_markers), the estimate lies below the markers and is   *)
(* positive (find_kallsyms_names asserts it).                              *)
(***************************************************************************)
WellFormedInput(c) ==
    /\ c.size \in Nat
    /\ c.image \in [0 .. c.size - 1 -> Byte]
    /\ c.elemSize \in Nat /\ c.elemSize >= 1
    /\ c.bigEndian \in BOOLEAN
    /\ c.markers \in Nat /\ c.markers + c.elemSize <= c.size
    /\ \A k \in 0 .. c.elemSize - 1 : c.image[c.markers + k] = 0
    /\ c.estimate \in 1 .. c.markers - 1
    /\ c.heads \in [Byte -> {"type", "other", "empty"}]

ASSUME ScaleAssumption ==
    /\ Half \in Nat /\ Half >= 1
    /\ StepBack \in Nat /\ StepBack >= 1
    /\ MinSyms \in Nat /\ MinSyms >= 1
    /\ PadWindow \in Nat
    /\ NeedleWindow \in Nat

ASSUME InputsAssumption == \A c \in Inputs : WellFormedInput(c)

VARIABLES
    input,      \* kernel_img, kallsyms_markers__offset, offset_table_element_size,
                \* is_big_endian, the estimate of kallsyms_names and the tokens: never changes
    names,      \* kallsyms_names__offset
    dp,         \* dp[i + 1] is the code's dp[i]: entries of a table that starts i below the markers
    num,        \* num_symbols
    needle,     \* kallsyms_num_syms__offset, -1 before it is found
    position,   \* the decoder's cursor
    symbolNames,\* the token indexes of each name decoded so far
    built,      \* how many KallsymsSymbol objects exist
    phase       \* "first", "count", "needle", "decode", "build", "done" or "error"

vars == <<input, names, dp, num, needle, position, symbolNames, built, phase>>

image == input.image
markers == input.markers
elemSize == input.elemSize

(* get_token_table: what each byte's token starts with. *)
TokenHead == input.heads

----------------------------------------------------------------------------
(* The size an entry takes in the table, its size bytes included. *)
IsBig(b) == b >= Half
SizeOfEntry(b, following) ==
    IF IsBig(b) THEN (b - Half) + following * Half + 2 ELSE b + 1

EntrySize(at) == SizeOfEntry(image[at], image[at + 1])

(* Mutant: next is not tested, and Python reads a negative index from the end of dp. *)
DpCellWraps(i) ==
    LET next == i - EntrySize(markers - i)
        at == IF next >= 0 THEN next + 1 ELSE Len(dp) + next + 1
    IN  CASE image[markers - i] = 0 /\ i <= PadWindow -> 0
          [] image[markers - i] # 0 /\ at \in 1 .. Len(dp) /\ dp[at] # -1 -> dp[at] + 1
          [] OTHER -> -1

(* Mutant: a size-0 entry ends a table however far it is from the markers. *)
DpCellAnyTerminator(i) ==
    LET next == i - EntrySize(markers - i)
    IN  CASE image[markers - i] = 0 -> 0
          [] image[markers - i] # 0 /\ next >= 0 /\ dp[next + 1] # -1 -> dp[next + 1] + 1
          [] OTHER -> -1

(* One iteration of the loop that fills dp, for the i-th byte below the markers. *)
DpCell(i) ==
    LET next == i - EntrySize(markers - i)
    IN  CASE image[markers - i] = 0 /\ i <= PadWindow -> 0
          [] image[markers - i] # 0 /\ next >= 0 /\ dp[next + 1] # -1 -> dp[next + 1] + 1
          [] OTHER -> -1

(***************************************************************************)
(* pack(): n as the bytes of one element of kallsyms_markers.              *)
(***************************************************************************)
Digit(n, k) == DigitOf(2 * Half, n, k)
IsPacked(n, at) ==
    \A k \in 0 .. elemSize - 1 :
        image[at + k] = Digit(n, IF input.bigEndian THEN elemSize - 1 - k ELSE k)
Packable(n) == n < PowerOf(2 * Half)[elemSize]

(* rfind(): where num_syms may be stored for a table that starts at `at'. *)
Needles(n, at) ==
    LET floor == IF at > NeedleWindow THEN at - NeedleWindow ELSE 0
    IN  {p \in floor .. at - elemSize : IsPacked(n, p)}

(* The first character of a name: that of its first token that has one. *)
HeadOf(name) ==
    LET full == {k \in 1 .. Len(name) : TokenHead[name[k]] # "empty"}
    IN  IF full = {} THEN "empty"
        ELSE TokenHead[name[CHOOSE k \in full : \A j \in full : k <= j]]

(* The token indexes of the entry at an offset. *)
NameAt(at) ==
    LET skip == IF IsBig(image[at]) THEN 2 ELSE 1
    IN  [k \in 1 .. EntrySize(at) - skip |-> image[at + skip + k - 1]]

----------------------------------------------------------------------------
Init ==
    /\ input \in Inputs
    /\ names = input.estimate
    /\ dp = << >>
    /\ num = 0
    /\ needle = -1
    /\ position = 0
    /\ symbolNames = << >>
    /\ built = 0
    /\ phase = "first"

(* Mutant: the test for a negative offset is missing. *)
MoveBackUnchecked == names' = names - StepBack /\ phase' = "first"

(* Mutant: the next attempt is made at the same offset. *)
MoveBackStuck == UNCHANGED names /\ phase' = "first"

(* A refused offset: try StepBack bytes lower, give up (ValueError) below the file. *)
MoveBack ==
    /\ names' = names - StepBack
    /\ phase' = IF names - StepBack < 0 THEN "error" ELSE "first"

(***************************************************************************)
(* The byte after the first size byte is looked up in the token table; an  *)
(* empty token has no first character and raises IndexError.               *)
(***************************************************************************)
FirstHead == TokenHead[image[names + 1]]

TestFirstName ==
    /\ phase = "first"
    /\ \/ FirstHead = "other" /\ MoveBack
       \/ FirstHead = "type" /\ phase' = "count" /\ UNCHANGED names
       \/ FirstHead = "empty" /\ phase' = "error" /\ UNCHANGED names
    /\ UNCHANGED <<input, dp, num, needle, position, symbolNames, built>>

(* dp grows by one cell until it covers the offset under test. *)
ExtendDp ==
    /\ phase = "count"
    /\ Len(dp) <= markers - names
    /\ dp' = Append(dp, DpCell(Len(dp)))
    /\ UNCHANGED <<input, names, num, needle, position, symbolNames, built, phase>>

(* Mutant: a table of exactly MinSyms entries is refused. *)
CountSymbolsStrict ==
    /\ phase = "count"
    /\ Len(dp) > markers - names
    /\ IF dp[Len(dp)] <= MinSyms
         THEN MoveBack /\ UNCHANGED num
         ELSE num' = dp[Len(dp)] /\ phase' = "needle" /\ UNCHANGED names
    /\ UNCHANGED <<input, dp, needle, position, symbolNames, built>>

(* dp[-1], the last cell, is the number of entries of a table at `names'. *)
CountSymbols ==
    /\ phase = "count"
    /\ Len(dp) > markers - names
    /\ IF dp[Len(dp)] < MinSyms
         THEN MoveBack /\ UNCHANGED num
         ELSE num' = dp[Len(dp)] /\ phase' = "needle" /\ UNCHANGED names
    /\ UNCHANGED <<input, dp, needle, position, symbolNames, built>>

(***************************************************************************)
(* The count, packed like a marker, is searched for below the table; pack  *)
(* raises struct.error when the element is too narrow for it.              *)
(***************************************************************************)
FindNumSyms ==
    /\ phase = "needle"
    /\ IF ~Packable(num)
         THEN phase' = "error" /\ UNCHANGED <<names, needle, position>>
         ELSE LET found == Needles(num, names)
              IN  \/ /\ found = {}
                     /\ MoveBack
                     /\ UNCHANGED <<needle, position>>
                  \/ \E p \in found :
                        /\ \A q \in found : q <= p
                        /\ needle' = p
                        /\ position' = names
                        /\ phase' = "decode"
                        /\ UNCHANGED names
    /\ UNCHANGED <<input, dp, num, symbolNames, built>>

(* parse_symbol_table reads as many names as were counted. *)
DecodeName ==
    /\ phase = "decode"
    /\ Len(symbolNames) < num
    /\ symbolNames' = Append(symbolNames, NameAt(position))
    /\ position' = position + EntrySize(position)
    /\ UNCHANGED <<input, names, dp, num, needle, built, phase>>

DecodeEnd ==
    /\ phase = "decode"
    /\ Len(symbolNames) = num
    /\ phase' = "build"
    /\ UNCHANGED <<input, names, dp, num, needle, position, symbolNames, built>>

(***************************************************************************)
(* Each name becomes a KallsymsSymbol: an empty name has no type letter    *)
(* (IndexError) and an unknown letter is no KallsymsSymbolType             *)
(* (ValueError).                                                           *)
(***************************************************************************)
BuildSymbol ==
    /\ phase = "build"
    /\ built < num
    /\ IF HeadOf(symbolNames[built + 1]) = "type"
         THEN built' = built + 1 /\ UNCHANGED phase
         ELSE phase' = "error" /\ UNCHANGED built
    /\ UNCHANGED <<input, names, dp, num, needle, position, symbolNames>>

BuildEnd ==
    /\ phase = "build"
    /\ built = num
    /\ phase' = "done"
    /\ UNCHANGED <<input, names, dp, num, needle, position, symbolNames, built>>

Next ==
    \/ TestFirstName
    \/ ExtendDp
    \/ CountSymbols
    \/ FindNumSyms
    \/ DecodeName
    \/ DecodeEnd
    \/ BuildSymbol
    \/ BuildEnd

(* The finder is one sequential call: it keeps running until it returns or raises. *)
Spec == Init /\ [][Next]_vars /\ WF_vars(Next)

----------------------------------------------------------------------------
TypeOK ==
    /\ WellFormedInput(input)
    /\ names \in Int /\ (phase # "error" => names >= 0)
    /\ dp \in Seq(Nat \cup {-1})
    /\ num \in Nat
    /\ needle \in Nat \cup {-1}
    /\ position \in Nat
    /\ symbolNames \in Seq(Seq(Byte))
    /\ built \in Nat
    /\ phase \in {"first", "count", "needle", "decode", "build", "done", "error"}

(***************************************************************************)
(* What the search counted is what the decoder reads: while names remain,  *)
(* the cursor stands on a non-empty entry that ends at or below            *)
(* kallsyms_markers.  parse_symbol_table checks no bound itself; it relies *)
(* on the count find_kallsyms_num_syms made, over the same bytes, from the *)
(* other end and several rejected offsets earlier.                         *)
(***************************************************************************)
DecoderStaysInTable ==
    phase = "decode" =>
        /\ position <= markers
        /\ Len(symbolNames) <= num
        /\ Len(symbolNames) < num =>
               /\ image[position] # 0
               /\ position + EntrySize(position) <= markers

(***************************************************************************)
(* The decoder uses the table up: after the last counted name its cursor   *)
(* is on the size-0 entry that ends kallsyms_names, no farther than the    *)
(* alignment padding below kallsyms_markers.                               *)
(***************************************************************************)
DecoderEndsAtTerminator ==
    phase \in {"build", "done"} =>
        /\ image[position] = 0
        /\ markers - PadWindow <= position /\ position <= markers

(* The result as find_kallsyms_num_syms leaves it: found, not found, or still searching. *)
SearchResult ==
    CASE needle # -1                    -> <<names, num>>
      [] needle = -1 /\ phase = "error" -> <<"none">>
      [] OTHER                          -> << >>

Search == INSTANCE NameTableAbs WITH result <- SearchResult

(***************************************************************************)
(* The incremental bottom-up search implements "the nearest table": no     *)
(* better offset is skipped, whatever was refused before, and the search   *)
(* gives up only when there is none.                                       *)
(***************************************************************************)
ImplementsSearch == Search!Spec

(* The search ends, with a table or with an exception. *)
Termination == <>(phase \in {"done", "error"})
============================================================================
