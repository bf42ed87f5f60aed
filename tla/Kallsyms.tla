------------------------------ MODULE Kallsyms ------------------------------
(***************************************************************************)
(* The search for a compressed symbol table and the decoding of its names: *)
(* KallsymsFinder.__init__ of core/kallsyms.py from find_kallsyms_token_table *)
(* to parse_symbol_table, less the addresses of the symbols.               *)
(*                                                                         *)
(* It composes TableSearch, which leaves the places of the tables, with    *)
(* NameTable, which goes on from them with an estimate that the layout of  *)
(* the kernel makes wrong by the names behind the last marker and by the   *)
(* padding.  The image that NameTable reads is the one TableSearch did.    *)
(***************************************************************************)
EXTENDS TableSearch

CONSTANTS
    Types,          \* the letters that can be the type of a symbol
    MinSyms, PadWindow, NeedleWindow, NamesStep     \* those of NameTable

VARIABLES
    heads,      \* get_token_table: what each token starts with
    start,      \* kallsyms_names__offset, once it is looked for exactly
    dp, num, needle, cursor, symbolNames, built,    \* those of NameTable
    step        \* "idle" until the markers are found, then NameTable's phase

finder == <<heads, start, dp, num, needle, cursor, symbolNames, built, step>>

Located ==
    [size |-> Len(img), image |-> [p \in 0 .. Len(img) - 1 |-> img[p + 1]],
     elemSize |-> ElementSize, bigEndian |-> TRUE \in big, markers |-> Min(markers),
     estimate |-> Min(names), heads |-> heads]

Finder ==
    INSTANCE NameTable WITH StepBack <- NamesStep, Inputs <- {}, input <- Located,
                            names <- start, position <- cursor, phase <- step

----------------------------------------------------------------------------
(* get_token_table: a token begins behind the zero of the one before, at once behind   *)
(* another if it is empty.  find_kallsyms_token_index has gone over as many zeros.     *)
TokenStart(n) ==
    CHOOSE p \in Min(table) .. Len(img) :
        /\ p = Min(table) \/ At(p - 1) = 0
        /\ Cardinality({z \in Min(table) .. p - 1 : At(z) = 0}) = n
Heads ==
    [n \in 0 .. TokenCount - 1 |->
        CASE At(TokenStart(n)) = 0        -> "empty"
          [] At(TokenStart(n)) \in Types  -> "type"
          [] OTHER                        -> "other"]

KallsymsInit ==
    /\ Init
    /\ heads = << >>
    /\ start = 0
    /\ dp = << >> /\ num = 0 /\ needle = -1
    /\ cursor = 0 /\ symbolNames = << >> /\ built = 0
    /\ step = "idle"

SearchTable == Next /\ UNCHANGED finder

(* find_kallsyms_num_syms begins at the estimate. *)
StartNames ==
    /\ phase = "done" /\ step = "idle"
    /\ heads' = Heads
    /\ start' = Min(names)
    /\ step' = "first"
    /\ UNCHANGED <<vars, dp, num, needle, cursor, symbolNames, built>>

SearchNames ==
    /\ step # "idle"
    /\ UNCHANGED <<vars, heads>>
    /\ Finder!Next

KallsymsNext == SearchTable \/ StartNames \/ SearchNames

(* The program is sequential: it goes on while it can. *)
KallsymsSpec ==
    /\ KallsymsInit
    /\ [][KallsymsNext]_<<vars, finder>>
    /\ WF_<<vars, finder>>(KallsymsNext)

----------------------------------------------------------------------------
(* Beside its own types: what the search leaves is what NameTable takes for granted,   *)
(* the first marker a zero and the estimate below it, in the image.                    *)
KallsymsTypeOK ==
    /\ TypeOK
    /\ step # "idle" => phase = "done" /\ Finder!TypeOK

(* What the decoder takes for granted of names: each starts with the letter of a type, *)
(* and the first is short, since the search takes its second byte for its first token. *)
TypedNames(k) ==
    /\ Len(k.names[1]) < Half
    /\ \A i \in DOMAIN k.names : k.tokens[k.names[i][1] + 1][1] \in Types

(* No other number that could count the names is stored in front of them, as far as is *)
(* looked from the estimate.                                                           *)
ClearCount(k) ==
    \A p \in truth.names - NeedleWindow .. truth.markers - k.size :
        LET stored == Value(p, k.size, k.big)
        IN  stored \in MinSyms .. truth.markers => stored = Len(k.names)

(* The names that are read are the names the kernel holds, in their order and to the   *)
(* last, from the place where they begin: find_kallsyms_names, which only estimates it, *)
(* and find_kallsyms_num_syms, which moves back by four bytes at a time, meet it,      *)
(* although the length of the names behind the last marker is nowhere stored.          *)
NamesFound ==
    Searchable(given) /\ TypedNames(given) /\ ClearCount(given) =>
        <>(/\ step = "done"
           /\ start = truth.names
           /\ symbolNames = given.names)
=============================================================================
