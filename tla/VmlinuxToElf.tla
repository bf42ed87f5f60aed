---------------------------- MODULE VmlinuxToElf ----------------------------
(***************************************************************************)
(* The program from its command line to its output, for both scripts:      *)
(* vmlinux-to-elf (ElfSymbolizer over KallsymsFinder) and kallsyms-finder  *)
(* (KallsymsFinder alone).  What one component passes to the next is kept: *)
(* base address, width, byte order, machine, relocation table; and how the *)
(* program ends, with the output file and the exit status.  Ends that are  *)
(* not modelled: an error of the argument parser, a file that cannot be    *)
(* opened or decompressed, a text of kallsyms-finder that cannot be        *)
(* encoded.                                                                *)
(* ElfSymbolizer is the module of that name, with the input made here.     *)
(*                                                                         *)
(* What each search finds in the image is part of the input: the modules   *)
(* of the components say how it is found.                                  *)
(***************************************************************************)
EXTENDS ElfSymbolizer

CONSTANTS
    Enough,         \* prologues that make an architecture (100)
    HeaderSize,     \* of a uImage (64)
    Calls           \* a command line, and what is found in the kernel from each offset on

(* The architectures in the order in which they are counted, with e_machine, width and  *)
(* byte order.                                                                          *)
Architecture(name, machine, wide, order) ==
    [name |-> name, machine |-> machine, wide |-> wide, order |-> order]
Architectures == <<
    Architecture("mipsle", 8, FALSE, "little"),       Architecture("mipsbe", 8, FALSE, "big"),
    Architecture("mips64le", 8, TRUE, "little"),      Architecture("mips64be", 8, TRUE, "big"),
    Architecture("x86", 3, FALSE, "little"),          Architecture("x86_64", 62, TRUE, "little"),
    Architecture("powerpcbe", 20, FALSE, "big"),      Architecture("powerpcle", 20, FALSE, "little"),
    Architecture("armbe", 40, FALSE, "big"),          Architecture("armle", 40, FALSE, "little"),
    Architecture("mips16e", 8, FALSE, "big"),         Architecture("superhle", 42, FALSE, "little"),
    Architecture("superhbe", 42, FALSE, "big"),       Architecture("aarch64", 183, TRUE, "little"),
    Architecture("sparc", 2, FALSE, "big"),           Architecture("arcompact", 93, FALSE, "little") >>
ArchitecturesNamed(name) == {i \in DOMAIN Architectures : Architectures[i].name = name}

(* The arguments; machine, bits, base and offset are optional; dump: --output.  *)
CommandRecords ==
    [script : {"vmlinux-to-elf", "kallsyms-finder"}, machine : SUBSET Nat, bits : SUBSET Nat,
     base : SUBSET Nat, offset : SUBSET Nat, bss : Nat, dump : BOOLEAN]

(* A relocation table: the base guessed for it, the bases with which its pointers are  *)
(* put in the image, and the hole they leave.                                          *)
RelaRecords ==
    [guess : Int, fits : SUBSET Int, hole : [start : Nat, end : Nat]]

(* uimage: the load address in the header; efi: "MZ" and "ARMd"; prologues: the number *)
(* of matches; rela: the relocation table; tokens, plain: the compressed and the       *)
(* uncompressed table, with the byte order it shows; fails: what raises, other than    *)
(* KallsymsNotFoundException; the rest is for ElfSymbolizer.                           *)
Orders == {"little", "big"}
Failures == {"version", "relocate", "tokens", "plain", "rest", "elf", "serialize"}
FoundRecords ==
    [uimage : SUBSET Nat, efi : BOOLEAN, prologues : [DOMAIN Architectures -> Nat],
     rela : SUBSET RelaRecords, tokens : SUBSET Orders, plain : SUBSET Orders,
     fails : SUBSET Failures, elf : SUBSET Seq(SectionRecords), size : Nat,
     relative : SUBSET Nat, symbols : Seq(Symbols)]

(* Each field that may be missing is there once at most; a hole is inside the image. *)
WellFormedFound(f) ==
    /\ f \in FoundRecords
    /\ AtMostOne(f.uimage) /\ AtMostOne(f.rela)
    /\ AtMostOne(f.tokens) /\ AtMostOne(f.plain)
    /\ \A r \in f.rela : r.hole.start <= r.hole.end /\ r.hole.end <= f.size

(* What is found is known from every offset that file_contents may begin at. *)
WellFormedCall(c) ==
    /\ c.command \in CommandRecords
    /\ AtMostOne(c.command.machine) /\ AtMostOne(c.command.bits)
    /\ AtMostOne(c.command.base) /\ AtMostOne(c.command.offset)
    /\ \A o \in DOMAIN c.kernel : o \in Nat /\ WellFormedFound(c.kernel[o])
    /\ {0} \cup c.command.offset \subseteq DOMAIN c.kernel
    /\ c.kernel[0].uimage # {} => HeaderSize \in DOMAIN c.kernel

ASSUME VmlinuxToElfAssumption == Enough \in Nat \ {0} /\ HeaderSize \in Nat \ {0}
ASSUME VmlinuxToElfInputs == Inputs # {} /\ \A c \in Calls : WellFormedCall(c)

VARIABLES
    command,    \* the arguments
    kernel,     \* the input file, decompressed
    start,      \* file_offset: where file_contents begins
    base,       \* base_address
    wide,       \* is_64_bits
    order,      \* is_big_endian
    guess,      \* architecture, a place in Architectures
    candidate,  \* kernel_text_candidate; elf64_rela is kept along with it
    object,     \* the ELF object made for a raw kernel
    output,     \* the output file: "old", "begun", "whole"
    status,     \* the exit status
    stage       \* what comes next; "ended"

arguments == <<command, kernel>>
image == <<start, base>>
layout == <<wide, order, guess>>
programVars == <<arguments, image, layout, candidate, object, output, status, stage, vars>>

found == kernel[start]
----------------------------------------------------------------------------
(* `given' is of no account until MakeObject. *)
ProgramInit ==
    /\ given = CHOOSE c \in Inputs : TRUE
    /\ Init
    /\ \E c \in Calls : command = c.command /\ kernel = c.kernel
    /\ start = 0
    /\ base = command.base
    /\ wide = {} /\ order = {} /\ guess = {} /\ candidate = {}
    /\ object = {}
    /\ output = "old"
    /\ status = {}
    /\ stage = "arguments"

Exit(code) == status' = {code} /\ stage' = "ended"
GoOn(next) == stage' = next /\ UNCHANGED status

(* Mutant: an exception is reported and passed over. *)
RaisedAndCaught == 0

(* An exception, caught by main (ArchitectureGuessError) or not; exit() with a message. *)
Raised == 1

ArgumentsRefused ==
    command.script = "vmlinux-to-elf" /\ (command.machine = {}) # (command.bits = {})

(* One of --e-machine and --bit-size without the other: exit(), which is a success. *)
RefuseArguments ==
    /\ stage = "arguments" /\ ArgumentsRefused
    /\ Exit(0)
    /\ UNCHANGED <<arguments, image, layout, candidate, object, output, vars>>

(* vmlinux-to-elf: a uImage header is passed over unless an offset is given, and says *)
(* the base unless that is given.                                                     *)
OpenImage ==
    /\ stage = "arguments" /\ ~ArgumentsRefused
    /\ IF command.script = "vmlinux-to-elf"
       THEN /\ start' \in IF command.offset # {} THEN command.offset
                          ELSE IF found.uimage # {} THEN {HeaderSize} ELSE {0}
            /\ base' = IF command.base # {} THEN command.base ELSE found.uimage
       ELSE UNCHANGED image
    /\ GoOn("version")
    /\ UNCHANGED <<arguments, layout, candidate, object, output, vars>>

(* find_linux_kernel_version, then the width given: 32 or 64, but 0 is none. *)
FindVersion ==
    /\ stage = "version"
    /\ IF "version" \notin found.fails /\ command.bits \subseteq {0, 32, 64}
       THEN wide' = {b = 64 : b \in command.bits \ {0}} /\ GoOn("architecture")
       ELSE UNCHANGED wide /\ Exit(Raised)
    /\ UNCHANGED <<arguments, image, order, guess, candidate, object, output, vars>>

(* Mutant: every architecture with the most prologues. *)
AllMostCommon(prologues) ==
    {i \in DOMAIN prologues :
        prologues[i] >= Enough /\ \A j \in DOMAIN prologues : prologues[j] <= prologues[i]}

(* The architecture with the most prologues, the first of them, if it has enough. *)
MostCommon(prologues) ==
    {i \in DOMAIN prologues :
        /\ prologues[i] >= Enough
        /\ \A j \in DOMAIN prologues :
              /\ prologues[j] <= prologues[i]
              /\ prologues[j] = prologues[i] => i <= j}

(* A signature decides alone. *)
Guesses == IF found.efi THEN ArchitecturesNamed("aarch64") ELSE MostCommon(found.prologues)

(* guess_architecture: the width given stays, the byte order is that of the guess; no *)
(* guess is an error unless the width was given.                                      *)
GuessArchitecture ==
    /\ stage = "architecture"
    /\ IF Guesses = {} /\ wide = {}
       THEN UNCHANGED layout /\ Exit(Raised)
       ELSE /\ guess' = Guesses
            /\ wide' = IF wide # {} THEN wide ELSE {Architectures[i].wide : i \in Guesses}
            /\ order' = {Architectures[i].order : i \in Guesses}
            /\ GoOn("relocate")
    /\ UNCHANGED <<arguments, image, candidate, object, output, vars>>

(* Mutant: the finder is given the argument, without the address of the uImage header. *)
BaseOfArguments == command.base

(* The base address KallsymsFinder is made with. *)
FinderBase == base

(* The relocation tables that are looked for: those of an AArch64 kernel. *)
Relocated ==
    IF TRUE \in wide /\ guess = ArchitecturesNamed("aarch64") THEN found.rela ELSE {}

(* find_elf64_rela and apply_elf64_rela: with the base given, or guessed.  When it does *)
(* not put the relocations in the image, base and table are forgotten.                  *)
Relocate ==
    /\ stage = "relocate"
    /\ IF "relocate" \in found.fails /\ Relocated # {} /\ FinderBase = {}
       THEN UNCHANGED candidate /\ Exit(Raised)
       ELSE /\ candidate' =
                  {b \in IF FinderBase # {} THEN FinderBase ELSE {r.guess : r \in Relocated} :
                      \E r \in Relocated : b \in r.fits}
            /\ GoOn("tokens")
    /\ UNCHANGED <<arguments, image, layout, object, output, vars>>

(* find_kallsyms_token_table, _index, _markers and _names: the index shows the byte     *)
(* order.  Without a table the uncompressed one is looked for; another error is final.  *)
FindTokens ==
    /\ stage = "tokens"
    /\ \/ /\ "tokens" \notin found.fails /\ found.tokens # {}
          /\ order' = found.tokens
          /\ GoOn("rest")
       \/ /\ "tokens" \notin found.fails /\ found.tokens = {}
          /\ UNCHANGED order
          /\ GoOn("plain")
       \/ /\ "tokens" \in found.fails
          /\ UNCHANGED order
          /\ Exit(Raised)
    /\ UNCHANGED <<arguments, image, wide, guess, candidate, object, output, vars>>

(* Mutant: the byte order of the markers is not kept. *)
OrderGuessed == order

(* A byte order that was guessed is kept, also when the markers show the other one. *)
OrderOfMarkers == IF order # {} THEN order ELSE found.plain

(* find_kallsyms_names_uncompressed and _markers_uncompressed; without the names, the *)
(* first error is raised again.                                                       *)
FindPlain ==
    /\ stage = "plain"
    /\ IF "plain" \notin found.fails /\ found.plain # {}
       THEN order' = OrderOfMarkers /\ GoOn("rest")
       ELSE UNCHANGED order /\ Exit(Raised)
    /\ UNCHANGED <<arguments, image, wide, guess, candidate, object, output, vars>>

(* find_kallsyms_num_syms, the addresses and parse_symbol_table. *)
FindRest ==
    /\ stage = "rest"
    /\ IF "rest" \notin found.fails
       THEN GoOn(IF command.script = "vmlinux-to-elf" THEN "object" ELSE "dump")
       ELSE Exit(Raised)
    /\ UNCHANGED <<arguments, image, layout, candidate, object, output, vars>>

Machines ==
    IF command.machine # {} THEN command.machine ELSE {Architectures[i].machine : i \in guess}

(* The machine; the ELF file, which keeps its header, or the object of a raw kernel; *)
(* and what ElfSymbolizer goes on with.                                              *)
MakeObject ==
    /\ stage = "object"
    /\ IF Machines # {} /\ "elf" \notin found.fails
       THEN /\ object' = IF found.elf # {} THEN {}
                         ELSE {[machine |-> m, wide |-> wide, order |-> order] : m \in Machines}
            /\ given' =
                 [elf |-> found.elf, size |-> found.size, base |-> base, text |-> candidate,
                  relative |-> found.relative, bss |-> command.bss,
                  hole |-> {r.hole : r \in {t \in Relocated : candidate # {}}},
                  symbols |-> found.symbols]
            /\ GoOn("symbolize")
       ELSE UNCHANGED <<object, given>> /\ Exit(Raised)
    /\ UNCHANGED <<arguments, image, layout, candidate, output,
                   sections, entry, sorted, cursor, lower, upper, placed, phase>>

(* ElfSymbolizer goes on from there, to its end or to an exception. *)
Symbolize ==
    /\ stage = "symbolize"
    /\ Next
    /\ UNCHANGED <<arguments, image, layout, candidate, object, output, status, stage>>

EndInError ==
    /\ stage = "symbolize" /\ phase = "error"
    /\ Exit(Raised)
    /\ UNCHANGED <<arguments, image, layout, candidate, object, output, vars>>

(* open(..., "wb") empties what is there before serialize begins. *)
OpenOutput ==
    /\ (stage = "symbolize" /\ phase = "done") \/ (stage = "dump" /\ command.dump)
    /\ output' = "begun"
    /\ GoOn("write")
    /\ UNCHANGED <<arguments, image, layout, candidate, object, vars>>

WriteOutput ==
    /\ stage = "write"
    /\ IF command.script = "kallsyms-finder" \/ "serialize" \notin found.fails
       THEN output' = "whole" /\ Exit(0)
       ELSE UNCHANGED output /\ Exit(Raised)
    /\ UNCHANGED <<arguments, image, layout, candidate, object, vars>>

(* kallsyms-finder without --output only prints. *)
PrintOnly ==
    /\ stage = "dump" /\ ~command.dump
    /\ Exit(0)
    /\ UNCHANGED <<arguments, image, layout, candidate, object, output, vars>>

ProgramNext ==
    \/ RefuseArguments \/ OpenImage \/ FindVersion \/ GuessArchitecture \/ Relocate
    \/ FindTokens \/ FindPlain \/ FindRest
    \/ MakeObject \/ Symbolize \/ EndInError \/ OpenOutput \/ WriteOutput \/ PrintOnly

(* The program is sequential: it goes on while it can. *)
ProgramSpec ==
    ProgramInit /\ [][ProgramNext]_programVars /\ WF_programVars(ProgramNext)

----------------------------------------------------------------------------
IsOptional(x, S) == x \subseteq S /\ AtMostOne(x)

(* None of the values passed on is ambiguous, and the program has a status when it ended. *)
ProgramTypeOK ==
    /\ start \in DOMAIN kernel
    /\ IsOptional(base, Nat) /\ IsOptional(candidate, Int)
    /\ IsOptional(wide, BOOLEAN) /\ IsOptional(order, Orders)
    /\ IsOptional(guess, DOMAIN Architectures)
    /\ AtMostOne(object)
    /\ output \in {"old", "begun", "whole"}
    /\ IsOptional(status, {0, 1})
    /\ status # {} <=> stage = "ended"

(* The exit status tells a caller what became of the output: after a success, it is the  *)
(* new one and whole, unless none was asked for or the arguments were refused; after a   *)
(* failure it is what was there before, unless serialize raised once the file was open.  *)
StatusTellsOutput ==
    /\ status = {0} =>
          \/ output = "whole"
          \/ ArgumentsRefused
          \/ command.script = "kallsyms-finder" /\ ~command.dump
    /\ status = {1} => output = "old" \/ (output = "begun" /\ "serialize" \in found.fails)

(* The sections of a raw kernel lie at the base its relocations were applied with, which *)
(* the finder and ElfSymbolizer each choose: from the arguments, the uImage header or    *)
(* the table.  Except when 0 is guessed, which ElfSymbolizer takes for none.             *)
BasesAgree ==
    given.elf = {} /\ sections # << >> =>
        \A b \in candidate : b # 0 \/ base # {} => sections[1].address = b % WordLimit

(* The width and the byte order, by which the classes of the output's structures are     *)
(* chosen, are known when an object is made, in whatever way the architecture was missed *)
(* or mistaken.  The width is the one asked for.  The byte order is                      *)
(*   - that of the token index, when a compressed table was found, whatever was guessed; *)
(*   - that of the markers, when an uncompressed one was found and nothing was guessed.  *)
(* The markers are not asked when there is a guess (OrderOfMarkers): it stays, right or  *)
(* wrong, and nothing is said here of whether it is the kernel's order.                  *)
LayoutKnown ==
    \A o \in object :
        /\ o.wide # {} /\ \A b \in command.bits \ {0} : o.wide = {b = 64}
        /\ o.order # {}
        /\ found.tokens # {} => o.order = found.tokens
        /\ found.tokens = {} /\ Guesses = {} => o.order = found.plain

=============================================================================
