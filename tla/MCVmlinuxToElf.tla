--------------------------- MODULE MCVmlinuxToElf ---------------------------
(***************************************************************************)
(* Every combination of arguments, on kernels that are raw, in a uImage or *)
(* ELF files and of which each search may fail; and one command line on    *)
(* raw kernels of a few bytes, with every base and hole, and ELF kernels   *)
(* with up to three sections, which may be empty, overlap, share an        *)
(* address or have none.                                                   *)
(***************************************************************************)
EXTENDS VmlinuxToElf

CONSTANTS MCSize, MCTop    \* bytes of a raw kernel; the highest address of a symbol

MCEntryPoints == <<"start", "text">>

MCOptional(S) == {{}} \cup {{s} : s \in S}

MCDefault ==
    [script |-> "vmlinux-to-elf", machine |-> {}, bits |-> {}, base |-> {}, offset |-> {},
     bss |-> 2, dump |-> FALSE]
MCCommands ==
    [script : {"vmlinux-to-elf"}, machine : MCOptional({0}), bits : MCOptional({0, 16, 32, 64}),
     base : MCOptional({0, 3}), offset : MCOptional({0, HeaderSize}), bss : {2}, dump : {FALSE}]
    \cup [script : {"kallsyms-finder"}, machine : {{}}, bits : MCOptional({16, 32, 64}),
          base : MCOptional({3}), offset : {{}}, bss : {2}, dump : BOOLEAN]

MCSymbol(name, address, kind) ==
    [name |-> name, address |-> address, kind |-> kind, global |-> kind = "text"]
MCSymbolSeqs ==
    {<<MCSymbol(n, a, "text")>> : n \in {"start", "text", "other"}, a \in 0 .. MCTop}
    \cup {<<MCSymbol("text", a, k), MCSymbol("start", b, "text")>> :
            a, b \in 0 .. MCTop, k \in {"absolute", "data"}}

MCSections == [address : {0, 2, 4}, size : {0, 2, 3}, from : {{}}]
MCElfs == {{s} : s \in UNION {[1 .. n -> MCSections] : n \in 0 .. 3}}

(* A relocation table: its hole, the base guessed and the bases that are good for it. *)
MCHoles == {h \in [start : 0 .. MCSize, end : 0 .. MCSize] : h.start < h.end}
MCGuesses == {[guess |-> 0, fits |-> {0, 3}], [guess |-> 4, fits |-> {3, 4}],
              [guess |-> -2, fits |-> {-2}], [guess |-> 5, fits |-> {0}]}
MCRela(holes) ==
    MCOptional({[guess |-> g.guess, fits |-> g.fits, hole |-> h] : g \in MCGuesses, h \in holes})

(* What is there when all is well: a raw kernel for AArch64. *)
MCGood ==
    [uimage |-> {}, efi |-> TRUE, prologues |-> [i \in DOMAIN Architectures |-> 0],
     rela |-> {}, tokens |-> {"little"}, plain |-> {}, fails |-> {}, elf |-> {},
     size |-> MCSize, relative |-> {},
     symbols |-> <<MCSymbol("start", 6, "text")>>]

(* How often the prologues of mipsbe, armle and aarch64 are met. *)
MCPrologues ==
    {[i \in DOMAIN Architectures |->
        CASE i \in ArchitecturesNamed("mipsbe") -> p
          [] i \in ArchitecturesNamed("armle") -> Enough - 1
          [] i \in ArchitecturesNamed("aarch64") -> r
          [] OTHER -> 0] :
            p \in {0, Enough}, r \in {0, Enough - 1, Enough, Enough + 1}}

(* An architecture is missed or mistaken. *)
MCGuessed ==
    {[MCGood EXCEPT !.efi = FALSE, !.prologues = p, !.tokens = t, !.plain = u] :
        p \in MCPrologues, t \in {{}, {"big"}, {"little"}}, u \in {{}, {"big"}}}

(* A search fails, or there are relocations, or an ELF file. *)
MCFound ==
    {[MCGood EXCEPT !.efi = m, !.fails = f, !.tokens = t] :
        m \in BOOLEAN, f \in MCOptional(Failures), t \in {{}, {"little"}}}
    \cup {[MCGood EXCEPT !.fails = f, !.rela = r] :
        f \in {{}, {"relocate"}}, r \in MCRela({[start |-> 1, end |-> 2]})}
    \cup {[MCGood EXCEPT !.elf = {<<[address |-> 4, size |-> 2, from |-> {}]>>}]}

(* The kernel at once, or behind the header of a uImage. *)
MCPlain(f) == [o \in {0, HeaderSize} |-> f]
MCUImage(f, u) ==
    [o \in {0, HeaderSize} |-> IF o = 0 THEN [f EXCEPT !.uimage = {u}] ELSE f]

MCRaw ==
    {[MCGood EXCEPT !.rela = r, !.relative = b, !.symbols = s] :
        r \in MCRela(MCHoles), b \in MCOptional({2}), s \in MCSymbolSeqs}
MCElf ==
    {[MCGood EXCEPT !.elf = e, !.symbols = <<MCSymbol("start", a, "text")>>] :
        e \in MCElfs, a \in 0 .. MCTop}

MCCalls ==
    [command : MCCommands,
     kernel : {MCPlain(f) : f \in MCFound \cup MCGuessed}
                 \cup {MCUImage(f, u) : f \in MCFound, u \in {0, 3}}]
    \cup [command : {[MCDefault EXCEPT !.base = b] : b \in MCOptional({0, 3})},
          kernel : {MCPlain(f) : f \in MCRaw}]
    \cup [command : {MCDefault}, kernel : {MCPlain(f) : f \in MCElf}]

(* What ElfSymbolizer is given in any of them. *)
MCInputs ==
    [elf : {{}}, size : {MCSize}, base : MCOptional({0, 3}), text : MCOptional({-2, 0, 3, 4}),
     relative : MCOptional({2}), hole : MCOptional(MCHoles), bss : {2}, symbols : MCSymbolSeqs]
    \cup [elf : MCElfs, size : {MCSize}, base : MCOptional({0, 3}), text : {{}},
          relative : {{}}, hole : {{}}, bss : {2},
          symbols : {<<MCSymbol("start", a, "text")>> : a \in 0 .. MCTop}]
=============================================================================
