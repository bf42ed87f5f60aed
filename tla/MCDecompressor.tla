--------------------------- MODULE MCDecompressor ---------------------------
(***************************************************************************)
(* Decompressor on files with three places, each with a stream of every    *)
(* kind: false signatures, kernels, blocks cut or followed by other data,  *)
(* images in images.                                                       *)
(***************************************************************************)
EXTENDS Decompressor

CONSTANT MCBlocks   \* how many blocks at most

MCFormats == <<"gzip", "lzma", "lz4_legacy">>

MCKernel == [large |-> TRUE, zero |-> TRUE, part |-> 1]
MCSmall == [large |-> FALSE, zero |-> TRUE, part |-> 1]
MCText == [large |-> TRUE, zero |-> FALSE, part |-> 1]

MCOne == {[sign |-> "gzip", outputs |-> <<o>>] : o \in {{}, {MCKernel}, {MCText}}}
MCTwo == {[sign |-> "lzma", outputs |-> o] :
             o \in {<<{}, {}>>, <<{}, {MCKernel}>>, <<{MCSmall}, {MCKernel}>>, <<{MCKernel}, {}>>}}
MCLegacy(n) ==
    {s \in [sign : {"lz4_legacy"}, blocks : UNION {[1 .. i -> Blocks] : i \in 0 .. n},
            kernel : 0 .. n] : s.kernel <= Len(s.blocks)}

MCNone == {Nothing}
MCImages(inner) ==
    [sign : {"android"}, valid : BOOLEAN, slice : {MCKernel, MCText}, inner : inner]

MCInner == MCOne \cup MCNone \cup MCLegacy(1)
MCInside == {s \in MCImages(MCOne) : s.valid}
MCOuter == MCImages(MCInside) \cup MCImages(MCInner)
MCStreams == MCOne \cup MCTwo \cup MCNone \cup MCLegacy(MCBlocks) \cup MCOuter \cup MCInside
MCNesting == [s \in MCStreams |->
                 IF s.sign # "android" THEN 0 ELSE IF s.inner.sign # "android" THEN 1 ELSE 2]

MCFile(elf, short, words, streams) ==
    [elf |-> elf, short |-> short, words |-> words, streams |-> streams]

(* Plain streams at three places; and any stream, with one behind it. *)
MCPlain == MCOne \cup MCTwo \cup MCNone \cup {s \in MCLegacy(1) : s.kernel = Len(s.blocks)}
MCBehind == MCNone \cup {s \in MCOne : s.outputs # <<{}>>}
MCFiles ==
    {f \in {MCFile(elf, FALSE, words, s) :
               elf \in BOOLEAN, words \in {{}, {1, 7}}, s \in [1 .. 3 -> MCPlain]} :
        f.elf => f.streams[1].sign = "none"}
        \cup {MCFile(FALSE, FALSE, words, <<s, t>>) :
                 words \in {{}, {1}}, s \in MCStreams, t \in MCBehind}
        \cup {MCFile(FALSE, TRUE, {}, <<s>>) : s \in MCOne}
=============================================================================
