------------------------ MODULE MCUncompressedSearch ------------------------
(***************************************************************************)
(* UncompressedSearch on tables of a few names of every form, and on every *)
(* growing sequence of five markers out of MCValues, or of six small ones, *)
(* in bytes of nine values: 0; 1 and 2; the lengths 3 and 4 of ordinary    *)
(* names, 3 being a newline too and 4 a character no name has inside; 5, a *)
(* letter and a type; 6, a letter; 7, a type and no letter; and 8, which   *)
(* is in no name.                                                          *)
(***************************************************************************)
EXTENDS UncompressedSearch

CONSTANT MCValues   \* of markers: of one digit to three, some of them null

MCNames ==
    {<<5, 6, 6>>, <<5, 6, 5, 6>>, <<5, 6>>, <<7, 6, 6>>, <<5, 8, 6>>, <<5, 6, 6, 6, 6>>,
     <<5, 6, 3>>, <<7, 4>>, <<5, 4, 5, 6, 6>>}
MCFronts == {<< >>, <<0>>, <<8, 5, 0>>, <<3, 5, 6, 6>>}

MCMarkers(n, values) ==
    {<<0>> \o SetToSortSeq(S, <) : S \in kSubset(n - 1, values)}

(* Names of every form, on plain markers; and markers of every form, on plain names, *)
(* with and without padding in front of them.                                        *)
MCKernels ==
    [size : {4}, big : {FALSE}, known : {{}}, front : MCFronts,
     names : UNION {[1 .. n -> MCNames] : n \in 2 .. 4}, markers : {<<0, 10, 20, 30, 40>>},
     after : {<< >>}]
    \cup
    {k \in [size : {2, 4, 8}, big : BOOLEAN, known : {{}, {FALSE}, {TRUE}},
            front : {<<8>>, <<8, 8, 8>>},
            names : {<<<<5, 6, 6>>, <<5, 6, 6>>, <<5, 6>>>>},
            markers : UNION {MCMarkers(5, MCValues), MCMarkers(5, 1 .. 6), MCMarkers(6, 1 .. 6)},
            after : {<< >>, <<8>>}] :
        k.known \subseteq {k.big}}
=============================================================================
