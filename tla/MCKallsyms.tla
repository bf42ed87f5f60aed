----------------------------- MODULE MCKallsyms -----------------------------
(***************************************************************************)
(* Kallsyms on kernels with five to ten names, a marker for every two,  *)
(* and tables of fourteen tokens, in bytes of fourteen values: 0; 1, which *)
(* no identifier holds and isalnum() refuses; the digits 2 and 3; ":",     *)
(* which is 4; the letters up to 9; and the bytes above.  A name of seven  *)
(* tokens has a length of two bytes.                                       *)
(***************************************************************************)
EXTENDS Kallsyms

MCAlnum == {2, 3} \cup 5 .. 9
MCAvoid == {<<4, 0>>, <<0, 0>>, <<0, 1>>}
MCSizes == <<8, 4, 2>>
MCTypes == {5, 6}

(* The first fragment, the one that stands where ":" would, and an empty one. *)
FirstTokens == {<<5>>, <<6, 5, 7, 5>>, <<7, 7, 7, 7, 7, 7, 7>>}
NextTokens == {<<8, 8, 8, 8, 8, 8, 8>>, <<1, 8>>, <<4>>, << >>}
Table(first, next) ==
    <<first, <<9>>, <<2>>, <<3>>, next, <<5>>, <<6, 8>>, <<7>>, <<8>>, <<9>>, <<10>>, <<5, 11>>,
      <<12>>, <<7>>>>
Tables == {Table(first, next) : first \in FirstTokens, next \in NextTokens}
PlainTables == {Table(first, <<8>>) : first \in FirstTokens}

Decoys == {<< >>, <<0, 2, 0, 3, 0, 4, 0>>, <<0, 2, 0, 3, 0, 1, 1>>, <<0, 2, 0, 3, 0, 5, 5>>}

(* The symbols' places in the order of their names take three bytes each. *)
SeqsOfNames == {<< >>, <<0, 0, 5>>, <<0, 12, 0>>, <<0, 1, 1>>}
    \cup {<<0, 0, 5, 0, 0, 5>> \o <<a, 5, 5>> \o <<b, 6, c>> : a, b \in {0, 5}, c \in {6, 12}}

(* Names that start with a type, one that does not, and a long one. *)
Short == <<5, 9>>
Word == <<6, 7, 8>>
Untyped == <<7, 5>>
Long == <<11, 5, 5, 8, 6, 0, 7, 8, 9>>
Body == <<Short, Word, Word, Short, Short, Short>>
Names ==
    {Body \o <<Word>>, Body \o <<Short, Word>>, Body \o <<Long>>, Body \o <<Short, Untyped>>,
     <<Word, Untyped>> \o Body, <<Long>> \o Body, <<Short, Short, Short, Word, Short>>,
     <<Short, Word, Long, Long>> \o Body}
PlainNames == {Body \o <<Short, Word>>}

MCKernels ==
    {k \in
        [size : {4, 8}, align : {4, 8}, big : BOOLEAN, zeros : {48}, names : Names,
         seqs : {<< >>, <<0, 12, 0>>}, tokens : PlainTables, decoy : {<< >>}]
        \cup
        [size : {4, 8}, align : {4, 8}, big : BOOLEAN, zeros : {48}, names : PlainNames,
         seqs : SeqsOfNames, tokens : PlainTables, decoy : {<< >>}]
        \cup
        [size : {4, 8}, align : {8}, big : BOOLEAN, zeros : {3, 48}, names : PlainNames,
         seqs : {<< >>}, tokens : Tables \cup {<< >>}, decoy : Decoys]
     : k.size <= k.align}
=============================================================================
