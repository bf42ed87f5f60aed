---------------------------- MODULE MCNameTable ----------------------------
(***************************************************************************)
(* NameTable on every image of MCMarkers bytes below kallsyms_markers,     *)
(* with bytes of two bits: a size byte has one bit of length and one bit   *)
(* that says another length byte follows.                                  *)
(***************************************************************************)
EXTENDS NameTable

CONSTANTS MCMarkers, MCEstimates

(* Bytes 1 and 3 are tokens that start with a symbol type. *)
MCHeads == [b \in 0 .. 3 |-> CASE b = 0 -> "empty" [] b = 2 -> "other" [] OTHER -> "type"]

(* Elements of one byte, and of two bytes in either order. *)
MCInputs ==
    {c \in [size      : {MCMarkers + 2},
            image     : {f \in [0 .. MCMarkers + 1 -> 0 .. 3] :
                             f[MCMarkers] = 0 /\ f[MCMarkers + 1] = 0},
            elemSize  : {1, 2},
            bigEndian : BOOLEAN,
            markers   : {MCMarkers},
            estimate  : MCEstimates,
            heads     : {MCHeads}] : c.bigEndian => c.elemSize = 2}
============================================================================
