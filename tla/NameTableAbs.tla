---------------------------- MODULE NameTableAbs ----------------------------
(***************************************************************************)
(* What find_kallsyms_num_syms promises: of the offsets at and below the   *)
(* estimate, a whole number of steps apart, it returns the nearest one at  *)
(* which a symbol table starts, with the number of its entries.            *)
(*                                                                         *)
(* A table is described here by walking it forwards, entry by entry, with  *)
(* no mention of how the code counts.                                      *)
(***************************************************************************)
EXTENDS Digits

CONSTANTS Half, StepBack, MinSyms, PadWindow, NeedleWindow, Inputs

VARIABLES
    input,
    result      \* << >> while searching, then <<offset, length>>, or <<"none">>

vars == <<input, result>>

(***************************************************************************)
(* Walk(in)[p] is the number of entries met from offset p up to the        *)
(* size-0 entry that ends the table, -1 when the walk runs into            *)
(* kallsyms_markers or stops too far below it.                             *)
(***************************************************************************)
WalkOn(in, walk, p) ==
    LET size == in.image[p]
        next == IF size < Half THEN p + 1 + size
                ELSE p + 2 + (size % Half) + Half * in.image[p + 1]
    IN  IF size = 0
          THEN IF in.markers - p <= PadWindow THEN 0 ELSE -1
          ELSE IF next > in.markers \/ walk[next] = -1
                 THEN -1
                 ELSE walk[next] + 1

Walk(in) == LET walk[p \in 0 .. in.markers] == WalkOn(in, walk, p) IN walk

(* The number stored in the element at an offset. *)
Value(in, p) ==
    NumberOf(2 * Half,
             [k \in 1 .. in.elemSize |->
                 in.image[IF in.bigEndian THEN p + k - 1 ELSE p + in.elemSize - k]])

HasNumSyms(in, p, count) ==
    \E q \in 0 .. p - in.elemSize : p - q <= NeedleWindow /\ Value(in, q) = count

IsTable(in, p) ==
    /\ in.heads[in.image[p + 1]] = "type"
    /\ Walk(in)[p] >= MinSyms
    /\ HasNumSyms(in, p, Walk(in)[p])

(* An offset whose test cannot be made: an empty token, a count too wide to store. *)
IsUntestable(in, p) ==
    \/ in.heads[in.image[p + 1]] = "empty"
    \/ /\ in.heads[in.image[p + 1]] = "type"
       /\ Walk(in)[p] >= MinSyms /\ Walk(in)[p] >= PowerOf(2 * Half)[in.elemSize]

Candidates(in) == {p \in 0 .. in.estimate : (in.estimate - p) % StepBack = 0}

Settles(in, p) == IsTable(in, p) \/ IsUntestable(in, p)

Init == input \in Inputs /\ result = << >>

Find ==
    /\ result = << >>
    /\ \E p \in Candidates(input) :
          /\ IsTable(input, p)
          /\ \A q \in Candidates(input) : q > p => ~Settles(input, q)
          /\ result' = <<p, Walk(input)[p]>>
    /\ UNCHANGED input

GiveUp ==
    /\ result = << >>
    /\ \A p \in Candidates(input) :
          IsTable(input, p) => \E q \in Candidates(input) : q > p /\ IsUntestable(input, q)
    /\ result' = <<"none">>
    /\ UNCHANGED input

Next == Find \/ GiveUp

Spec == Init /\ [][Next]_vars
============================================================================
