------------------------------- MODULE Digits -------------------------------
(***************************************************************************)
(* Numbers as the digits they are stored in: what struct.pack and          *)
(* struct.unpack of Python's library make of the bytes of an image.        *)
(***************************************************************************)
EXTENDS Integers, Sequences

(* How many numbers k digits can tell apart, in base b. *)
PowerOf(b) == LET power[k \in Nat] == IF k = 0 THEN 1 ELSE power[k - 1] * b IN power

(* The digit of n with weight b^k. *)
DigitOf(b, n, k) == (n \div PowerOf(b)[k]) % b

(* The number whose digits are d, the most significant one first. *)
NumberOf(b, d) ==
    LET number[k \in 0 .. Len(d)] == IF k = 0 THEN 0 ELSE number[k - 1] * b + d[k]
    IN  number[Len(d)]
=============================================================================
