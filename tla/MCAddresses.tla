--------------------------- MODULE MCAddresses ---------------------------
(***************************************************************************)
(* Addresses on the kernels of one to three symbols: every version the     *)
(* code tells apart, width, byte order, configuration and option, with the *)
(* symbols' addresses in order, from 0 or from the base.                   *)
(***************************************************************************)
EXTENDS Addresses, TLC

CONSTANT MCSymbols     \* how many symbols at most

(* What the configuration decides. *)
MCConfigs ==
    {c \in [version : Versions, ia64 : BOOLEAN, wide : BOOLEAN, bigEndian : BOOLEAN,
            relative : BOOLEAN, percpu : BOOLEAN, useAbsolute : BOOLEAN,
            compressed : BOOLEAN, before : 0 .. 2] :
        /\ c.ia64 => c.wide /\ ~c.relative
        /\ c.version = <<4, 4>> => ~c.relative
        /\ c.percpu => c.relative
        /\ c.bigEndian => c.wide
        /\ ~c.compressed => Late(c) /\ c.before = 1}

(* How far the symbols are above the base, or, the absolute ones, above 0. *)
MCSteps == {s \in UNION {[1 .. n -> 0 .. 2] : n \in 1 .. MCSymbols} :
               \A i \in 1 .. Len(s) - 1 : s[i] <= s[i + 1]}

(* One kernel: the configuration and the steps, the base, which symbols are absolute *)
(* (none, the first, all), and what follows the tables.                              *)
MCChoices ==
    {x \in [config : MCConfigs, steps : MCSteps, base : {0, 1, 4, 8, 9},
            absolute : {0, 1, MCSymbols}, after : {<< >>, <<0, 5>>}] :
        /\ x.base \in (IF x.config.wide THEN {0, 4, 8, 9} ELSE {0, 1})
        /\ x.absolute > 0 => x.config.percpu}

MCKernel(c, x) ==
    [version |-> c.version, ia64 |-> c.ia64, wide |-> c.wide, bigEndian |-> c.bigEndian,
     relative |-> c.relative, percpu |-> c.percpu, useAbsolute |-> c.useAbsolute,
     compressed |-> c.compressed, before |-> c.before, after |-> x.after, base |-> x.base,
     absolute |-> (1 .. x.absolute) \cap DOMAIN x.steps,
     addresses |-> [i \in DOMAIN x.steps |->
                       x.steps[i] + (IF i <= x.absolute THEN 0 ELSE x.base)] \o << >>]

MCInputs == {MCKernel(x.config, x) : x \in MCChoices}
=============================================================================
