------------------------------- MODULE MCMapi -------------------------------
(***************************************************************************)
(* Mapi on a small instance.  A block holds two bytes, a byte one of four  *)
(* values.  The messages are empty, shorter than a block and exactly a     *)
(* block (<<1, 0>> looks like a header) where framing.py writes, and one   *)
(* and a half and more than two blocks where another implementation does.  *)
(* The runs that show what framing.py makes of long messages give it those.*)
(***************************************************************************)
EXTENDS Mapi

MCMessage ==
    [w \in {"framing", "foreign"} |->
        IF w = "framing" THEN {<<>>, <<3>>, <<1, 0>>}
                         ELSE {<<3>>, <<1, 0, 2>>, <<1, 0, 2, 3, 1>>}]

MCMaxSent == [w \in {"framing", "foreign"} |-> IF w = "framing" THEN 3 ELSE 2]

MCLongMessage == [w \in {"framing"} |-> {<<3>>, <<1, 0, 2>>, <<1, 0, 2, 3, 1>>}]

MCLongMaxSent == [w \in {"framing"} |-> 2]
=============================================================================
