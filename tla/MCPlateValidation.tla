--------------------------- MODULE MCPlateValidation ---------------------------
(***************************************************************************)
(* Two tasks; an order of a burger and a cheeseburger, where the second   *)
(* passes for the first but not the first for the second; plates with      *)
(* both, with one of them, with one in another number, and with a third    *)
(* item.                                                                   *)
(***************************************************************************)
EXTENDS PlateValidation

burger == [name |-> "burger", qty |-> 1]
cheese == [name |-> "cheeseburger", qty |-> 1]

Names == {"burger", "cheeseburger"}
Menu == {<<burger, cheese>>}
Photos == {<<cheese, burger>>, <<cheese>>, <<cheese, [burger EXCEPT !.qty = 2]>>,
           <<burger, cheese, burger>>}
Confidence == [p \in Names \X Names |->
  IF p[1] = p[2] THEN 3 ELSE IF p[1] = "burger" THEN 2 ELSE 1]
=============================================================================
