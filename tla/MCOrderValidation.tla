-------------------------- MODULE MCOrderValidation --------------------------
(* Orders of one or two lines, the lines of an order of different          *)
(* products; up to three items, named like a line or by a third label,     *)
(* labels repeated or not.                                                 *)
EXTENDS OrderValidation, SequencesExt

CONSTANTS apple, cola, Label

MCOrders == {s \in SeqOf(Entry, 2) : (\A k \in DOMAIN s : s[k].name # Label) /\ NamesOnce(s)}

MCDetections == SeqOf(Entry, 3)
=============================================================================
