------------------------------- MODULE MCBTree -------------------------------
(* One database; a page holds two large entries or three small ones, and    *)
(* four branches, or three if one separator is long.  Key 4 is stored with  *)
(* a short and with a long value.                                           *)
EXTENDS BTree

KeySizes == [k \in Keys |-> IF k = 3 THEN 3 ELSE 1]
ValSizes == [v \in Vals |-> IF v = "short" THEN 1 ELSE 3]
Stores   == {<<k, v>> \in Keys \X Vals : k = 4 \/ (v = "short") = (k < 4)}
(* The last call only labels the step. *)
Viewed == <<db, cur>>
==============================================================================
