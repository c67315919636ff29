----------------------------- MODULE MCNestedTxn -----------------------------
(* A tree of three leaves, of which the outer two may go and come back, and *)
(* the middle one has an overflow page; a page in the freeDB and four at    *)
(* the end of the file.  The dirty lists are so short that the second       *)
(* operation must write pages early.                                        *)
EXTENDS NestedTxn

Pages  == <<3, 4, 5>>
FreeDB == <<{7}>>
==============================================================================
