------------------------------ MODULE MCEnvCopy ------------------------------
(* An empty environment; a leaf with overflow items of one and three pages, *)
(* an empty sub-database and one of two leaves; a main tree of three levels *)
(* with a page that has leaked.                                             *)
EXTENDS EnvCopy, TLC

To(kind, p)  == [kind |-> kind, to |-> p, n |-> 1]
Big(p, n)    == [kind |-> "big", to |-> p, n |-> n]
Empty  == [root |-> NoPage, pages |-> <<>>, next |-> 3, free |-> 1]
Nested == [root |-> 2, next |-> 12, free |-> 1, pages |->
             (2 :> <<Big(3, 1), To("sub", NoPage), Big(4, 3), To("sub", 8)>>)
             @@ (8 :> <<To("child", 9), To("child", 10)>>)
             @@ (9 :> <<>>) @@ (10 :> <<Big(11, 1)>>)]
Leaky  == [root |-> 2, next |-> 9, free |-> 0, pages |->
             (2 :> <<To("child", 3), To("child", 4)>>)
             @@ (3 :> <<To("child", 5)>>) @@ (4 :> <<To("child", 6)>>)
             @@ (5 :> <<Big(7, 1)>>) @@ (6 :> <<>>)]
Environments == {Empty, Nested, Leaky}
==============================================================================
