------------------------------ MODULE OrderedMap ------------------------------
(***************************************************************************)
(* What a database and the cursors of a write transaction promise,         *)
(* whatever the tree of pages below does: a map in key order, cursors that *)
(* stand on an entry or in the gap before one, and that stay there while   *)
(* others insert and delete around them.  `call` is the call just made and *)
(* what it returned.                                                       *)
(***************************************************************************)
EXTENDS Integers, FiniteSetsExt, Functions

CONSTANTS Keys, Vals, Cursors

VARIABLES dict,  \* the entries
          at,    \* where each cursor stands
          call
vars == <<dict, at, call>>

End  == 1 + Max(Keys)  \* the place after the last entry
Here == DOMAIN dict

After(d, k)  == Min({x \in DOMAIN d : x > k} \cup {End})
Before(d, k) == Max({x \in DOMAIN d : x < k} \cup {0})

(* "on" an entry; "before" one whose neighbour was deleted, or before End;  *)
(* "none": not positioned; "past": a search failed and left it anywhere.   *)
Place(s, k) == [s |-> s, k |-> k, eof |-> FALSE]

Init == /\ dict = <<>>
        /\ at = [c \in Cursors |-> Place("none", 0)]
        /\ call = [op |-> "init"]

Op(name)  == call'.op = name
Ok        == call'.rc = "ok"
OnlyMoves(c) == dict' = dict /\ \A o \in Cursors \ {c} : at'[o] = at[o]
On(c, k)  == at'[c] = Place("on", k)
(* The end flag of a cursor makes MDB_NEXT give up early. *)
MaySayEnd(o) == at'[o].eof => at[o].eof \/ at'[o].k = End

(* A cursor others work around: its entry, or the gap the entry leaves. *)
Stays(o) ==
  \/ at[o].s = "past"
  \/ /\ MaySayEnd(o)
     /\ \/ DOMAIN dict' = {} /\ at'[o].s = "none"
        \/ at[o].s = "none" /\ at'[o].s = "none"
        \/ /\ at[o].s \in {"on", "before"} /\ at[o].k \in DOMAIN dict' \cup {End}
           /\ at'[o].s = at[o].s /\ at'[o].k = at[o].k
        \/ /\ at[o].s \in {"on", "before"} /\ at[o].k \notin DOMAIN dict' \cup {End}
           /\ at'[o].s = "before" /\ at'[o].k = After(dict', at[o].k)
OthersStay(c) == \A o \in Cursors \ {c} : Stays(o)
------------------------------------------------------------------------------
First(c) == /\ Op("first") /\ OnlyMoves(c)
            /\ IF Ok THEN Here # {} /\ On(c, Min(Here))
                     ELSE Here = {} /\ at'[c].s = "none"

Last(c) == /\ Op("last") /\ OnlyMoves(c)
           /\ IF Ok THEN Here # {} /\ at'[c].s = "on" /\ at'[c].k = Max(Here)
                    ELSE Here = {} /\ at'[c].s = "none"

Follower(c) == CASE at[c].s = "on" -> After(dict, at[c].k)
                 [] at[c].s = "before" -> at[c].k
                 [] OTHER -> After(dict, 0)

Next1(c) == /\ Op("next") /\ OnlyMoves(c)
            /\ \/ at[c].s = "past"
               \/ Ok /\ Follower(c) # End /\ On(c, Follower(c))
               \/ ~Ok /\ (Follower(c) = End \/ at[c].eof) /\ at'[c].k = at[c].k

Leader(c) == Before(dict, IF at[c].s = "none" THEN End ELSE at[c].k)
Prev1(c) == /\ Op("prev") /\ OnlyMoves(c)
            /\ \/ at[c].s = "past"
               \/ Ok /\ Leader(c) # 0 /\ On(c, Leader(c))
               \/ ~Ok /\ Leader(c) = 0 /\ at'[c].k = at[c].k

Current(c) == /\ Op("current") /\ OnlyMoves(c)
              /\ at[c].s = "past" \/ at'[c].k = at[c].k
              /\ Ok <=> at[c].k \in Here /\ at[c].s # "past"
              /\ Ok => at'[c].s = "on"

Set(c) == /\ Op("set") /\ OnlyMoves(c)
          /\ Ok <=> call'.k \in Here
          /\ Ok => On(c, call'.k)

SetRange(c) == LET k == After(dict, call'.k - 1) IN
               /\ Op("range") /\ OnlyMoves(c)
               /\ Ok <=> k # End
               /\ Ok => On(c, k)

(* A put that fails leaves its own cursor anywhere ("usually near it"). *)
Refused(flag, k) == \/ flag = "nooverwrite" /\ k \in Here
                    \/ flag = "append" /\ Here # {} /\ k <= Max(Here)
Put(c) == /\ Op("put")
          /\ Ok <=> ~Refused(call'.flag, call'.k)
          /\ IF Ok THEN /\ dict' = [x \in Here \cup {call'.k} |->
                                      IF x = call'.k THEN call'.v ELSE dict[x]]
                        /\ c \in Cursors => at'[c].s = "on" /\ at'[c].k = call'.k
                        /\ OthersStay(c)
                   ELSE OnlyMoves(c)

Without(k) == Restrict(dict, Here \ {k})

Del(c) == /\ Op("del")
          /\ Ok <=> call'.k \in Here
          /\ dict' = Without(call'.k)
          /\ IF Ok THEN OthersStay(c) ELSE at' = at

CursorDel(c) == /\ Op("cursor_del") /\ c \in Cursors
                /\ Ok <=> at[c].k \in Here /\ at[c].s # "past"
                /\ IF Ok THEN /\ dict' = Without(at[c].k)
                              /\ \/ DOMAIN dict' = {} /\ at'[c].s = "none"
                                 \/ /\ at'[c].s = "before"
                                    /\ at'[c].k = After(dict, at[c].k)
                              /\ OthersStay(c)
                         ELSE dict' = dict /\ at' = at

Drop == Op("drop") /\ dict' = <<>> /\ \A c \in Cursors : at'[c].s = "none"

Reopen(c) == Op("open") /\ OnlyMoves(c) /\ at'[c].s = "none"

Next == \/ \E c \in Cursors : call'.c = c /\
             (First(c) \/ Last(c) \/ Next1(c) \/ Prev1(c) \/ Current(c) \/ Set(c)
              \/ SetRange(c) \/ Put(c) \/ CursorDel(c) \/ Reopen(c))
        \/ call'.c \notin Cursors /\ (Put(call'.c) \/ Del(call'.c))
        \/ Drop

Spec == Init /\ [][Next]_vars
==============================================================================
