----------------------------- MODULE NestedStore -----------------------------
(***************************************************************************)
(* What nested write transactions promise, without pages: a stack of       *)
(* images.  A child begins with its parent's image and hides it; when it   *)
(* commits, its image becomes the parent's, when it aborts, the parent has *)
(* what it had.  A transaction an operation of which has failed can only   *)
(* be ended, and takes its parent along if one tries to commit it.  Nothing*)
(* is stored before the outermost commit.  It stores its image, unless an  *)
(* operation of a child has failed and cut pages off from it: then nothing *)
(* is said of what it stores.                                              *)
(***************************************************************************)
EXTENDS Naturals, FiniteSets, SequencesExt

CONSTANTS Keys, Failed

VARIABLES stored,  \* the image a new transaction would find
          stack,   \* the images of the open transactions, the outermost first
          cutoff   \* a failed operation has left pages of theirs cut off
vars == <<stored, stack, cutoff>>

Init == stack = <<stored>> /\ ~cutoff

Usable(s)   == s # <<>> /\ Last(s) # Failed
With(s, i)  == Append(Front(s), i)   \* the innermost has image i

(* Each step relates the stack s before to the stack t after. *)
Begin(s, t) == Usable(s) /\ t = Append(s, Last(s))

(* One call reaches two keys at most: it may join them. *)
Change(s, t) ==
  /\ Usable(s) /\ Usable(t) /\ t = With(s, Last(t))
  /\ Cardinality({k \in Keys : Last(t)[k] # Last(s)[k]}) <= 2

Fail(s, t)  == s # <<>> /\ t = With(s, Failed)
Abort(s, t) == s # <<>> /\ t = Front(s)

Commit(s, t) == Len(s) > 1 /\ t \in {With(Front(s), i) : i \in {Last(s), Failed}}

Store(s, t) ==
  /\ Len(s) = 1 /\ Usable(s) /\ t = <<>>
  /\ cutoff \/ stored' = s[1]

(* Only an operation that fails cuts pages off. *)
Next ==
  \E s \in {stack}, t \in {stack'} :
    \/ stored' = stored /\ Fail(s, t)
    \/ /\ cutoff' => cutoff
       /\ \/ Store(s, t)
          \/ stored' = stored /\ (Begin(s, t) \/ Change(s, t) \/ Abort(s, t) \/ Commit(s, t))
Spec == Init /\ [][Next]_vars
==============================================================================
