------------------------------ MODULE NameStore -----------------------------
(***************************************************************************)
(* What the values of a message are to the code that reads and writes      *)
(* them: under some names a single value and under the others a list that  *)
(* only grows.  When a single value comes a second time, either may count. *)
(***************************************************************************)
EXTENDS Sequences

CONSTANTS Name, Singular, Value
VARIABLE contents

Init == contents = [key \in Name |-> <<>>]

\* One more value under a name of a list.
Add == \E key \in Name \ Singular :
  LET new == contents'[key]
  IN  /\ new # <<>> /\ new[Len(new)] \in Value
      /\ contents' = [contents EXCEPT ![key] = Append(@, new[Len(new)])]

\* A single value: the one that comes or the one that is there.
Put == \E key \in Singular :
  \/ \E v \in Value : contents' = [contents EXCEPT ![key] = <<v>>]
  \/ contents[key] # <<>> /\ UNCHANGED contents

Clear == contents' = [key \in Name |-> <<>>]

Next == Add \/ Put \/ Clear

Spec == Init /\ [][Next]_contents
=============================================================================
