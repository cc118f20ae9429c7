------------------------------- MODULE Listing -------------------------------
(***************************************************************************)
(* What the pool promises about the assets it lists: a listed asset has an *)
(* id of its own below the bound and keeps it for as long as it is listed. *)
(***************************************************************************)
EXTENDS Naturals

CONSTANTS Asset, MaxNumberReserves

VARIABLE idOf  \* the listed assets and their ids

Id == 0 .. MaxNumberReserves - 1

Init == idOf = [a \in {} |-> 0]

List(a) ==
    /\ a \notin DOMAIN idOf
    /\ \E id \in Id :
         /\ \A b \in DOMAIN idOf : idOf[b] # id
         /\ idOf' = [b \in DOMAIN idOf \cup {a} |-> IF b = a THEN id ELSE idOf[b]]

Drop(a) ==
    /\ a \in DOMAIN idOf
    /\ idOf' = [b \in DOMAIN idOf \ {a} |-> idOf[b]]

Next == \E a \in Asset : List(a) \/ Drop(a)

Spec == Init /\ [][Next]_idOf

=============================================================================
