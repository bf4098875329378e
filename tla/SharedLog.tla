------------------------------- MODULE SharedLog -------------------------------
(***************************************************************************)
(* What the server promises about one conversation of the vault: rows that   *)
(* are added and never changed, replaced or taken away, none of them twice,  *)
(* and no gap between them but in front of a record that is stray, one whose *)
(* predecessor cannot travel.  VaultSync implements it.                      *)
(***************************************************************************)
EXTENDS Naturals

CONSTANT Record   \* sealed turns

VARIABLES
    rows,    \* the record at each sequence that has one
    stray    \* the records whose predecessor stays where it was written

Init == rows = <<>> /\ stray = {}

\* the sequences that have a record come to be those of more, each with its own
Extend ==
    /\ DOMAIN rows \subseteq DOMAIN rows' /\ DOMAIN rows' \subseteq Nat
    /\ \A n \in DOMAIN rows : rows'[n] = rows[n]
    /\ \A n, i \in DOMAIN rows' : rows'[n] = rows'[i] => n = i
    /\ \A n \in DOMAIN rows' \ DOMAIN rows :
          /\ rows'[n] \in Record
          /\ n = 0 \/ n - 1 \in DOMAIN rows' \/ rows'[n] \in stray'

Next == (rows' = rows \/ Extend) /\ stray \subseteq stray'

Spec == Init /\ [][Next]_<<rows, stray>>
===============================================================================
