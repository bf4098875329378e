------------------------------ MODULE MCVaultSync ------------------------------
(* A small instance of VaultSync with a turn that cannot travel. *)
EXTENDS VaultSync

CONSTANTS a, b

\* the third turn of a: the first message of its second exchange, or its reply
\* where an earlier message was taken back
Stuck == {<<a, 3>>}
===============================================================================
