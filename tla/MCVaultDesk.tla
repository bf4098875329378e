------------------------------ MODULE MCVaultDesk ------------------------------
EXTENDS VaultDesk, TLC

CONSTANTS c1, c2, everything, first, second, panel

\* one call for everything and one for each conversation
OneOfEach ==
    (everything :> {c1, c2}) @@ (first :> {c1}) @@ (second :> {c2})
===============================================================================
