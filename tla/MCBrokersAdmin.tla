--------------------------- MODULE MCBrokersAdmin ---------------------------
EXTENDS BrokersAdmin

CONSTANTS b1, b2

MCIds == {b1, b2}

MCValues == {"", "Reno", "Ana"}

\* One broker at mount, one free id for a create.
MCInitDb == [i \in MCIds |-> IF i = b1 THEN [name |-> "Reno", active |-> TRUE] ELSE Absent]

MCMaxOps == 3

MCEmpty == ""
=============================================================================
