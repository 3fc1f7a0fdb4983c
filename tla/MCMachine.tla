----------------------------- MODULE MCMachine -----------------------------
EXTENDS Machine

DriveAtFirstPort == [i \in 0..1 |-> IF i = 0 THEN "SATA" ELSE "none"]
DriveAtSecondPort == [i \in 0..1 |-> IF i = 1 THEN "SATA" ELSE "none"]
=============================================================================
