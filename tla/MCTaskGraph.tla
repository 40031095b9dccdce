---------------------------- MODULE MCTaskGraph ----------------------------
EXTENDS TaskGraph, TLC

MCPeriod == [k \in Rules |-> IF k = "daily" THEN 1 ELSE 2]
MCAspects == {{"done", "block"}, {"recur", "due", "block"}, {"project", "parent"}}
MCSymmetry == Permutations(Tasks)
=============================================================================
