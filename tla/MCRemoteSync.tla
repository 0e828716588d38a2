---------------------------- MODULE MCRemoteSync ----------------------------
EXTENDS RemoteSync, TLC

CONSTANTS p1, p2, s1, s2, a, b

CfgFiles == {"macros.cfg", "printer.cfg"}
ByName == [f \in CfgFiles |-> IF f = "macros.cfg" THEN 1 ELSE 2]
OneFile == {"macros.cfg"}
OneRank == [f \in OneFile |-> 1]
PrinterCfg == {"printer.cfg"}

Contents == Permutations(Texts)

=============================================================================
