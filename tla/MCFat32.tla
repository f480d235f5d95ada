------------------------------ MODULE MCFat32 ------------------------------
(***************************************************************************)
(* FatTree for TLC.                                                        *)
(***************************************************************************)
EXTENDS FatTree

CONSTANTS name1, name2, long2, textX, textY

Text(t) == [kind |-> "text", of |-> t]

\* long2 is a long name that to_83 cuts down to name2.
MCShort == [n \in {name1, name2, long2} |-> IF n = long2 THEN name2 ELSE n]
MCPaths == {<<name1>>, <<name2>>, <<long2>>, <<name1, long2>>}
MCTexts == {<<>>, <<Text(textX)>>, <<Zero, Text(textY), Text(textY)>>}

Siblings == {<<name1>>, <<name1, name1>>, <<name1, name2>>}
=============================================================================
