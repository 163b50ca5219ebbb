---------------------------- MODULE MCPathTable ----------------------------
(* Small instances of PathTable: a group and a single command whose        *)
(* destinations return partial results, or two groups, one of each policy, *)
(* whose destinations do not.                                              *)
EXTENDS PathTable

First == "FIRST_ERROR_OR_LAST_OK"
Each == "EACH_OK_AND_ERROR"

GroupSingleTwoGroups == <<2, 1, 2, 2>>
FirstEach == <<First, First, First, Each>>
PartialOfTheFirstPair == [p \in Path |-> IF p[1] \in {1, 2} THEN 1 ELSE 0]
OneOfThePairs == {{}, {1}, {1, 2}, {3}, {3, 4}}

LastInvalid == {<<1, 2>>, <<3, 2>>}
=============================================================================
