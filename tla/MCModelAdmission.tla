------------------------- MODULE MCModelAdmission -------------------------
(* An instance of ModelAdmission for TLC: a task with the ceiling three    *)
(* whose source is committed already, and one with the ceiling two, a      *)
(* source of three segments and a source of one.                           *)
EXTENDS ModelAdmission, TLC

CONSTANTS t1, t2, s1, s2, s3

OneAndTwo == s1 :> t1 @@ s2 :> t2 @@ s3 :> t2
Ceilings == t1 :> 3 @@ t2 :> 2
Attempts == t1 :> 1 @@ t2 :> 2
Lengths == s1 :> 1 @@ s2 :> 3 @@ s3 :> 1
=============================================================================
