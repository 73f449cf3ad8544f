------------------------------ MODULE MCTable ------------------------------
(* Instances of Table for TLC.                                             *)
EXTENDS Table

(* A table that grows 4, 8 at a load of 50 percent: two strings whose homes  *)
(* are the last slot at capacity 4 and part at capacity 8, a number, and a   *)
(* key that is not equal to itself.                                        *)
SmallKeys == {"str1", "str2", "num", "nan"}
SmallHash == [k \in SmallKeys |->
                CASE k = "str1" -> 3 [] k = "str2" -> 7 [] k = "num" -> 4 [] k = "nan" -> 3]
=============================================================================
