------------------------------ MODULE MCZendGc ------------------------------
(* Small heaps: ref1 and ref2 refer to one object, obj1, with two properties,  *)
(* and ref3 to another, obj2, with one; arrays have one element.               *)
EXTENDS ZendGc

CONSTANTS arr1, arr2, ref1, ref2, ref3, obj1, obj2

MCHandle == [r \in Refs |-> IF r = ref3 THEN obj2 ELSE obj1]
MCWidth == [c \in Arrays \cup Objects |-> IF c = obj1 THEN 2 ELSE 1]
=============================================================================
