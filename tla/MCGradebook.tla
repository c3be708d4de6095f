---------------------------- MODULE MCGradebook ----------------------------
(* Requests of one browser.  Keys: the first one, its repetition, the same   *)
(* key with another body, and another attempt under a key of its own.        *)
(* Grades: three attempts under keys of their own.                           *)
EXTENDS GradebookRefinement, TLC

KeysRequest == {"first", "repeated", "changed", "second"}
KeysKeyOf == [r \in KeysRequest |-> IF r = "second" THEN "k2" ELSE "k1"]
KeysBodyOf == [r \in KeysRequest |-> IF r \in {"first", "repeated"} THEN 1 ELSE 2]

GradesKeyOf == [r \in Request |-> r]
GradesBodyOf == [r \in Request |-> 1]
\* The keys are the requests, so that permuting both changes no constant.
Symmetric == Permutations(Request) \cup Permutations(Approval)
=============================================================================
