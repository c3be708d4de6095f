--------------------------- MODULE MCAssignments ---------------------------
(* Recipients: everybody or one student; one is added, removed or replaced.  *)
(* Permuting the slots, the students or the problems changes nothing.        *)
EXTENDS Assignments, TLC

MCSelection ==
  [everybody : {TRUE}, selected : {{}}]
    \cup [everybody : {FALSE}, selected : {{s} : s \in Student}]
MCChange ==
  LET some == {{s} : s \in Student} \cup {{}}
  IN  {c \in [add : some, remove : some] : c.add \cap c.remove = {} /\ c.add \cup c.remove # {}}

Symmetric == Permutations(Request) \cup Permutations(Student) \cup Permutations(Problem)
=============================================================================
