----------------------------- MODULE MCAccounts -----------------------------
(* Permuting slots, or courses, changes nothing.  A cooldown is a tick, a     *)
(* reset token lives for two, a verification token for three.                *)
EXTENDS Accounts, TLC

MCLifetime == [p \in Purpose |-> IF p = "reset" THEN 2 ELSE 3]
Symmetric == Permutations(Request) \cup Permutations(Course)
=============================================================================
