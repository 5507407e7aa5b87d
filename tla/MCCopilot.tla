----------------------------- MODULE MCCopilot ------------------------------
(***************************************************************************)
(* Two sessions of one directory and a third elsewhere.                    *)
(***************************************************************************)
EXTENDS Copilot

SomeSessions == {"s1", "s2", "s3"}
SomeCwds     == {"here", "there"}
SomeCwdOf    == [s \in SomeSessions |-> IF s = "s3" THEN "there" ELSE "here"]
=============================================================================
