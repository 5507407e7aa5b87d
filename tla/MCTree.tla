------------------------------- MODULE MCTree -------------------------------
(***************************************************************************)
(* A claude (2) with one session, from whose terminal runs a copilot's     *)
(* private executable (3) with another process of that copilot (4): an     *)
(* agent of its own tool below one of another tool.  Any of them may be    *)
(* missing, orphaned or gone when a scan looks.                            *)
(***************************************************************************)
EXTENDS Tree, TLC

Claude  == 2
Private == 3
Copilot == 4

SomePids == {Claude, Private, Copilot}
SomeHome == (Claude :> Init1) @@ (Private :> Claude) @@ (Copilot :> Private)
SomeTool == (Claude :> "claude") @@ (Private :> "copilot") @@ (Copilot :> "copilot")
SomeCwd  == [p \in SomePids |-> "w"]

OneSession == {[tool |-> "claude", cwd |-> "w", pid |-> -1]}
=============================================================================
