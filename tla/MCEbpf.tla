------------------------------- MODULE MCEbpf -------------------------------
(***************************************************************************)
(* An agent (2) and a command (3) that it runs, whose pid is given to an   *)
(* unrelated process too.                                                  *)
(***************************************************************************)
EXTENDS Ebpf, TLC

SomePids  == 2..3
SomeHomes == (2 :> {Init1}) @@ (3 :> {2, Init1})
=============================================================================
