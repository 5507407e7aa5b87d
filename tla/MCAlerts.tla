------------------------------ MODULE MCAlerts ------------------------------
(***************************************************************************)
(* One agent of a transcript tool whose sessions come and go: it meets the *)
(* proc branch, the transcript branch, the child role and the skipped root.*)
(***************************************************************************)
EXTENDS Alerts

Quiet == [needsInput |-> FALSE, state |-> "idle", silent |-> TRUE,
          secret |-> FALSE, destructive |-> FALSE]

\* An idle agent, one waiting for its user, one stuck, one that leaked a
\* secret while working.
SomeObservations == {Quiet,
                     [Quiet EXCEPT !.needsInput = TRUE, !.state = "waiting"],
                     [Quiet EXCEPT !.state = "busy"],
                     [Quiet EXCEPT !.state = "busy", !.silent = FALSE, !.secret = TRUE]}
=============================================================================
