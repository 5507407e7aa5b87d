-------------------------------- MODULE Feed --------------------------------
(***************************************************************************)
(* What the serving side promises a browser, whatever happens inside: a    *)
(* connection subscribes once, is shown the tables, newer or older than    *)
(* what it has seen, until its subscription ends for good; and as long as  *)
(* the service is not being shut down, a subscriber that is behind is      *)
(* brought up to date or loses its subscription.                           *)
(***************************************************************************)
CONSTANT Clients

VARIABLES
  state,   \* of each connection's subscription
  fresh,   \* subscribers whose last snapshot shows the tables as they are
  serving  \* nobody has asked the service to stop

vars == <<state, fresh, serving>>

Init ==
  /\ state = [c \in Clients |-> "new"]
  /\ fresh = {}
  /\ serving = TRUE

Subscribe(c) ==
  /\ state[c] = "new"
  /\ state' = [state EXCEPT ![c] = "subscribed"]
  /\ UNCHANGED <<fresh, serving>>

\* A snapshot of the tables as they are.
ShowLatest(c) ==
  /\ state[c] = "subscribed"
  /\ fresh' = fresh \cup {c}
  /\ UNCHANGED <<state, serving>>

\* A snapshot that has been overtaken.
ShowOutdated(c) ==
  /\ state[c] = "subscribed"
  /\ fresh' = fresh \ {c}
  /\ UNCHANGED <<state, serving>>

\* The tables change: everybody is behind.
Change ==
  /\ fresh' = {}
  /\ UNCHANGED <<state, serving>>

\* A subscription ends, and takes nobody else's with it.
End(c) ==
  /\ state[c] = "subscribed"
  /\ state' = [state EXCEPT ![c] = "ended"]
  /\ fresh' = fresh \ {c}
  /\ UNCHANGED serving

Stop ==
  /\ serving
  /\ serving' = FALSE
  /\ UNCHANGED <<state, fresh>>

Next ==
  \/ \E c \in Clients : Subscribe(c) \/ ShowLatest(c) \/ ShowOutdated(c) \/ End(c)
  \/ Change
  \/ Stop

Safety == Init /\ [][Next]_vars

Liveness ==
  \A c \in Clients :
    state[c] = "subscribed" ~> c \in fresh \/ state[c] = "ended" \/ ~serving

Spec == Safety /\ Liveness
=============================================================================
