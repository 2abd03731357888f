------------------------------- MODULE Tunnel -------------------------------
(***************************************************************************)
(* What the daemon and its helpers promise of one interface: at most one   *)
(* helper has a tunnel device, the device of one helper is gone before     *)
(* another helper makes its own, and a disconnect that succeeds says that  *)
(* there is none.  HelperLifecycle is the files, signals and timeouts that *)
(* are meant to bring this about.                                          *)
(***************************************************************************)
CONSTANTS
  Helpers,    \* helper processes, over all time
  Answers,    \* what a request can be answered with
  Down        \* the answer that says the tunnel is down

VARIABLES
  owners,     \* the helpers that have a tunnel device
  said        \* the answer to the last request

Init == owners = {} /\ said \in Answers \ {Down}

Take(h) == owners = {} /\ owners' = {h} /\ UNCHANGED said

Release(h) == owners = {h} /\ owners' = {} /\ UNCHANGED said

Answer(a) == (a = Down => owners = {}) /\ said' = a /\ UNCHANGED owners

Next ==
  \/ \E h \in Helpers : Take(h) \/ Release(h)
  \/ \E a \in Answers : Answer(a)

Spec == Init /\ [][Next]_<<owners, said>>
=============================================================================
