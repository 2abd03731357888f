-------------------------- MODULE MCControlSocket --------------------------
(* ControlSocket for TLC: two clients of one user.                         *)
EXTENDS ControlSocket

CONSTANTS c1, c2

TwoClients == {c1, c2}

OneUser == [c \in TwoClients |-> "user"]

Session == <<"lease", "work", "release", "shutdown">>

TwoCommands == [c \in TwoClients |-> {Session, IF c = c1 THEN <<"work">> ELSE <<"change">>}]
=============================================================================
