------------------------------ MODULE MCRoutes ------------------------------
(* Eight addresses, of three bits.  A split tunnel with a link, whose      *)
(* endpoint lies in one of its routes, and a full tunnel; three networks,  *)
(* the last of them broader than the first.                                *)
EXTENDS RouteOverview

Bits(n) == [b \in 1..Width |-> (n \div 2^(Width - b)) % 2]

P(n, len) == [ip |-> Bits(n), len |-> len]

MCTunnels == {
  [allowed  |-> <<P(0, 2), P(4, 2), P(5, 3), P(6, 2)>>, endpoint |-> Bits(7),
   links    |-> <<[anchor |-> P(0, 2), bypass |-> {P(4, 2)}]>>],
  [allowed  |-> <<P(0, 0)>>, endpoint |-> Bits(5), links |-> <<>>] }

(* What the theorems about Routes ask for.                                 *)
ASSUME MCRoutesAssumption == OneRoutePerPrefix

MCSubnets == {{P(0, 2)}, {P(4, 2)}, {P(0, 1)}}
=============================================================================
