---------------------------- MODULE MCBypassLinks ----------------------------
(* Eight addresses, of three bits.  The LAN 4/2 and two prefixes beside it;*)
(* the files differ in what they route: both prefixes (and an entry inside *)
(* one of them), one of them, and the first one inside a broader entry.    *)
EXTENDS BypassLinks

Bits(n) == [b \in 1..Width |-> (n \div 2^(Width - b)) % 2]

P(n, len) == [ip |-> Bits(n), len |-> len]

Lan == P(4, 2)
Near == P(0, 2)
Far == P(6, 2)
Inside == P(1, 3)

MCConfigs == {<<Lan, Near, Inside, Far>>, <<Lan, Far>>, <<Lan, P(0, 1), Near, Far>>}

Option(links, merge, dns, apply) ==
  [links |-> links, merge |-> merge, dns |-> dns, apply |-> apply]

(* --set-link with both prefixes; --add-link of one of them, written with  *)
(* host bits, with the DNS switch or with --no-apply; --no-links; and the  *)
(* DNS switch alone.                                                       *)
MCOptions ==
  LET both == <<[anchor |-> Lan, bypass |-> {Near, Far}]>>
      far == <<[anchor |-> P(5, 2), bypass |-> {P(7, 2)}]>>
  IN  {Option(both, FALSE, None, TRUE), Option(far, TRUE, TRUE, TRUE),
       Option(far, TRUE, None, FALSE), Option(<<>>, FALSE, None, TRUE),
       Option(None, FALSE, TRUE, TRUE)}
=============================================================================
