----------------------------- MODULE LinkRules -----------------------------
(***************************************************************************)
(* Address prefixes (userspace_helper/macos/net.rs) and what a LAN bypass  *)
(* link may say (bypass_links.rs).  A link is [anchor, bypass]: while the  *)
(* Mac is attached to the anchor network, the bypass prefixes stay off the *)
(* tunnel.                                                                 *)
(*                                                                         *)
(* There is one address family: prefixes of two families never compare.    *)
(* An address is its bits, the first one first.  A prefix is [ip, len]; the*)
(* text a user writes may have host bits, so ip need not be the network's  *)
(* base.  The order of bypass prefixes is display only, so they are a set; *)
(* links are a sequence.                                                   *)
(***************************************************************************)
EXTENDS Naturals, Sequences, FiniteSets, SequencesExt

CONSTANTS
  Width,         \* bits of an address
  MaxLinks,      \* MAX_LINKS
  MaxPrefixes    \* MAX_PREFIXES_PER_LINK

ASSUME LinkRulesAssumption ==
  /\ Width \in Nat \ {0} /\ MaxLinks \in Nat \ {0} /\ MaxPrefixes \in Nat \ {0}

Addresses == [1..Width -> {0, 1}]
Networks == [ip : Addresses, len : 0..Width]
Link == [anchor : Networks, bypass : SUBSET Networks]
Links == Seq(Link)

(* macos_network_base.                                                     *)
NetworkBase(ip, len) == [b \in 1..Width |-> IF b <= len THEN ip[b] ELSE 0]

(* IpNet::trunc: the host bits are cleared.                                *)
Trunc(p) == [p EXCEPT !.ip = NetworkBase(p.ip, p.len)]

(* macos_subnet_contains, IpNet::contains: inner is outer or inside it.    *)
SubnetContains(outer, inner) ==
  /\ inner.len >= outer.len
  /\ NetworkBase(inner.ip, outer.len) = NetworkBase(outer.ip, outer.len)

(* 0.0.0.0/0 as it is written in AllowedIPs.                               *)
DefaultRoute == [ip |-> [b \in 1..Width |-> 0], len |-> 0]

(* The host prefix of an address.                                          *)
Host(ip) == [ip |-> ip, len |-> Width]

AddressesOf(p) == {ip \in Addresses : SubnetContains(p, Host(ip))}

(* The elements of a sequence that are in a set, in their order.           *)
Filter(s, S) ==
  LET kept[n \in 0..Len(s)] ==
        IF n = 0 THEN <<>>
        ELSE IF s[n] \in S THEN Append(kept[n - 1], s[n]) ELSE kept[n - 1]
  IN  kept[Len(s)]

-----------------------------------------------------------------------------
(* canonical_link.                                                         *)
CanonicalLink(link) == [anchor |-> Trunc(link.anchor),
                        bypass |-> {Trunc(p) : p \in link.bypass}]

Canonical(links) == [i \in DOMAIN links |-> CanonicalLink(links[i])]

CanonicalSet(allowed) == {Trunc(p) : p \in allowed}

(* check_anchor: an AllowedIPs entry.                                      *)
CheckAnchor(anchor, allowed) == anchor \in allowed

CheckListedOnly(anchor, prefix, allowed) == \* mutant: a covering entry is not looked for
  prefix # anchor /\ prefix \in allowed

(* check_prefix: not the anchor, an AllowedIPs entry, and no other entry   *)
(* (a default route least of all) captures it once its own route is gone.  *)
CheckPrefix(anchor, prefix, allowed) ==
  /\ prefix # anchor
  /\ \A entry \in allowed : entry.len # 0
  /\ \A entry \in allowed : ~(entry.len < prefix.len /\ SubnetContains(entry, prefix))
  /\ prefix \in allowed

CheckLink(link, allowed) ==
  /\ link.bypass # {} /\ Cardinality(link.bypass) <= MaxPrefixes
  /\ CheckAnchor(link.anchor, allowed)
  /\ \A prefix \in link.bypass : CheckPrefix(link.anchor, prefix, allowed)

(* check_links: the canonical links and whether each of them is valid.     *)
CheckLinks(links, allowed) ==
  [i \in DOMAIN links |->
     LET link == CanonicalLink(links[i])
     IN  [link |-> link, valid |-> i <= MaxLinks /\ CheckLink(link, CanonicalSet(allowed))]]

(* validate_links: a connect drops what is not valid ...                   *)
ValidLinks(links, allowed) ==
  LET verdicts == CheckLinks(links, allowed)
      valid == Filter(verdicts, {v \in ToSet(verdicts) : v.valid})
  IN  [i \in DOMAIN valid |-> valid[i].link]

(* ... validate_links_strict: `connection config` refuses it.              *)
AllValid(links, allowed) == \A i \in DOMAIN links : CheckLinks(links, allowed)[i].valid

PrunedWhole(link, allowed) ==              \* mutant: a link goes with its first bad prefix
  IF CheckLink(link, allowed) THEN link.bypass ELSE {}

(* prune_links, for new AllowedIPs: a prefix that is not valid any more    *)
(* goes, and a link whose anchor is not or that has no prefix left.        *)
PrunedBypass(link, allowed) ==
  {p \in link.bypass : CheckAnchor(link.anchor, allowed) /\ CheckPrefix(link.anchor, p, allowed)}

PruneLinks(links, allowed) ==
  LET pruned == [i \in DOMAIN links |->
                   LET link == CanonicalLink(links[i])
                   IN  [link EXCEPT !.bypass = PrunedBypass(link, CanonicalSet(allowed))]]
  IN  Filter(pruned, {link \in ToSet(pruned) : link.bypass # {}})

(* merge_links: an added link joins the stored one with its anchor.        *)
MergeOne(merged, link) ==
  IF \E i \in DOMAIN merged : merged[i].anchor = link.anchor
  THEN [i \in DOMAIN merged |->
          IF /\ merged[i].anchor = link.anchor
             /\ \A j \in 1..(i - 1) : merged[j].anchor # link.anchor
          THEN [merged[i] EXCEPT !.bypass = @ \cup link.bypass] ELSE merged[i]]
  ELSE Append(merged, link)

MergeLinks(stored, added) ==
  LET merged[n \in 0..Len(added)] ==
        IF n = 0 THEN Canonical(stored) ELSE MergeOne(merged[n - 1], CanonicalLink(added[n]))
  IN  merged[Len(added)]

-----------------------------------------------------------------------------
(* macos_allowed_routes: a default route becomes its two halves, which win *)
(* over the default route that is there.                                   *)
AllowedRoutes(allowed) ==
  FlattenSeq([i \in DOMAIN allowed |->
                IF allowed[i] = DefaultRoute
                THEN <<[DefaultRoute EXCEPT !.len = 1], [DefaultRoute EXCEPT !.len = 1, !.ip[1] = 1]>>
                ELSE <<allowed[i]>>])

(* macos_route_excluded_by_local_subnet: never take over a LAN we are on.  *)
InLocalSubnet(dest, subnets) == \E subnet \in subnets : SubnetContains(subnet, Trunc(dest))

(* macos_route_excluded_by_link.                                           *)
ExcludedByLink(dest, subnets, links) ==
  \E i \in DOMAIN links :
     /\ \E prefix \in links[i].bypass : SubnetContains(prefix, Trunc(dest))
     /\ \E subnet \in subnets : SubnetContains(subnet, links[i].anchor)

(* What macos_desired_routes leaves to the tunnel.                         *)
Tunnelled(dest, subnets, links) ==
  ~InLocalSubnet(dest, subnets) /\ ~ExcludedByLink(dest, subnets, links)
=============================================================================
