----------------------- MODULE LinksAndRoutes_proofs -----------------------
(***************************************************************************)
(* Theorems about BypassLinks for addresses of any width, any AllowedIPs   *)
(* and links, any number of connections and commands; theorems about Routes*)
(* and RouteOverview for any configurations, networks and gateways, any    *)
(* number of moves and failures; and the lemmas about the operators of     *)
(* LinkRules that both rest on.                                            *)
(*                                                                         *)
(* The first part derives induction over the numbers, as a statement about *)
(* sets, from their well-foundedness, and from it that a recursive function*)
(* exists: so the filters and merges of LinkRules can be reasoned about.   *)
(* The second is about BypassLinks, the third about Routes.                *)
(***************************************************************************)
EXTENDS BypassLinks, RouteOverview, FiniteSetTheorems, SequenceTheorems, TLAPS

-----------------------------------------------------------------------------
(***************************************************************************)
(* Induction over the numbers, and what it says of recursive functions.    *)
(***************************************************************************)
LEMMA LeastMember ==
  ASSUME NEW T \in SUBSET Nat, T # {}
  PROVE  \E m \in T : \A k \in T : m <= k
<1> DEFINE R == OpToRel(<, Nat)
<1>1. IsWellFoundedOn(R, Nat)
  BY NatLessThanWellFounded
<1>2. \A x, y \in Nat : <<y, x>> \in R <=> y < x
  BY DEF OpToRel
<1> HIDE DEF R
<1>3. PICK m \in T : \A k \in T : ~(<<k, m>> \in R)
  BY <1>1, WFMin
<1>4. ASSUME NEW k \in T PROVE m <= k
  <2>1. m \in Nat /\ k \in Nat /\ ~(<<k, m>> \in R)
    BY <1>3
  <2>2. ~(k < m)
    BY <2>1, <1>2
  <2> QED BY <2>1, <2>2
<1> QED BY <1>4

(* A set that has 0, and with each number the next one.                    *)
LEMMA Induction ==
  ASSUME NEW H \in SUBSET Nat, 0 \in H, \A n \in H : n + 1 \in H
  PROVE  \A n \in Nat : n \in H
<1>1. SUFFICES ASSUME Nat \ H # {} PROVE FALSE
  OBVIOUS
<1>2. PICK m \in Nat \ H : \A k \in Nat \ H : m <= k
  BY <1>1, LeastMember
<1>3. m # 0 /\ m - 1 \in Nat /\ m - 1 \in H
  BY <1>2
<1>4. (m - 1) + 1 \in H
  BY <1>3
<1> QED BY <1>2, <1>4

Steps(S, N) == [1..N -> [S -> S]]
IsRun(f, a, S, N, step) == /\ f \in [0..N -> S] /\ f[0] = a
                           /\ \A n \in 1..N : f[n] = step[n][f[n - 1]]

(* Steps that stay in a set have their results in it.                      *)
LEMMA Recursion ==
  ASSUME NEW S, NEW a \in S, NEW N \in Nat, NEW step \in Steps(S, N)
  PROVE  \E f : IsRun(f, a, S, N, step)
<1> USE DEF Steps
<1> DEFINE Good(n, f) == f[0] = a /\ \A k \in 1..n : f[k] = step[k][f[k - 1]]
           H == {n \in Nat : n <= N => \E f \in [0..n -> S] : Good(n, f)}
<1>1. 0 \in H
  <2>1. [k \in 0..0 |-> a] \in [0..0 -> S]
    OBVIOUS
  <2>2. Good(0, [k \in 0..0 |-> a])
    OBVIOUS
  <2> QED BY <2>1, <2>2
<1>2. ASSUME NEW n \in H PROVE n + 1 \in H
  <2>0. n \in Nat /\ n + 1 \in Nat
    OBVIOUS
  <2>1. CASE ~(n + 1 <= N)
    BY <2>0, <2>1
  <2>2. CASE n + 1 <= N
    <3>1. PICK f \in [0..n -> S] : Good(n, f)
      BY <2>0, <2>2
    <3> DEFINE g == [k \in 0..(n + 1) |-> IF k = n + 1 THEN step[n + 1][f[n]] ELSE f[k]]
    <3>2. n + 1 \in 1..N /\ f[n] \in S /\ step[n + 1][f[n]] \in S
      BY <2>0, <2>2
    <3>3. g \in [0..(n + 1) -> S]
      BY <2>0, <3>2
    <3>4. ASSUME NEW k \in 1..(n + 1)
          PROVE  g[k] = step[k][g[k - 1]]
      <4>1. CASE k = n + 1
        <5>1. k - 1 = n /\ k - 1 \in 0..(n + 1) /\ k - 1 # n + 1
          BY <4>1, <2>0
        <5> QED BY <5>1, <4>1
      <4>2. CASE k # n + 1
        <5>1. k \in 1..n /\ k \in 0..(n + 1) /\ k - 1 # n + 1 /\ k - 1 \in 0..(n + 1)
          BY <4>2, <2>0
        <5> QED BY <5>1, <3>1, <4>2
      <4> QED BY <4>1, <4>2
    <3>5. Good(n + 1, g)
      <4>1. g[0] = a
        BY <3>1, <2>0
      <4> QED BY <3>4, <4>1
    <3> HIDE DEF g, Good
    <3>6. \E h \in [0..(n + 1) -> S] : Good(n + 1, h)
      BY <3>3, <3>5
    <3> QED BY <3>6, <2>0
  <2> QED BY <2>1, <2>2
<1> HIDE DEF H
<1>3. H \in SUBSET Nat
  BY DEF H
<1>4. N \in H
  BY <1>1, <1>2, <1>3, Induction
<1> QED BY <1>4 DEF H, IsRun

-----------------------------------------------------------------------------
(***************************************************************************)
(* Sequences: the elements of a filtered, a flattened, a merged one.       *)
(***************************************************************************)
Kept(t, x, S) == IF x \in S THEN Append(t, x) ELSE t

LEMMA FilterSteps ==
  ASSUME NEW X, NEW s \in Seq(X), NEW S
  PROVE  \E f \in [0..Len(s) -> Seq(X)] :
           /\ f[0] = <<>>
           /\ \A n \in 1..Len(s) : f[n] = Kept(f[n - 1], s[n], S)
           /\ Filter(s, S) = f[Len(s)]
<1>a. PICK N : N = Len(s)
  OBVIOUS
<1>b. PICK Q : Q = Seq(X)
  OBVIOUS
<1> DEFINE Def(f) == [n \in 0..N |-> IF n = 0 THEN <<>> ELSE Kept(f[n - 1], s[n], S)]
           F == CHOOSE f : f = Def(f)
<1>0. N \in Nat
  BY <1>a
<1>1. N \in Nat /\ <<>> \in Q
  BY <1>a, <1>b
<1>2. \A n \in 1..N : \A t \in Q : Kept(t, s[n], S) \in Q
  BY <1>a, <1>b DEF Kept
<1>3. Filter(s, S) = F[N]
  BY <1>a DEF Filter, Kept
<1>4. PICK step \in [1..N -> [Q -> Q]] : \A n \in 1..N : \A t \in Q : step[n][t] = Kept(t, s[n], S)
  <2> DEFINE w == [n \in 1..N |-> [t \in Q |-> Kept(t, s[n], S)]]
  <2>1. w \in [1..N -> [Q -> Q]]
    BY <1>2
  <2>2. \A n \in 1..N : \A t \in Q : w[n][t] = Kept(t, s[n], S)
    OBVIOUS
  <2> QED BY <2>1, <2>2
<1> HIDE DEF F
<1>6. PICK f \in [0..N -> Q] : f[0] = <<>> /\ \A n \in 1..N : f[n] = step[n][f[n - 1]]
  <2>1. step \in Steps(Q, N)
    BY DEF Steps
  <2>2. PICK f : IsRun(f, <<>>, Q, N, step)
    BY <1>1, <2>1, Recursion, Zenon
  <2> QED BY <2>2 DEF IsRun
<1>7. \A n \in 1..N : f[n] = Kept(f[n - 1], s[n], S)
  <2>1. \A n \in 1..N : n - 1 \in 0..N /\ f[n - 1] \in Q
    BY <1>1
  <2> QED BY <1>6, <1>4, <2>1
<1>8. f = Def(f)
  <2>1. ASSUME NEW n \in 0..N PROVE f[n] = Def(f)[n]
    <3>1. n = 0 \/ n \in 1..N
      BY <1>1
    <3> QED BY <1>6, <1>7, <3>1
  <2>2. DOMAIN f = 0..N /\ DOMAIN Def(f) = 0..N
    OBVIOUS
  <2>3. f = [n \in 0..N |-> f[n]]
    OBVIOUS
  <2> QED BY <2>1, <2>3
<1>9. F = Def(F)
  <2> HIDE DEF Def
  <2> QED BY <1>8, Zenon DEF F
<1>10. \A n \in 0..N : F[n] = f[n]
  <2>0. ASSUME NEW n \in 0..N PROVE F[n] = IF n = 0 THEN <<>> ELSE Kept(F[n - 1], s[n], S)
    BY <1>9
  <2> DEFINE H == {n \in Nat : n <= N => F[n] = f[n]}
  <2>1. 0 \in H
    BY <1>1, <1>6, <2>0
  <2>2. ASSUME NEW n \in H PROVE n + 1 \in H
    <3>1. CASE n + 1 <= N
      <4>1. n \in Nat /\ n + 1 \in 1..N /\ n + 1 \in 0..N /\ (n + 1) - 1 = n /\ F[n] = f[n] /\ n + 1 # 0
        BY <3>1, <1>1
      <4>2. F[n + 1] = Kept(F[n], s[n + 1], S)
        BY <2>0, <4>1
      <4>3. f[n + 1] = Kept(f[n], s[n + 1], S)
        BY <1>7, <4>1
      <4> QED BY <4>1, <4>2, <4>3
    <3> QED BY <3>1, <1>1
  <2>3. H \in SUBSET Nat
    OBVIOUS
  <2> HIDE DEF H
  <2>4. \A n \in Nat : n \in H
    BY <2>1, <2>2, <2>3, Induction
  <2> QED BY <2>4, <1>1 DEF H
<1>11. Filter(s, S) = f[N]
  BY <1>1, <1>3, <1>10
<1> QED BY <1>6, <1>7, <1>11, <1>a, <1>b

(* t has the elements of s that are in S.                                  *)
IsFiltered(t, s, S) ==
  /\ Len(t) <= Len(s)
  /\ \A k \in DOMAIN t : t[k] \in S /\ \E i \in DOMAIN s : s[i] = t[k]
  /\ \A i \in DOMAIN s : s[i] \in S => \E k \in DOMAIN t : t[k] = s[i]

LEMMA FilterFacts ==
  ASSUME NEW X, NEW s \in Seq(X), NEW S
  PROVE  Filter(s, S) \in Seq(X) /\ IsFiltered(Filter(s, S), s, S)
<1>1. PICK f \in [0..Len(s) -> Seq(X)] :
        /\ f[0] = <<>>
        /\ \A n \in 1..Len(s) : f[n] = Kept(f[n - 1], s[n], S)
        /\ Filter(s, S) = f[Len(s)]
  BY FilterSteps
<1> DEFINE Good(n) ==
             /\ Len(f[n]) <= n
             /\ \A k \in DOMAIN f[n] : f[n][k] \in S /\ \E i \in 1..n : s[i] = f[n][k]
             /\ \A i \in 1..n : s[i] \in S => \E k \in DOMAIN f[n] : f[n][k] = s[i]
           H == {n \in Nat : n <= Len(s) => Good(n)}
<1>2. 0 \in H
  BY <1>1
<1>3. ASSUME NEW n \in H PROVE n + 1 \in H
  <2>1. SUFFICES ASSUME n + 1 <= Len(s) PROVE Good(n + 1)
    OBVIOUS
  <2>2. /\ n \in Nat /\ n + 1 \in 1..Len(s) /\ n \in 0..Len(s) /\ (n + 1) - 1 = n
        /\ Good(n) /\ f[n] \in Seq(X) /\ s[n + 1] \in X
    BY <2>1
  <2>3. f[n + 1] = Kept(f[n], s[n + 1], S)
    BY <1>1, <2>2
  <2>4. CASE s[n + 1] \notin S
    <3>1. f[n + 1] = f[n]
      BY <2>3, <2>4 DEF Kept
    <3> QED BY <3>1, <2>2, <2>4
  <2>5. CASE s[n + 1] \in S
    <3>1. f[n + 1] = Append(f[n], s[n + 1])
      BY <2>3, <2>5 DEF Kept
    <3>2. /\ Len(f[n + 1]) = Len(f[n]) + 1 /\ DOMAIN f[n + 1] = 1..(Len(f[n]) + 1)
          /\ DOMAIN f[n] = 1..Len(f[n]) /\ Len(f[n]) \in Nat
          /\ f[n + 1][Len(f[n]) + 1] = s[n + 1]
          /\ \A k \in DOMAIN f[n] : f[n + 1][k] = f[n][k]
      BY <3>1, <2>2
    <3>3. ASSUME NEW k \in DOMAIN f[n + 1]
          PROVE  f[n + 1][k] \in S /\ \E i \in 1..(n + 1) : s[i] = f[n + 1][k]
      <4>1. CASE k \in DOMAIN f[n]
        BY <4>1, <3>2, <2>2
      <4>2. CASE k = Len(f[n]) + 1
        BY <4>2, <3>2, <2>2, <2>5
      <4> QED BY <4>1, <4>2, <3>2
    <3>4. ASSUME NEW i \in 1..(n + 1), s[i] \in S
          PROVE  \E k \in DOMAIN f[n + 1] : f[n + 1][k] = s[i]
      <4>1. CASE i \in 1..n
        <5>1. PICK k \in DOMAIN f[n] : f[n][k] = s[i]
          BY <4>1, <3>4, <2>2
        <5>2. k \in DOMAIN f[n + 1]
          BY <3>2
        <5> QED BY <5>1, <5>2, <3>2
      <4>2. CASE i = n + 1
        BY <4>2, <3>2
      <4> QED BY <4>1, <4>2, <2>2
    <3>5. Len(f[n + 1]) <= n + 1
      BY <3>2, <2>2
    <3> QED BY <3>3, <3>4, <3>5
  <2> QED BY <2>4, <2>5
<1> HIDE DEF H
<1>4. Len(s) \in H
  <2>1. H \in SUBSET Nat /\ Len(s) \in Nat
    BY DEF H
  <2> QED BY <1>2, <1>3, <2>1, Induction
<1>5. Good(Len(s)) /\ f[Len(s)] \in Seq(X)
  <2>1. Len(s) \in Nat /\ Len(s) <= Len(s)
    OBVIOUS
  <2> HIDE DEF Good
  <2> QED BY <1>4, <2>1 DEF H
<1>6. DOMAIN s = 1..Len(s)
  OBVIOUS
<1> QED BY <1>1, <1>5, <1>6 DEF IsFiltered

(* Sequences of one element each, one after the other.                     *)
LEMMA FlattenSingles ==
  ASSUME NEW X, NEW s \in Seq(X)
  PROVE  FlattenSeq([i \in DOMAIN s |-> <<s[i]>>]) = s
<1> DEFINE N == Len(s)
           seqs == [i \in DOMAIN s |-> <<s[i]>>]
           Def(f) == [i \in 1..N |-> IF i = 1 THEN seqs[i] ELSE f[i - 1] \o seqs[i]]
           F == CHOOSE f : f = Def(f)
           f == [i \in 1..N |-> SubSeq(s, 1, i)]
<1>1. N \in Nat /\ DOMAIN s = 1..N /\ Len(seqs) = N
  <2>1. seqs \in [1..N -> Seq(X)]
    OBVIOUS
  <2>2. seqs \in Seq(Seq(X)) /\ Len(seqs) = N
    BY <2>1
  <2> QED BY <2>2
<1>2. ASSUME NEW i \in 1..N
      PROVE  SubSeq(s, 1, i) = IF i = 1 THEN <<s[i]>> ELSE SubSeq(s, 1, i - 1) \o <<s[i]>>
  <2>1. 1 \in 1..Len(s) /\ i \in 1..Len(s)
    BY <1>1
  <2>2. SubSeq(s, 1, i) = SubSeq(s, 1, i - 1) \o <<s[i]>>
    BY <2>1, SubSeqRecursiveSecond
  <2>3. <<>> \o <<s[i]>> = <<s[i]>>
    <3>1. <<s[i]>> \in Seq(X)
      BY <2>1
    <3> QED BY <3>1, ConcatEmptySeq
  <2>4. CASE i = 1
    <3>1. i - 1 \in Int /\ i - 1 < 1
      BY <2>4
    <3>2. SubSeq(s, 1, i - 1) = <<>>
      BY <3>1, SubSeqEmpty
    <3> QED BY <3>2, <2>2, <2>3, <2>4, Zenon
  <2> QED BY <2>2, <2>4
<1>3. f = Def(f)
  <2>1. ASSUME NEW i \in 1..N PROVE f[i] = IF i = 1 THEN seqs[i] ELSE f[i - 1] \o seqs[i]
    <3>1. i = 1 \/ i - 1 \in 1..N
      BY <1>1
    <3> QED BY <3>1, <1>2, <1>1
  <2> HIDE DEF seqs
  <2> QED BY <2>1
<1>4. F = Def(F)
  <2> HIDE DEF Def
  <2> QED BY <1>3, Zenon DEF F
<1> HIDE DEF F
<1>5. \A i \in 1..N : F[i] = f[i]
  <2>0. ASSUME NEW i \in 1..N PROVE F[i] = IF i = 1 THEN seqs[i] ELSE F[i - 1] \o seqs[i]
    <3> HIDE DEF seqs
    <3> QED BY <1>4
  <2>00. ASSUME NEW i \in 1..N PROVE f[i] = IF i = 1 THEN seqs[i] ELSE f[i - 1] \o seqs[i]
    <3> HIDE DEF seqs
    <3> QED BY <1>3
  <2> HIDE DEF f, seqs
  <2> DEFINE H == {n \in Nat : n \in 1..N => F[n] = f[n]}
  <2>1. 0 \in H
    BY <1>1
  <2>2. ASSUME NEW n \in H PROVE n + 1 \in H
    <3>1. CASE n + 1 \in 1..N
      <4>1. CASE n = 0
        BY <2>0, <2>00, <3>1, <4>1
      <4>2. CASE n # 0
        <5>1. n \in Nat /\ n \in 1..N /\ F[n] = f[n] /\ (n + 1) - 1 = n /\ n + 1 # 1
          BY <3>1, <4>2, <1>1
        <5> QED BY <2>0, <2>00, <3>1, <5>1
      <4> QED BY <4>1, <4>2
    <3> QED BY <3>1
  <2>3. H \in SUBSET Nat
    OBVIOUS
  <2> HIDE DEF H
  <2>4. \A n \in Nat : n \in H
    BY <2>1, <2>2, <2>3, Induction
  <2> QED BY <2>4, <1>1 DEF H
<1>6. FlattenSeq(seqs) = IF N = 0 THEN seqs ELSE F[N]
  BY <1>1 DEF FlattenSeq, F
<1>7. CASE N = 0
  BY <1>7, <1>6, <1>1
<1>8. CASE N # 0
  <2>1. N \in 1..N /\ SubSeq(s, 1, N) = s
    BY <1>8, <1>1
  <2> QED BY <2>1, <1>5, <1>6, <1>8
<1> QED BY <1>7, <1>8

-----------------------------------------------------------------------------
(***************************************************************************)
(* Prefixes: cleared host bits, and which of two prefixes has the other.   *)
(***************************************************************************)
LEMMA BaseBits ==
  ASSUME NEW ip \in Addresses, NEW len \in 0..Width
  PROVE  /\ NetworkBase(ip, len) \in Addresses
         /\ \A b \in 1..Width : NetworkBase(ip, len)[b] = IF b <= len THEN ip[b] ELSE 0
<1>1. \A b \in 1..Width : ip[b] \in {0, 1}
  BY DEF Addresses
<1> QED BY <1>1 DEF NetworkBase, Addresses

LEMMA BaseOfBase ==
  ASSUME NEW ip \in Addresses, NEW m \in 0..Width, NEW n \in 0..Width, n <= m
  PROVE  NetworkBase(NetworkBase(ip, m), n) = NetworkBase(ip, n)
<1>1. NetworkBase(ip, m) \in Addresses
  BY BaseBits
<1>2. \A b \in 1..Width : b <= n => b <= m
  BY LinkRulesAssumption
<1>3. \A b \in 1..Width : (IF b <= n THEN NetworkBase(ip, m)[b] ELSE 0)
                            = (IF b <= n THEN ip[b] ELSE 0)
  BY <1>2, BaseBits
<1> QED BY <1>3 DEF NetworkBase

LEMMA TruncFacts ==
  ASSUME NEW p \in Networks
  PROVE  /\ Trunc(p) \in Networks /\ Trunc(p).len = p.len
         /\ Trunc(p).ip = NetworkBase(p.ip, p.len) /\ Trunc(Trunc(p)) = Trunc(p)
<1>1. p.ip \in Addresses /\ p.len \in 0..Width
  BY DEF Networks
<1>2. NetworkBase(p.ip, p.len) \in Addresses
  BY <1>1, BaseBits
<1>3. Trunc(p) \in Networks /\ Trunc(p).len = p.len /\ Trunc(p).ip = NetworkBase(p.ip, p.len)
  BY <1>1, <1>2 DEF Trunc, Networks
<1>4. NetworkBase(NetworkBase(p.ip, p.len), p.len) = NetworkBase(p.ip, p.len)
  <2>1. p.len <= p.len
    BY <1>1, LinkRulesAssumption
  <2> QED BY <1>1, <2>1, BaseOfBase
<1>5. Trunc(Trunc(p)) = Trunc(p)
  <2>1. Trunc(Trunc(p)) = [Trunc(p) EXCEPT !.ip = NetworkBase(Trunc(p).ip, Trunc(p).len)]
    BY DEF Trunc
  <2>2. NetworkBase(Trunc(p).ip, Trunc(p).len) = Trunc(p).ip
    BY <1>3, <1>4
  <2>3. [Trunc(p) EXCEPT !.ip = Trunc(p).ip] = Trunc(p)
    BY <1>3 DEF Networks
  <2> QED BY <2>1, <2>2, <2>3
<1> QED BY <1>3, <1>5

(* One prefix contains another when its bits are the first of the other's. *)
LEMMA ContainsBits ==
  ASSUME NEW p \in Networks, NEW q \in Networks
  PROVE  SubnetContains(p, q)
           <=> q.len >= p.len /\ \A b \in 1..Width : b <= p.len => q.ip[b] = p.ip[b]
<1>1. /\ p.ip \in Addresses /\ p.len \in 0..Width /\ q.ip \in Addresses /\ q.len \in 0..Width
  BY DEF Networks
<1>2. NetworkBase(q.ip, p.len) = NetworkBase(p.ip, p.len)
        <=> \A b \in 1..Width : b <= p.len => q.ip[b] = p.ip[b]
  <2>1. ASSUME NetworkBase(q.ip, p.len) = NetworkBase(p.ip, p.len)
        PROVE  \A b \in 1..Width : b <= p.len => q.ip[b] = p.ip[b]
    BY <1>1, <2>1, BaseBits
  <2>2. ASSUME \A b \in 1..Width : b <= p.len => q.ip[b] = p.ip[b]
        PROVE  NetworkBase(q.ip, p.len) = NetworkBase(p.ip, p.len)
    <3>1. \A b \in 1..Width : (IF b <= p.len THEN q.ip[b] ELSE 0) = (IF b <= p.len THEN p.ip[b] ELSE 0)
      BY <2>2
    <3> QED BY <3>1 DEF NetworkBase
  <2> QED BY <2>1, <2>2
<1> QED BY <1>2 DEF SubnetContains

(* Host bits do not matter.                                                *)
LEMMA ContainsTrunc ==
  ASSUME NEW p \in Networks, NEW q \in Networks
  PROVE  /\ SubnetContains(Trunc(p), q) <=> SubnetContains(p, q)
         /\ SubnetContains(p, Trunc(q)) <=> SubnetContains(p, q)
<1>1. /\ p.ip \in Addresses /\ p.len \in 0..Width /\ q.ip \in Addresses /\ q.len \in 0..Width
      /\ Trunc(p) \in Networks /\ Trunc(q) \in Networks
      /\ Trunc(p).len = p.len /\ Trunc(q).len = q.len
      /\ Trunc(p).ip = NetworkBase(p.ip, p.len) /\ Trunc(q).ip = NetworkBase(q.ip, q.len)
  BY TruncFacts DEF Networks
<1>2. /\ \A b \in 1..Width : b <= p.len => Trunc(p).ip[b] = p.ip[b]
      /\ \A b \in 1..Width : b <= q.len => Trunc(q).ip[b] = q.ip[b]
  BY <1>1, BaseBits
<1>3. SubnetContains(Trunc(p), q) <=> SubnetContains(p, q)
  BY <1>1, <1>2, ContainsBits
<1>4. SubnetContains(p, Trunc(q)) <=> SubnetContains(p, q)
  <2>1. q.len >= p.len => \A b \in 1..Width : b <= p.len => b <= q.len
    BY <1>1, LinkRulesAssumption
  <2> QED BY <1>1, <1>2, <2>1, ContainsBits
<1> QED BY <1>3, <1>4

(* Of two prefixes that share an address the shorter one contains the      *)
(* other.                                                                  *)
LEMMA SharedAddress ==
  ASSUME NEW p \in Networks, NEW q \in Networks, NEW r \in Networks,
         SubnetContains(p, r), SubnetContains(q, r), p.len <= q.len
  PROVE  SubnetContains(p, q)
<1>1. p.len \in 0..Width /\ q.len \in 0..Width
  BY DEF Networks
<1>2. /\ \A b \in 1..Width : b <= p.len => r.ip[b] = p.ip[b]
      /\ \A b \in 1..Width : b <= q.len => r.ip[b] = q.ip[b]
  BY ContainsBits
<1>3. \A b \in 1..Width : b <= p.len => q.ip[b] = p.ip[b]
  <2>1. \A b \in 1..Width : b <= p.len => b <= q.len
    BY <1>1, LinkRulesAssumption
  <2> QED BY <1>2, <2>1
<1> QED BY <1>1, <1>3, ContainsBits

LEMMA DefaultContainsAll ==
  /\ DefaultRoute \in Networks /\ DefaultRoute.len = 0
  /\ \A p \in Networks : SubnetContains(DefaultRoute, p) /\ SubnetContains(p, p)
<1>1. DefaultRoute \in Networks /\ DefaultRoute.len = 0
  BY LinkRulesAssumption DEF DefaultRoute, Networks, Addresses
<1>2. ASSUME NEW p \in Networks
      PROVE  SubnetContains(DefaultRoute, p) /\ SubnetContains(p, p)
  <2>1. p.len \in 0..Width
    BY DEF Networks
  <2> QED BY <1>1, <2>1, ContainsBits
<1> QED BY <1>1, <1>2

(* There are finitely many prefixes.                                       *)
LEMMA NetworksFinite == IsFiniteSet(Networks)
<1>0. IsFiniteSet(1..Width) /\ IsFiniteSet(0..Width)
  BY LinkRulesAssumption, FS_Interval
<1>1. IsFiniteSet(SUBSET (1..Width))
  BY <1>0, FS_SUBSET, Zenon
<1> DEFINE bits == [z \in SUBSET (1..Width) |-> [b \in 1..Width |-> IF b \in z THEN 1 ELSE 0]]
<1>2. bits \in Surjection(SUBSET (1..Width), Addresses)
  <2>1. bits \in [SUBSET (1..Width) -> Addresses]
    BY DEF Addresses
  <2>2. ASSUME NEW ip \in Addresses PROVE \E z \in SUBSET (1..Width) : bits[z] = ip
    <3> DEFINE z == {b \in 1..Width : ip[b] = 1}
    <3>1. \A b \in 1..Width : (IF b \in z THEN 1 ELSE 0) = ip[b]
      BY DEF Addresses
    <3>2. bits[z] = ip
      BY <3>1 DEF Addresses
    <3> QED BY <3>2
  <2> HIDE DEF bits
  <2> QED BY <2>1, <2>2 DEF Surjection
<1> HIDE DEF bits
<1>3. IsFiniteSet(Addresses)
  BY <1>1, <1>2, FS_Surjection
<1>4. IsFiniteSet(Addresses \X (0..Width))
  BY <1>3, <1>0, FS_Product, Zenon
<1> DEFINE net == [x \in Addresses \X (0..Width) |-> [ip |-> x[1], len |-> x[2]]]
<1>5. net \in Surjection(Addresses \X (0..Width), Networks)
  <2>1. net \in [Addresses \X (0..Width) -> Networks]
    BY DEF Networks
  <2>2. ASSUME NEW p \in Networks
        PROVE  \E x \in Addresses \X (0..Width) : net[x] = p
    <3>1. p.ip \in Addresses /\ p.len \in 0..Width /\ p = [ip |-> p.ip, len |-> p.len]
      BY DEF Networks
    <3>2. <<p.ip, p.len>> \in Addresses \X (0..Width) /\ net[<<p.ip, p.len>>] = p
      BY <3>1
    <3> QED BY <3>2
  <2> HIDE DEF net
  <2> QED BY <2>1, <2>2 DEF Surjection
<1> HIDE DEF net
<1> QED BY <1>4, <1>5, FS_Surjection

-----------------------------------------------------------------------------
(***************************************************************************)
(* Links.                                                                  *)
(***************************************************************************)
LEMMA LinksAre ==
  ASSUME NEW links \in Links
  PROVE  /\ links \in Seq(Link) /\ DOMAIN links = 1..Len(links) /\ Len(links) \in Nat
         /\ \A i \in DOMAIN links : links[i] \in Link
BY DEF Links

LEMMA CanonicalLinkFacts ==
  ASSUME NEW link \in Link
  PROVE  /\ CanonicalLink(link) \in Link
         /\ CanonicalLink(CanonicalLink(link)) = CanonicalLink(link)
         /\ CanonicalLink(link).anchor = Trunc(link.anchor)
         /\ CanonicalLink(link).bypass = {Trunc(p) : p \in link.bypass}
<1>1. link.anchor \in Networks /\ link.bypass \subseteq Networks
  BY DEF Link
<1>2. CanonicalLink(link) \in Link
  BY <1>1, TruncFacts DEF Link, CanonicalLink
<1>3. Trunc(Trunc(link.anchor)) = Trunc(link.anchor)
  BY <1>1, TruncFacts
<1>4. {Trunc(p) : p \in {Trunc(q) : q \in link.bypass}} = {Trunc(q) : q \in link.bypass}
  <2>1. \A q \in link.bypass : Trunc(Trunc(q)) = Trunc(q)
    BY <1>1, TruncFacts
  <2> QED BY <2>1
<1> QED BY <1>2, <1>3, <1>4 DEF CanonicalLink

(* What a canonical link says is without host bits.                        *)
LEMMA CanonicalPrefixes ==
  ASSUME NEW link \in Link, CanonicalLink(link) = link
  PROVE  Trunc(link.anchor) = link.anchor /\ \A p \in link.bypass : Trunc(p) = p
<1>1. /\ link.anchor = Trunc(link.anchor) /\ link.bypass = {Trunc(p) : p \in link.bypass}
  BY CanonicalLinkFacts, Zenon
<1>2. ASSUME NEW p \in link.bypass PROVE Trunc(p) = p
  <2>1. PICK q \in link.bypass : p = Trunc(q)
    BY <1>1, Zenon
  <2>2. q \in Networks
    BY DEF Link
  <2> QED BY <2>1, <2>2, TruncFacts, Zenon
<1> QED BY <1>1, <1>2, Zenon

LEMMA CanonicalFacts ==
  ASSUME NEW links \in Links
  PROVE  /\ Canonical(links) \in Links /\ Len(Canonical(links)) = Len(links)
         /\ DOMAIN Canonical(links) = DOMAIN links
         /\ \A i \in DOMAIN links : Canonical(links)[i] = CanonicalLink(links[i])
         /\ Canonical(Canonical(links)) = Canonical(links)
<1>1. /\ links \in Seq(Link) /\ DOMAIN links = 1..Len(links) /\ Len(links) \in Nat
      /\ \A i \in DOMAIN links : links[i] \in Link
  BY LinksAre
<1>2. \A i \in DOMAIN links : /\ CanonicalLink(links[i]) \in Link
                              /\ CanonicalLink(CanonicalLink(links[i])) = CanonicalLink(links[i])
  BY <1>1, CanonicalLinkFacts
<1>3. /\ DOMAIN Canonical(links) = DOMAIN links
      /\ \A i \in DOMAIN links : Canonical(links)[i] = CanonicalLink(links[i])
  BY DEF Canonical
<1>4. Canonical(links) \in Seq(Link) /\ Len(Canonical(links)) = Len(links)
  <2>1. Canonical(links) \in [1..Len(links) -> Link]
    BY <1>1, <1>2 DEF Canonical
  <2> QED BY <2>1, <1>1
<1>5. Canonical(Canonical(links)) = Canonical(links)
  BY <1>2, <1>3 DEF Canonical
<1> QED BY <1>3, <1>4, <1>5 DEF Links

(* Valid links: not too many, and each of them by itself.                  *)
LEMMA AllValidMeans ==
  ASSUME NEW links \in Links, NEW allowed
  PROVE  AllValid(links, allowed)
           <=> /\ Len(links) <= MaxLinks
               /\ \A i \in DOMAIN links :
                    CheckLink(CanonicalLink(links[i]), CanonicalSet(allowed))
<1>1. DOMAIN links = 1..Len(links) /\ Len(links) \in Nat
  BY DEF Links
<1>2. AllValid(links, allowed)
        <=> \A i \in DOMAIN links : i <= MaxLinks
                                    /\ CheckLink(CanonicalLink(links[i]), CanonicalSet(allowed))
  BY DEF AllValid, CheckLinks
<1>3. Len(links) <= MaxLinks <=> \A i \in DOMAIN links : i <= MaxLinks
  BY <1>1, LinkRulesAssumption
<1> QED BY <1>2, <1>3

LEMMA CanonicalValid ==
  ASSUME NEW links \in Links, NEW allowed
  PROVE  AllValid(Canonical(links), allowed) <=> AllValid(links, allowed)
<1>1. \A i \in DOMAIN links : links[i] \in Link
  BY LinksAre
<1>2. \A i \in DOMAIN links : CanonicalLink(Canonical(links)[i]) = CanonicalLink(links[i])
  BY <1>1, CanonicalLinkFacts, CanonicalFacts
<1> QED BY <1>2, CanonicalFacts, AllValidMeans

-----------------------------------------------------------------------------
(* What prune_links leaves.                                                *)
Pruned(link, allowed) ==
  [CanonicalLink(link) EXCEPT !.bypass = PrunedBypass(CanonicalLink(link), CanonicalSet(allowed))]

LEMMA PrunedFacts ==
  ASSUME NEW link \in Link, NEW allowed
  PROVE  /\ Pruned(link, allowed) \in Link
         /\ Pruned(link, allowed).anchor = Trunc(link.anchor)
         /\ Pruned(link, allowed).bypass
              = {p \in CanonicalLink(link).bypass :
                   /\ CheckAnchor(Trunc(link.anchor), CanonicalSet(allowed))
                   /\ CheckPrefix(Trunc(link.anchor), p, CanonicalSet(allowed))}
         /\ CanonicalLink(Pruned(link, allowed)) = Pruned(link, allowed)
<1> DEFINE c == CanonicalLink(link)
<1>1. /\ c \in Link /\ c.anchor = Trunc(link.anchor) /\ c.bypass \subseteq Networks
      /\ CanonicalLink(c) = c
  BY CanonicalLinkFacts DEF Link
<1>2. \A p \in c.bypass : Trunc(p) = p
  BY <1>1, CanonicalPrefixes, Zenon
<1> DEFINE B == PrunedBypass(c, CanonicalSet(allowed))
<1>3. B = {p \in c.bypass : /\ CheckAnchor(Trunc(link.anchor), CanonicalSet(allowed))
                            /\ CheckPrefix(Trunc(link.anchor), p, CanonicalSet(allowed))}
  BY <1>1 DEF PrunedBypass
<1>4. Pruned(link, allowed) = [c EXCEPT !.bypass = B]
  BY DEF Pruned
<1>5. B \subseteq c.bypass
  BY <1>3
<1> HIDE DEF c, B
<1>6. /\ Pruned(link, allowed) \in Link /\ Pruned(link, allowed).anchor = Trunc(link.anchor)
      /\ Pruned(link, allowed).bypass = B
      /\ Pruned(link, allowed) = [anchor |-> Trunc(link.anchor), bypass |-> B]
  BY <1>1, <1>4, <1>5 DEF Link
<1>7. {Trunc(p) : p \in B} = B
  BY <1>2, <1>5
<1>8. Trunc(Trunc(link.anchor)) = Trunc(link.anchor)
  BY TruncFacts DEF Link
<1>9. CanonicalLink(Pruned(link, allowed)) = Pruned(link, allowed)
  BY <1>6, <1>7, <1>8 DEF CanonicalLink
<1> QED BY <1>3, <1>6, <1>9 DEF c

LEMMA PruneFacts ==
  ASSUME NEW links \in Links, NEW allowed
  PROVE  /\ PruneLinks(links, allowed) \in Links /\ Len(PruneLinks(links, allowed)) <= Len(links)
         /\ \A k \in DOMAIN PruneLinks(links, allowed) :
              /\ PruneLinks(links, allowed)[k].bypass # {}
              /\ \E i \in DOMAIN links : PruneLinks(links, allowed)[k] = Pruned(links[i], allowed)
         /\ \A i \in DOMAIN links :
              Pruned(links[i], allowed).bypass # {} =>
                \E k \in DOMAIN PruneLinks(links, allowed) :
                   PruneLinks(links, allowed)[k] = Pruned(links[i], allowed)
<1>1. /\ DOMAIN links = 1..Len(links) /\ Len(links) \in Nat
      /\ \A i \in DOMAIN links : links[i] \in Link
  BY LinksAre
<1> DEFINE pruned == [i \in DOMAIN links |-> Pruned(links[i], allowed)]
           S == {link \in ToSet(pruned) : link.bypass # {}}
<1>2. pruned \in Seq(Link) /\ Len(pruned) = Len(links) /\ DOMAIN pruned = DOMAIN links
  <2>1. pruned \in [1..Len(links) -> Link]
    BY <1>1, PrunedFacts
  <2> HIDE DEF pruned
  <2> QED BY <2>1, <1>1
<1>3. PruneLinks(links, allowed) = Filter(pruned, S)
  BY DEF PruneLinks, Pruned
<1>4. \A i \in DOMAIN links : pruned[i] = Pruned(links[i], allowed)
  OBVIOUS
<1>5. \A x : x \in S <=> x.bypass # {} /\ \E i \in DOMAIN pruned : x = pruned[i]
  BY DEF ToSet
<1> HIDE DEF pruned, S
<1> DEFINE P == Filter(pruned, S)
<1>6. /\ P \in Seq(Link) /\ Len(P) <= Len(links)
      /\ \A k \in DOMAIN P : P[k] \in S
      /\ \A i \in DOMAIN pruned : pruned[i] \in S => \E k \in DOMAIN P : P[k] = pruned[i]
  <2>1. P \in Seq(Link) /\ IsFiltered(P, pruned, S)
    BY <1>2, FilterFacts
  <2> HIDE DEF P
  <2> QED BY <2>1, <1>2 DEF IsFiltered
<1> HIDE DEF P
<1>7. /\ \A k \in DOMAIN P : P[k].bypass # {} /\ \E i \in DOMAIN links : P[k] = Pruned(links[i], allowed)
      /\ \A i \in DOMAIN links : Pruned(links[i], allowed).bypass # {} =>
           \E k \in DOMAIN P : P[k] = Pruned(links[i], allowed)
  <2>1. ASSUME NEW k \in DOMAIN P
        PROVE  P[k].bypass # {} /\ \E i \in DOMAIN links : P[k] = Pruned(links[i], allowed)
    BY <1>6, <1>5, <1>4, <1>2
  <2>2. ASSUME NEW i \in DOMAIN links, Pruned(links[i], allowed).bypass # {}
        PROVE  \E k \in DOMAIN P : P[k] = Pruned(links[i], allowed)
    BY <2>2, <1>6, <1>5, <1>4, <1>2
  <2> QED BY <2>1, <2>2
<1>8. PruneLinks(links, allowed) = P
  BY <1>3 DEF P
<1>9. P \in Links
  BY <1>6 DEF Links
<1> QED BY <1>6, <1>7, <1>8, <1>9

(* Of links that were valid the pruned ones are, for any new AllowedIPs.   *)
LEMMA PrunedIsValid ==
  ASSUME NEW links \in Links, NEW old, NEW allowed, AllValid(links, old)
  PROVE  AllValid(PruneLinks(links, allowed), allowed)
<1> DEFINE P == PruneLinks(links, allowed)
<1>1. /\ P \in Links /\ Len(P) <= Len(links) /\ Len(links) <= MaxLinks
      /\ Len(P) \in Nat /\ Len(links) \in Nat
      /\ \A i \in DOMAIN links :
           links[i] \in Link /\ CheckLink(CanonicalLink(links[i]), CanonicalSet(old))
  <2>1. P \in Links /\ Len(P) <= Len(links)
    BY PruneFacts
  <2>2. Len(links) <= MaxLinks /\ \A i \in DOMAIN links :
                                    CheckLink(CanonicalLink(links[i]), CanonicalSet(old))
    BY AllValidMeans
  <2> HIDE DEF P
  <2> QED BY <2>1, <2>2, LinksAre
<1>2. Len(P) <= MaxLinks
  BY <1>1, LinkRulesAssumption
<1>3. ASSUME NEW k \in DOMAIN P
      PROVE  CheckLink(CanonicalLink(P[k]), CanonicalSet(allowed))
  <2>1. P[k].bypass # {} /\ \E i \in DOMAIN links : P[k] = Pruned(links[i], allowed)
    BY PruneFacts
  <2>2. PICK i \in DOMAIN links : P[k] = Pruned(links[i], allowed)
    BY <2>1
  <2> DEFINE c == CanonicalLink(links[i])
  <2>3. links[i] \in Link /\ c \in Link /\ CheckLink(c, CanonicalSet(old))
    BY <1>1, CanonicalLinkFacts
  <2>4. /\ P[k].anchor = Trunc(links[i].anchor)
        /\ P[k].bypass = {p \in c.bypass :
                   /\ CheckAnchor(Trunc(links[i].anchor), CanonicalSet(allowed))
                   /\ CheckPrefix(Trunc(links[i].anchor), p, CanonicalSet(allowed))}
        /\ CanonicalLink(P[k]) = P[k]
    BY <2>2, <2>3, PrunedFacts
  <2> HIDE DEF c
  <2>5. Cardinality(P[k].bypass) <= MaxPrefixes
    <3>1. IsFiniteSet(c.bypass) /\ P[k].bypass \in SUBSET c.bypass
      BY <2>3, <2>4, NetworksFinite, FS_Subset DEF Link
    <3>2. /\ Cardinality(P[k].bypass) <= Cardinality(c.bypass) /\ Cardinality(c.bypass) <= MaxPrefixes
          /\ Cardinality(c.bypass) \in Nat /\ Cardinality(P[k].bypass) \in Nat
      BY <3>1, <2>3, FS_Subset, FS_CardinalityType DEF CheckLink
    <3> QED BY <3>2, LinkRulesAssumption
  <2>6. /\ CheckAnchor(P[k].anchor, CanonicalSet(allowed))
        /\ \A p \in P[k].bypass : CheckPrefix(P[k].anchor, p, CanonicalSet(allowed))
    BY <2>1, <2>4
  <2> QED BY <2>1, <2>4, <2>5, <2>6 DEF CheckLink
<1> QED BY <1>1, <1>2, <1>3, AllValidMeans

-----------------------------------------------------------------------------
(* What validate_links lets through.                                       *)
IsSound(link, allowed) == CanonicalLink(link) = link /\ CheckLink(link, CanonicalSet(allowed))

LEMMA ValidFacts ==
  ASSUME NEW links \in Links, NEW allowed
  PROVE  /\ ValidLinks(links, allowed) \in Links
         /\ \A k \in DOMAIN ValidLinks(links, allowed) : IsSound(ValidLinks(links, allowed)[k], allowed)
<1> DEFINE Verdict == [link : Link, valid : BOOLEAN]
           verdicts == CheckLinks(links, allowed)
           S == {v \in ToSet(verdicts) : v.valid}
           V == Filter(verdicts, S)
<1>1. /\ DOMAIN links = 1..Len(links) /\ Len(links) \in Nat
      /\ \A i \in DOMAIN links : links[i] \in Link
  BY LinksAre
<1>2. \A i \in DOMAIN links : /\ CanonicalLink(links[i]) \in Link
                              /\ CanonicalLink(CanonicalLink(links[i])) = CanonicalLink(links[i])
  BY <1>1, CanonicalLinkFacts
<1>3. /\ DOMAIN verdicts = DOMAIN links
      /\ \A i \in DOMAIN links :
           verdicts[i] = [link |-> CanonicalLink(links[i]),
                          valid |-> i <= MaxLinks
                                    /\ CheckLink(CanonicalLink(links[i]), CanonicalSet(allowed))]
  BY DEF CheckLinks
<1>5. verdicts \in Seq(Verdict)
  <2>1. ASSUME NEW i \in DOMAIN links PROVE verdicts[i] \in Verdict
    <3> DEFINE c == CanonicalLink(links[i])
               valid == i <= MaxLinks /\ CheckLink(c, CanonicalSet(allowed))
    <3>1. verdicts[i] = [link |-> c, valid |-> valid] /\ c \in Link
      BY <1>2, <1>3
    <3>2. valid \in BOOLEAN
      OBVIOUS
    <3> HIDE DEF verdicts, c, valid
    <3> QED BY <3>1, <3>2
  <2>2. verdicts = [i \in DOMAIN links |-> verdicts[i]]
    BY DEF CheckLinks
  <2>3. verdicts \in [1..Len(links) -> Verdict]
    BY <2>1, <2>2, <1>1
  <2> HIDE DEF verdicts, Verdict
  <2> QED BY <2>3, <1>1
<1>6. ASSUME NEW v \in S
      PROVE  v.link \in Link /\ IsSound(v.link, allowed)
  <2>1. PICK i \in DOMAIN verdicts : v = verdicts[i] /\ v.valid
    BY DEF ToSet
  <2> DEFINE c == CanonicalLink(links[i])
  <2>2. c \in Link /\ CanonicalLink(c) = c
    BY <2>1, <1>2, <1>3
  <2>3. v = [link |-> c, valid |-> i <= MaxLinks /\ CheckLink(c, CanonicalSet(allowed))] /\ v.valid
    BY <2>1, <1>3
  <2> HIDE DEF verdicts, S, c
  <2>4. v.link = c /\ CheckLink(c, CanonicalSet(allowed))
    BY <2>3
  <2> QED BY <2>2, <2>4 DEF IsSound
<1>7. ValidLinks(links, allowed) = [i \in DOMAIN V |-> V[i].link]
  BY DEF ValidLinks
<1> HIDE DEF verdicts, S, Verdict
<1>8. V \in Seq(Verdict) /\ IsFiltered(V, verdicts, S)
  BY <1>5, FilterFacts
<1> HIDE DEF V
<1>9. DOMAIN V = 1..Len(V) /\ Len(V) \in Nat /\ \A k \in DOMAIN V : V[k] \in S
  BY <1>8 DEF IsFiltered
<1>10. ValidLinks(links, allowed) \in [1..Len(V) -> Link]
  BY <1>6, <1>7, <1>9
<1> QED BY <1>6, <1>7, <1>9, <1>10 DEF Links

-----------------------------------------------------------------------------
(* The prefixes that are valid by themselves.                              *)
IsSupported(link, p, allowed) ==
  /\ CheckAnchor(Trunc(link.anchor), CanonicalSet(allowed))
  /\ CheckPrefix(Trunc(link.anchor), Trunc(p), CanonicalSet(allowed))

LEMMA ValidByItself ==
  ASSUME NEW link \in Link, NEW p \in link.bypass, NEW allowed
  PROVE  AllValid(<<[anchor |-> link.anchor, bypass |-> {p}]>>, allowed)
           <=> IsSupported(link, p, allowed)
<1> DEFINE one == [anchor |-> link.anchor, bypass |-> {p}]
           c == CanonicalLink(one)
<1>1. one \in Link
  BY DEF Link
<1> HIDE DEF one
<1>2. <<one>> \in Links /\ Len(<<one>>) = 1 /\ DOMAIN <<one>> = {1} /\ <<one>>[1] = one
  BY <1>1 DEF Links
<1>3. AllValid(<<one>>, allowed) <=> 1 <= MaxLinks /\ CheckLink(c, CanonicalSet(allowed))
  <2>1. AllValid(<<one>>, allowed)
          <=> /\ Len(<<one>>) <= MaxLinks
              /\ \A i \in DOMAIN <<one>> : CheckLink(CanonicalLink(<<one>>[i]), CanonicalSet(allowed))
    BY <1>2, AllValidMeans
  <2>2. (\A i \in DOMAIN <<one>> : CheckLink(CanonicalLink(<<one>>[i]), CanonicalSet(allowed)))
          <=> CheckLink(c, CanonicalSet(allowed))
    BY <1>2, Zenon
  <2> QED BY <2>1, <2>2, <1>2
<1>4. c.anchor = Trunc(link.anchor) /\ c.bypass = {Trunc(p)}
  BY DEF CanonicalLink, one
<1> HIDE DEF c
<1>5. Cardinality(c.bypass) = 1
  BY <1>4, FS_Singleton
<1> QED BY <1>3, <1>4, <1>5, LinkRulesAssumption DEF CheckLink, IsSupported, one

LEMMA SupportedMeans ==
  ASSUME NEW links \in Links, NEW allowed
  PROVE  \A x : x \in Supported(links, allowed)
                  <=> \E i \in DOMAIN links : \E p \in links[i].bypass :
                        x = <<links[i].anchor, p>> /\ IsSupported(links[i], p, allowed)
<1>1. \A i \in DOMAIN links : links[i] \in Link
  BY LinksAre
<1>2. ASSUME NEW x, x \in Supported(links, allowed)
      PROVE  \E i \in DOMAIN links : \E p \in links[i].bypass :
               x = <<links[i].anchor, p>> /\ IsSupported(links[i], p, allowed)
  <2>1. PICK link \in ToSet(links) :
          \E p \in link.bypass : /\ AllValid(<<[anchor |-> link.anchor, bypass |-> {p}]>>, allowed)
                                 /\ x = <<link.anchor, p>>
    BY <1>2 DEF Supported
  <2>2. PICK i \in DOMAIN links : link = links[i]
    BY DEF ToSet
  <2> QED BY <2>1, <2>2, <1>1, ValidByItself
<1>3. ASSUME NEW i \in DOMAIN links, NEW p \in links[i].bypass, IsSupported(links[i], p, allowed)
      PROVE  <<links[i].anchor, p>> \in Supported(links, allowed)
  <2>1. AllValid(<<[anchor |-> links[i].anchor, bypass |-> {p}]>>, allowed)
    BY <1>1, <1>3, ValidByItself
  <2> DEFINE of(link) == {<<link.anchor, prefix>> : prefix \in
                {q \in link.bypass : AllValid(<<[anchor |-> link.anchor, bypass |-> {q}]>>, allowed)}}
  <2>2. <<links[i].anchor, p>> \in of(links[i])
    BY <2>1
  <2>3. links[i] \in ToSet(links) /\ Supported(links, allowed) = UNION {of(link) : link \in ToSet(links)}
    BY DEF ToSet, Supported
  <2> HIDE DEF of
  <2> QED BY <2>2, <2>3
<1> QED BY <1>2, <1>3

IsCanonical(links) == \A i \in DOMAIN links : CanonicalLink(links[i]) = links[i]

(* prune_links keeps what the new AllowedIPs support, and only that: of    *)
(* canonical links exactly the prefixes stay that a link of their own could*)
(* have under the new AllowedIPs, with their anchors.                      *)
THEOREM PrunedSupports ==
  ASSUME NEW links \in Links, NEW allowed, IsCanonical(links)
  PROVE  /\ Supported(PruneLinks(links, allowed), allowed) = Supported(links, allowed)
         /\ IsCanonical(PruneLinks(links, allowed))
<1> DEFINE P == PruneLinks(links, allowed)
<1>1. /\ P \in Links
      /\ \A k \in DOMAIN P : \E i \in DOMAIN links : P[k] = Pruned(links[i], allowed)
      /\ \A i \in DOMAIN links : Pruned(links[i], allowed).bypass # {} =>
           \E k \in DOMAIN P : P[k] = Pruned(links[i], allowed)
  BY PruneFacts
<1> HIDE DEF P
<1>2. ASSUME NEW i \in DOMAIN links
      PROVE  LET q == Pruned(links[i], allowed) IN
             /\ q.anchor = links[i].anchor /\ CanonicalLink(q) = q
             /\ \A p : p \in q.bypass <=> p \in links[i].bypass /\ IsSupported(links[i], p, allowed)
             /\ \A p : IsSupported(q, p, allowed) <=> IsSupported(links[i], p, allowed)
  <2>1. links[i] \in Link /\ CanonicalLink(links[i]) = links[i]
    BY LinksAre DEF IsCanonical
  <2>2. Trunc(links[i].anchor) = links[i].anchor /\ \A p \in links[i].bypass : Trunc(p) = p
    BY <2>1, CanonicalPrefixes, Zenon
  <2>3. /\ Pruned(links[i], allowed).anchor = Trunc(links[i].anchor)
        /\ Pruned(links[i], allowed).bypass
              = {p \in CanonicalLink(links[i]).bypass :
                   /\ CheckAnchor(Trunc(links[i].anchor), CanonicalSet(allowed))
                   /\ CheckPrefix(Trunc(links[i].anchor), p, CanonicalSet(allowed))}
        /\ CanonicalLink(Pruned(links[i], allowed)) = Pruned(links[i], allowed)
    BY <2>1, PrunedFacts
  <2> QED BY <2>1, <2>2, <2>3 DEF IsSupported
<1>3. IsCanonical(P)
  BY <1>1, <1>2 DEF IsCanonical
<1>4. ASSUME NEW x, x \in Supported(P, allowed) PROVE x \in Supported(links, allowed)
  <2>1. PICK k \in DOMAIN P : \E p \in P[k].bypass :
          x = <<P[k].anchor, p>> /\ IsSupported(P[k], p, allowed)
    BY <1>1, <1>4, SupportedMeans
  <2>2. PICK p \in P[k].bypass : x = <<P[k].anchor, p>> /\ IsSupported(P[k], p, allowed)
    BY <2>1
  <2>3. PICK i \in DOMAIN links : P[k] = Pruned(links[i], allowed)
    BY <1>1
  <2>4. p \in links[i].bypass /\ x = <<links[i].anchor, p>> /\ IsSupported(links[i], p, allowed)
    BY <2>2, <2>3, <1>2
  <2> QED BY <2>4, SupportedMeans
<1>5. ASSUME NEW x, x \in Supported(links, allowed) PROVE x \in Supported(P, allowed)
  <2>1. PICK i \in DOMAIN links : \E p \in links[i].bypass :
          x = <<links[i].anchor, p>> /\ IsSupported(links[i], p, allowed)
    BY <1>5, SupportedMeans
  <2>2. PICK p \in links[i].bypass : x = <<links[i].anchor, p>> /\ IsSupported(links[i], p, allowed)
    BY <2>1
  <2>3. p \in Pruned(links[i], allowed).bypass
    BY <2>2, <1>2
  <2>4. PICK k \in DOMAIN P : P[k] = Pruned(links[i], allowed)
    BY <2>3, <1>1
  <2>5. p \in P[k].bypass /\ x = <<P[k].anchor, p>> /\ IsSupported(P[k], p, allowed)
    BY <2>2, <2>3, <2>4, <1>2
  <2> QED BY <2>5, <1>1, SupportedMeans
<1> QED BY <1>3, <1>4, <1>5 DEF P

(* What check_prefix accepts, macos_route_excluded_by_link can keep: with  *)
(* links that validate_links let through, no route of macos_desired_routes *)
(* takes an address of a bypass prefix while the Mac is attached to the    *)
(* anchor's network, neither a broader nor a narrower entry's.             *)
THEOREM SoundPromise ==
  ASSUME NEW allowed \in Seq(Networks), NEW links \in Links,
         \A k \in DOMAIN links : IsSound(links[k], ToSet(allowed)),
         NEW k \in DOMAIN links, NEW subnets, NEW lan \in subnets,
         SubnetContains(lan, links[k].anchor),
         NEW prefix \in links[k].bypass, NEW ip \in AddressesOf(prefix),
         NEW dest \in ToSet(AllowedRoutes(allowed)), Tunnelled(dest, subnets, links)
  PROVE  ~SubnetContains(dest, Host(ip))
<1> DEFINE C == CanonicalSet(ToSet(allowed))
           anchor == links[k].anchor
           routes == AllowedRoutes(allowed)
<1>1. anchor \in Networks /\ prefix \in Networks
  BY LinksAre DEF Link
<1>2. CheckPrefix(anchor, prefix, C)
  BY DEF IsSound, CheckLink
<1>3. \A i \in DOMAIN allowed : allowed[i] \in Networks /\ Trunc(allowed[i]) \in C
  <2>1. ASSUME NEW i \in DOMAIN allowed PROVE allowed[i] \in Networks /\ Trunc(allowed[i]) \in C
    <3>1. allowed[i] \in Networks /\ allowed[i] \in ToSet(allowed)
      BY DEF ToSet
    <3> QED BY <3>1, Zenon DEF CanonicalSet
  <2> QED BY <2>1, Zenon
<1> HIDE DEF C
<1>4. \A i \in DOMAIN allowed : allowed[i] # DefaultRoute
  <2>1. \A i \in DOMAIN allowed : Trunc(allowed[i]).len = allowed[i].len
    BY <1>3, TruncFacts
  <2> QED BY <2>1, <1>2, <1>3, DefaultContainsAll DEF CheckPrefix
<1>5. routes = allowed
  <2>1. [i \in DOMAIN allowed |->
           IF allowed[i] = DefaultRoute
           THEN <<[DefaultRoute EXCEPT !.len = 1], [DefaultRoute EXCEPT !.len = 1, !.ip[1] = 1]>>
           ELSE <<allowed[i]>>] = [i \in DOMAIN allowed |-> <<allowed[i]>>]
    BY <1>4
  <2>2. FlattenSeq([i \in DOMAIN allowed |-> <<allowed[i]>>]) = allowed
    BY FlattenSingles
  <2> QED BY <2>1, <2>2, Zenon DEF AllowedRoutes
<1>6. \E i \in DOMAIN allowed : allowed[i] = dest
  BY <1>5 DEF ToSet
<1>7. dest \in Networks /\ Trunc(dest) \in Networks /\ Trunc(dest) \in C /\ Trunc(dest).len = dest.len
  BY <1>3, <1>6, TruncFacts
<1>8. ~SubnetContains(prefix, Trunc(dest))
  <2>1. ~ExcludedByLink(dest, subnets, links)
    BY DEF Tunnelled
  <2> QED BY <2>1 DEF ExcludedByLink
<1>9. Host(ip) \in Networks /\ SubnetContains(prefix, Host(ip))
  BY LinkRulesAssumption DEF AddressesOf, Host, Networks
<1>10. SUFFICES ASSUME SubnetContains(dest, Host(ip)) PROVE FALSE
  OBVIOUS
<1>11. CASE prefix.len <= dest.len
  <2>1. SubnetContains(prefix, dest)
    BY <1>1, <1>7, <1>9, <1>10, <1>11, SharedAddress
  <2> QED BY <2>1, <1>1, <1>7, <1>8, ContainsTrunc
<1>12. CASE dest.len < prefix.len
  <2>1. dest.len <= prefix.len
    BY <1>12, <1>1, <1>7, LinkRulesAssumption DEF Networks
  <2>2. SubnetContains(dest, prefix)
    BY <2>1, <1>1, <1>7, <1>9, <1>10, SharedAddress
  <2>3. SubnetContains(Trunc(dest), prefix) /\ Trunc(dest).len < prefix.len
    BY <2>2, <1>1, <1>7, <1>12, ContainsTrunc
  <2> QED BY <2>3, <1>2, <1>7 DEF CheckPrefix
<1>13. prefix.len <= dest.len \/ dest.len < prefix.len
  BY <1>1, <1>7, LinkRulesAssumption DEF Networks
<1> QED BY <1>11, <1>12, <1>13

-----------------------------------------------------------------------------
(* merge_links joins links to links.                                       *)
LEMMA MergeOneIsLinks ==
  ASSUME NEW merged \in Links, NEW link \in Link
  PROVE  MergeOne(merged, link) \in Links
<1>1. /\ merged \in Seq(Link) /\ DOMAIN merged = 1..Len(merged) /\ Len(merged) \in Nat
      /\ \A i \in DOMAIN merged : merged[i] \in Link
  BY LinksAre
<1>2. CASE \E i \in DOMAIN merged : merged[i].anchor = link.anchor
  <2> DEFINE new(i) == IF /\ merged[i].anchor = link.anchor
                          /\ \A j \in 1..(i - 1) : merged[j].anchor # link.anchor
                       THEN [merged[i] EXCEPT !.bypass = @ \cup link.bypass] ELSE merged[i]
  <2>1. MergeOne(merged, link) = [i \in DOMAIN merged |-> new(i)]
    BY <1>2 DEF MergeOne
  <2>2. ASSUME NEW i \in DOMAIN merged PROVE new(i) \in Link
    <3>1. [merged[i] EXCEPT !.bypass = @ \cup link.bypass] \in Link
      BY <1>1 DEF Link
    <3> QED BY <3>1, <1>1
  <2>3. MergeOne(merged, link) \in [1..Len(merged) -> Link]
    BY <2>1, <2>2, <1>1
  <2> QED BY <2>3, <1>1 DEF Links
<1>3. CASE ~\E i \in DOMAIN merged : merged[i].anchor = link.anchor
  BY <1>1, <1>3 DEF MergeOne, Links
<1> QED BY <1>2, <1>3

LEMMA MergeIsLinks ==
  ASSUME NEW stored \in Links, NEW added \in Links
  PROVE  MergeLinks(stored, added) \in Links
<1>a. PICK N : N = Len(added)
  OBVIOUS
<1>0. N \in Nat /\ \A n \in 1..N : CanonicalLink(added[n]) \in Link
  BY <1>a, LinksAre, CanonicalLinkFacts
<1>1. Canonical(stored) \in Links
  BY CanonicalFacts
<1>2. PICK a : a = Canonical(stored)
  OBVIOUS
<1> DEFINE Def(f) == [n \in 0..N |-> IF n = 0 THEN a
                                     ELSE MergeOne(f[n - 1], CanonicalLink(added[n]))]
           F == CHOOSE f : f = Def(f)
<1>3. MergeLinks(stored, added) = F[N]
  BY <1>a, <1>2 DEF MergeLinks
<1>4. PICK step \in [1..N -> [Links -> Links]] :
        \A n \in 1..N : \A t \in Links : step[n][t] = MergeOne(t, CanonicalLink(added[n]))
  <2> DEFINE w == [n \in 1..N |-> [t \in Links |-> MergeOne(t, CanonicalLink(added[n]))]]
  <2>1. w \in [1..N -> [Links -> Links]]
    BY <1>0, MergeOneIsLinks
  <2>2. \A n \in 1..N : \A t \in Links : w[n][t] = MergeOne(t, CanonicalLink(added[n]))
    OBVIOUS
  <2> QED BY <2>1, <2>2
<1> HIDE DEF F
<1>5. PICK f \in [0..N -> Links] : f[0] = a /\ \A n \in 1..N : f[n] = step[n][f[n - 1]]
  <2>1. step \in Steps(Links, N)
    BY DEF Steps
  <2>2. PICK f : IsRun(f, a, Links, N, step)
    BY <1>0, <1>1, <1>2, <2>1, Recursion, Zenon
  <2> QED BY <2>2 DEF IsRun
<1>6. \A n \in 1..N : f[n] = MergeOne(f[n - 1], CanonicalLink(added[n]))
  <2>1. \A n \in 1..N : n - 1 \in 0..N /\ f[n - 1] \in Links
    BY <1>0
  <2> QED BY <1>4, <1>5, <2>1
<1>7. f = Def(f)
  <2>1. ASSUME NEW n \in 0..N PROVE f[n] = Def(f)[n]
    <3>1. n = 0 \/ n \in 1..N
      BY <1>0
    <3> QED BY <1>5, <1>6, <3>1
  <2>2. DOMAIN f = 0..N /\ DOMAIN Def(f) = 0..N
    OBVIOUS
  <2>3. f = [n \in 0..N |-> f[n]]
    OBVIOUS
  <2> QED BY <2>1, <2>3
<1>8. F = Def(F)
  <2> HIDE DEF Def
  <2> QED BY <1>7, Zenon DEF F
<1>9. \A n \in 0..N : F[n] = IF n = 0 THEN a ELSE MergeOne(F[n - 1], CanonicalLink(added[n]))
  BY <1>8
<1> DEFINE H == {n \in Nat : n <= N => F[n] \in Links}
<1>10. 0 \in H
  BY <1>0, <1>1, <1>2, <1>9
<1>11. ASSUME NEW n \in H PROVE n + 1 \in H
  <2>1. CASE n + 1 <= N
    <3>1. n \in Nat /\ n + 1 \in 1..N /\ n + 1 \in 0..N /\ (n + 1) - 1 = n /\ F[n] \in Links /\ n + 1 # 0
      BY <2>1, <1>0
    <3>2. F[n + 1] = MergeOne(F[n], CanonicalLink(added[n + 1]))
      BY <1>9, <3>1
    <3> QED BY <3>1, <3>2, <1>0, MergeOneIsLinks
  <2> QED BY <2>1, <1>0
<1>12. H \in SUBSET Nat
  OBVIOUS
<1> HIDE DEF H
<1>13. N \in H
  BY <1>0, <1>10, <1>11, <1>12, Induction
<1> QED BY <1>0, <1>3, <1>13 DEF H

-----------------------------------------------------------------------------
(***************************************************************************)
(* The inductive invariant: of a record, of a helper, of a command.        *)
(***************************************************************************)
RecordOK(r) ==
  /\ r \in Record
  /\ r.state = "stored" <=> r.allowed # None
  /\ IsCanonical(r.links)
  /\ r.state = "stored" => AllValid(r.links, AllowedIps(r))

(* A helper that runs has links its own AllowedIPs support.                *)
HelperOK(h, r) ==
  h # None => /\ r.state = "stored" /\ h \in Record /\ h.allowed \in Configs
              /\ \A k \in DOMAIN h.links : IsSound(h.links[k], AllowedIps(h))

ListedBy(x) == {j \in Ids : x.stale[j] # None}

(* What `add --force` has carried over so far.                             *)
CarriedBy(x, r) ==
  /\ x.pc \in {"keepLinks", "carry", "disconnect", "remove"} =>
       \A j \in ListedBy(x) : x.stale[j].dns => r.dns
  /\ x.pc = "carry" =>
       /\ x.donor \in ListedBy(x) /\ x.links = PruneLinks(x.stale[x.donor].links, AllowedIps(r))
  /\ x.pc \in {"disconnect", "remove"} /\ x.donor \in ListedBy(x) =>
       Supported(x.stale[x.donor].links, AllowedIps(r)) \subseteq Supported(r.links, AllowedIps(r))
  /\ x.pc \in {"disconnect", "remove"} /\ x.donor = None =>
       \A j \in ListedBy(x) : x.stale[j].links = <<>>

CommandOK(x, rec) ==
  /\ x \in Command
  /\ x.pc \in {"links", "dns", "after", "reconnect"} => x.before \in Settable
  /\ x.pc \in {"refresh", "add"} => x.file \in Configs
  /\ x.pc \in {"idle", "add"} => x.id = None
  /\ x.pc \notin {"idle", "add"} => x.id \in Ids /\ rec[x.id].state # "unused"
  /\ x.pc = "carry" => x.links \in Links
  /\ \A j \in ListedBy(x) : x.stale[j] \in Settable /\ IsCanonical(x.stale[j].links)
  /\ x.pc \in {"keepDns", "keepLinks", "carry", "disconnect", "remove"} =>
       x.id \notin ListedBy(x)
  /\ x.pc \notin {"idle", "add"} /\ ~x.raced => CarriedBy(x, rec[x.id])

LinksIInv ==
  /\ record \in [Ids -> Record] /\ helper \in [Ids -> Record \cup {None}]
  /\ cli \in [Clients -> Command]
  /\ commands \in 0..MaxCommands /\ events \in 0..MaxEvents /\ faults \in 0..MaxFaults
  /\ \A i \in Ids : RecordOK(record[i]) /\ HelperOK(helper[i], record[i])
  /\ \A c \in Clients : CommandOK(cli[c], record)

-----------------------------------------------------------------------------
(* What the requests write.                                                *)
LEMMA RecordIs ==
  ASSUME NEW r \in Record
  PROVE  /\ r = [state |-> r.state, allowed |-> r.allowed, links |-> r.links, dns |-> r.dns]
         /\ r.state \in {"unused", "stored", "removed"} /\ r.allowed \in Configs \cup {None}
         /\ r.links \in Links /\ r.dns \in BOOLEAN
BY DEF Record

LEMMA StoredRecord ==
  ASSUME NEW r, RecordOK(r), r.state = "stored"
  PROVE  /\ r.allowed \in Configs /\ r.allowed \in Seq(Networks)
BY BypassLinksAssumption, RecordIs DEF RecordOK

LEMMA SetLinksOK ==
  ASSUME NEW r, RecordOK(r), r.state = "stored",
         NEW links \in Links, AllValid(links, AllowedIps(r))
  PROVE  LET new == [r EXCEPT !.links = Canonical(links)] IN
         /\ RecordOK(new) /\ new.state = r.state /\ new.allowed = r.allowed
         /\ new.links = Canonical(links) /\ new.dns = r.dns
<1> DEFINE new == [r EXCEPT !.links = Canonical(links)]
<1>1. Canonical(links) \in Links /\ IsCanonical(Canonical(links)) /\ AllValid(Canonical(links), AllowedIps(r))
  <2>1. Canonical(links) \in Links
    BY CanonicalFacts
  <2>2. \A i \in DOMAIN links : CanonicalLink(CanonicalLink(links[i])) = CanonicalLink(links[i])
    BY LinksAre, CanonicalLinkFacts
  <2>3. IsCanonical(Canonical(links))
    BY <2>2, CanonicalFacts DEF IsCanonical
  <2> QED BY <2>1, <2>3, CanonicalValid
<1>2. /\ new \in Record /\ new.state = r.state /\ new.allowed = r.allowed
      /\ new.links = Canonical(links) /\ new.dns = r.dns
  BY <1>1 DEF RecordOK, Record
<1>3. AllowedIps(new) = AllowedIps(r)
  BY <1>2 DEF AllowedIps
<1> HIDE DEF new
<1>4. RecordOK(new)
  BY <1>1, <1>2, <1>3 DEF RecordOK
<1> QED BY <1>2, <1>4 DEF new

LEMMA SetDnsOK ==
  ASSUME NEW r, RecordOK(r), NEW enabled \in BOOLEAN
  PROVE  LET new == [r EXCEPT !.dns = enabled] IN
         /\ RecordOK(new) /\ new.state = r.state /\ new.allowed = r.allowed
         /\ new.links = r.links /\ new.dns = enabled
<1> DEFINE new == [r EXCEPT !.dns = enabled]
<1>1. /\ new \in Record /\ new.state = r.state /\ new.allowed = r.allowed
      /\ new.links = r.links /\ new.dns = enabled
  BY DEF RecordOK, Record
<1>2. AllowedIps(new) = AllowedIps(r)
  BY <1>1 DEF AllowedIps
<1> HIDE DEF new
<1>3. RecordOK(new)
  BY <1>1, <1>2 DEF RecordOK
<1> QED BY <1>1, <1>3 DEF new

LEMMA RefreshedOK ==
  ASSUME NEW r, RecordOK(r), r.state = "stored", NEW file \in Configs
  PROVE  LET new == Refreshed(r, file) IN
         /\ RecordOK(new) /\ new.state = "stored" /\ new.allowed = file
         /\ Supported(r.links, AllowedIps(new)) = Supported(new.links, AllowedIps(new))
<1> DEFINE new == Refreshed(r, file)
           links == PruneLinks(r.links, ToSet(file))
<1>1. r.links \in Links /\ IsCanonical(r.links) /\ AllValid(r.links, AllowedIps(r))
  BY RecordIs DEF RecordOK
<1>2. links \in Links /\ IsCanonical(links) /\ AllValid(links, ToSet(file))
      /\ Supported(links, ToSet(file)) = Supported(r.links, ToSet(file))
  BY <1>1, PruneFacts, PrunedSupports, PrunedIsValid
<1> HIDE DEF links
<1>3. /\ new \in Record /\ new.state = "stored" /\ new.allowed = file /\ new.links = links
  BY <1>2 DEF RecordOK, Record, Refreshed, links
<1>4. AllowedIps(new) = ToSet(file)
  BY <1>3 DEF AllowedIps
<1>5. file # None
  BY BypassLinksAssumption
<1> HIDE DEF new
<1>6. RecordOK(new)
  BY <1>2, <1>3, <1>4, <1>5 DEF RecordOK
<1>7. Supported(r.links, AllowedIps(new)) = Supported(new.links, AllowedIps(new))
  BY <1>2, <1>3, <1>4
<1> QED BY <1>3, <1>6, <1>7 DEF new

LEMMA EmptyLinks ==
  /\ <<>> \in Links /\ IsCanonical(<<>>)
  /\ \A allowed : AllValid(<<>>, allowed) /\ Supported(<<>>, allowed) = {}
BY DEF Links, IsCanonical, AllValid, Supported, ToSet

LEMMA NewRecordOK ==
  /\ \A file \in Configs : RecordOK([state |-> "stored", allowed |-> file,
                                     links |-> <<>>, dns |-> FALSE])
  /\ RecordOK(NoRecord) /\ RecordOK([NoRecord EXCEPT !.state = "removed"])
<1>1. ASSUME NEW file \in Configs
      PROVE  RecordOK([state |-> "stored", allowed |-> file, links |-> <<>>, dns |-> FALSE])
  BY EmptyLinks, BypassLinksAssumption DEF RecordOK, Record
<1>2. RecordOK(NoRecord)
  BY EmptyLinks DEF RecordOK, Record, NoRecord
<1>3. RecordOK([NoRecord EXCEPT !.state = "removed"])
  BY EmptyLinks DEF RecordOK, Record, NoRecord
<1> QED BY <1>1, <1>2, <1>3

(* A tunnel that is started has sound links.                               *)
LEMMA StartedOK ==
  ASSUME NEW r, RecordOK(r), r.state = "stored"
  PROVE  Started(r) \in Record /\ HelperOK(Started(r), r)
<1> DEFINE links == ValidLinks(r.links, AllowedIps(r))
           h == Started(r)
<1>1. r.links \in Links /\ r.allowed \in Configs
  BY RecordIs, StoredRecord DEF RecordOK
<1>2. links \in Links /\ \A k \in DOMAIN links : IsSound(links[k], AllowedIps(r))
  BY <1>1, ValidFacts
<1> HIDE DEF links
<1>3. h \in Record /\ h.allowed = r.allowed /\ h.links = links
  BY <1>2 DEF RecordOK, Record, Started, links
<1>4. AllowedIps(h) = AllowedIps(r)
  BY <1>3 DEF AllowedIps
<1> HIDE DEF h
<1>5. HelperOK(h, r)
  BY <1>1, <1>2, <1>3, <1>4 DEF HelperOK
<1> QED BY <1>3, <1>5 DEF h

-----------------------------------------------------------------------------
(***************************************************************************)
(* Steps: what a command's step does to the others, and to itself.         *)
(***************************************************************************)
BoundsOK == commands \in 0..MaxCommands /\ events \in 0..MaxEvents /\ faults \in 0..MaxFaults

(* The other commands only learn, unknowingly, that record i was written.  *)
Others(c, i) ==
  \A d \in Clients \ {c} :
     /\ cli'[d] \in {cli[d], [cli[d] EXCEPT !.raced = TRUE]}
     /\ i # None /\ cli[d].id = i => cli'[d].raced

LEMMA CommandFields ==
  ASSUME NEW x \in Command
  PROVE  /\ x = [pc |-> x.pc, id |-> x.id, file |-> x.file, links |-> x.links, merge |-> x.merge,
                 dns |-> x.dns, apply |-> x.apply, form |-> x.form, before |-> x.before,
                 stale |-> x.stale, donor |-> x.donor, raced |-> x.raced]
         /\ x.pc \in Places /\ x.id \in Ids \cup {None} /\ x.file \in Configs \cup {None}
         /\ x.links \in Links \cup {None} /\ x.merge \in BOOLEAN /\ x.dns \in BOOLEAN \cup {None}
         /\ x.apply \in BOOLEAN /\ x.form \in BOOLEAN /\ x.before \in Settable \cup {None}
         /\ x.stale \in [Ids -> Settable \cup {None}] /\ x.donor \in Ids \cup {None}
         /\ x.raced \in BOOLEAN
BY DEF Command

LEMMA OtherKeeps ==
  ASSUME NEW x, NEW y, NEW rec, NEW rec2, CommandOK(x, rec),
         y \in {x, [x EXCEPT !.raced = TRUE]},
         \A k \in Ids : rec[k].state # "unused" => rec2[k].state # "unused",
         y.raced \/ (x.id \in Ids => rec2[x.id] = rec[x.id])
  PROVE  CommandOK(y, rec2)
<1>1. x \in Command
  BY DEF CommandOK
<1>2. CASE y = x
  <2>1. CarriedBy(x, rec[x.id]) /\ rec2[x.id] = rec[x.id] => CarriedBy(x, rec2[x.id])
    OBVIOUS
  <2> QED BY <1>2, <2>1 DEF CommandOK
<1>3. CASE y = [x EXCEPT !.raced = TRUE]
  <2>1. /\ y \in Command /\ y.raced /\ y.pc = x.pc /\ y.id = x.id /\ y.file = x.file
        /\ y.links = x.links /\ y.before = x.before /\ y.stale = x.stale
    BY <1>1, <1>3 DEF Command
  <2>2. ListedBy(y) = ListedBy(x)
    BY <2>1 DEF ListedBy
  <2> QED BY <2>1, <2>2 DEF CommandOK
<1> QED BY <1>2, <1>3

LEMMA StepKeeps ==
  ASSUME LinksIInv, NEW c \in Clients, NEW i \in Ids \cup {None},
         cli' \in [Clients -> Command], Others(c, i), CommandOK(cli'[c], record'),
         record' \in [Ids -> Record], helper' \in [Ids -> Record \cup {None}],
         \A k \in Ids : \/ record'[k] = record[k]
                        \/ k = i /\ RecordOK(record'[k]) /\ record'[k].state # "unused",
         \A k \in Ids : HelperOK(helper'[k], record'[k]),
         BoundsOK'
  PROVE  LinksIInv'
<1>1. \A k \in Ids : RecordOK(record'[k])
  BY DEF LinksIInv
<1>2. \A k \in Ids : record[k].state # "unused" => record'[k].state # "unused"
  OBVIOUS
<1>3. ASSUME NEW d \in Clients PROVE CommandOK(cli'[d], record')
  <2>1. CASE d = c
    BY <2>1
  <2>2. CASE d # c
    <3>1. CommandOK(cli[d], record)
      BY DEF LinksIInv
    <3>2. /\ cli'[d] \in {cli[d], [cli[d] EXCEPT !.raced = TRUE]}
          /\ i # None /\ cli[d].id = i => cli'[d].raced
      BY <2>2 DEF Others
    <3>3. cli'[d].raced \/ (cli[d].id \in Ids => record'[cli[d].id] = record[cli[d].id])
      BY <3>2, BypassLinksAssumption
    <3> QED BY <3>1, <3>2, <3>3, <1>2, OtherKeeps
  <2> QED BY <2>1, <2>2
<1> QED BY <1>1, <1>3 DEF LinksIInv, BoundsOK

(* A record is written.                                                    *)
LEMMA Writes ==
  ASSUME LinksIInv, NEW i \in Ids, NEW v, RecordOK(v), v.state # "unused",
         record' = [record EXCEPT ![i] = v]
  PROVE  /\ record' \in [Ids -> Record] /\ record'[i] = v
         /\ \A k \in Ids : k # i => record'[k] = record[k]
         /\ \A k \in Ids : \/ record'[k] = record[k]
                           \/ k = i /\ RecordOK(record'[k]) /\ record'[k].state # "unused"
<1>1. record \in [Ids -> Record] /\ v \in Record
  BY DEF LinksIInv, RecordOK
<1>2. record'[i] = v /\ \A k \in Ids : k # i => record'[k] = record[k]
  BY <1>1
<1> QED BY <1>1, <1>2

LEMMA NoCommandOK ==
  /\ NoCommand \in Command /\ \A rec : CommandOK(NoCommand, rec)
  /\ ListedBy(NoCommand) = {}
<1>1. NoCommand \in Command /\ NoCommand.pc = "idle" /\ NoCommand.id = None
      /\ NoCommand.stale = [i \in Ids |-> None]
  BY DEF NoCommand, Command, Places
<1>2. ListedBy(NoCommand) = {}
  BY <1>1 DEF ListedBy
<1> QED BY <1>1, <1>2 DEF CommandOK

LEMMA GoesFacts ==
  ASSUME cli \in [Clients -> Command], NEW c \in Clients, NEW p \in Places, NEW i, Goes(c, p, i)
  PROVE  /\ cli' \in [Clients -> Command] /\ Others(c, i)
         /\ p = "idle" => cli'[c] = NoCommand
         /\ p # "idle" => cli'[c] = [cli[c] EXCEPT !.pc = p]
<1> DEFINE mark(d) == cli[d].raced \/ (i # None /\ cli[d].id = i)
           go == IF p = "idle" THEN NoCommand ELSE [cli[c] EXCEPT !.pc = p]
<1>1. cli' = [d \in Clients |-> IF d = c THEN go ELSE [cli[d] EXCEPT !.raced = mark(d)]]
  BY DEF Goes
<1>2. go \in Command
  BY NoCommandOK DEF Command
<1>3. ASSUME NEW d \in Clients
      PROVE  /\ [cli[d] EXCEPT !.raced = mark(d)] \in Command
             /\ [cli[d] EXCEPT !.raced = mark(d)] \in {cli[d], [cli[d] EXCEPT !.raced = TRUE]}
             /\ [cli[d] EXCEPT !.raced = mark(d)].raced = mark(d)
  <2>1. mark(d) \in BOOLEAN /\ cli[d] \in Command
    OBVIOUS
  <2>2. mark(d) = TRUE \/ mark(d) = cli[d].raced
    BY CommandFields
  <2> HIDE DEF mark
  <2>3. [cli[d] EXCEPT !.raced = cli[d].raced] = cli[d]
    BY <2>1 DEF Command
  <2> QED BY <2>1, <2>2, <2>3 DEF Command
<1>4. cli' \in [Clients -> Command]
  <2> HIDE DEF mark, go
  <2> QED BY <1>1, <1>2, <1>3
<1>5. Others(c, i)
  <2>1. \A d \in Clients \ {c} : cli'[d] = [cli[d] EXCEPT !.raced = mark(d)]
    BY <1>1
  <2>2. \A d \in Clients : i # None /\ cli[d].id = i => mark(d)
    OBVIOUS
  <2> HIDE DEF mark
  <2> QED BY <2>1, <2>2, <1>3 DEF Others
<1> QED BY <1>1, <1>4, <1>5

(* Only the command itself has moved.                                      *)
LEMMA ExceptFacts ==
  ASSUME cli \in [Clients -> Command], NEW c \in Clients, NEW x \in Command,
         cli' = [cli EXCEPT ![c] = x]
  PROVE  cli' \in [Clients -> Command] /\ Others(c, None) /\ cli'[c] = x
BY DEF Others

LEMMA OnlyCli ==
  ASSUME LinksIInv, NEW c \in Clients, cli' \in [Clients -> Command], Others(c, None),
         CommandOK(cli'[c], record), UNCHANGED <<record, helper>>, BoundsOK'
  PROVE  LinksIInv'
<1>1. /\ record' \in [Ids -> Record] /\ helper' \in [Ids -> Record \cup {None}]
      /\ record' = record /\ helper' = helper
      /\ \A k \in Ids : HelperOK(helper'[k], record'[k])
  BY DEF LinksIInv
<1>2. CommandOK(cli'[c], record')
  BY <1>1
<1> QED BY <1>1, <1>2, StepKeeps

LEMMA EndsKeeps ==
  ASSUME LinksIInv, NEW c \in Clients, Ends(c), BoundsOK'
  PROVE  LinksIInv'
<1>1. Goes(c, "idle", None) /\ UNCHANGED <<record, helper>> /\ "idle" \in Places
  BY DEF Ends, Places
<1>2. cli \in [Clients -> Command]
  BY DEF LinksIInv
<1>3. cli' \in [Clients -> Command] /\ Others(c, None) /\ cli'[c] = NoCommand
  BY <1>1, <1>2, GoesFacts
<1> QED BY <1>1, <1>3, NoCommandOK, OnlyCli

(* The command goes on, with what it knows.                                *)
LEMMA PcFacts ==
  ASSUME NEW x \in Command, NEW p \in Places
  PROVE  LET y == [x EXCEPT !.pc = p] IN
         /\ y \in Command /\ y.pc = p /\ y.id = x.id /\ y.file = x.file /\ y.links = x.links
         /\ y.before = x.before /\ y.stale = x.stale /\ y.donor = x.donor /\ y.raced = x.raced
         /\ y.dns = x.dns /\ ListedBy(y) = ListedBy(x)
BY DEF Command, ListedBy

(* The places of `connection config`.                                      *)
LEMMA ConfigGoes ==
  ASSUME NEW x, NEW rec, CommandOK(x, rec), x.pc \in {"links", "dns", "after", "reconnect"},
         NEW p \in {"links", "dns", "after", "reconnect"}, NEW rec2, rec2[x.id].state # "unused"
  PROVE  CommandOK([x EXCEPT !.pc = p], rec2)
<1> DEFINE y == [x EXCEPT !.pc = p]
<1>1. x \in Command /\ p \in Places
  BY DEF CommandOK, Places
<1>2. /\ y \in Command /\ y.pc = p /\ y.id = x.id /\ y.before = x.before /\ y.stale = x.stale
      /\ ListedBy(y) = ListedBy(x)
  BY <1>1, PcFacts
<1> HIDE DEF y
<1>3. CarriedBy(y, rec2[y.id])
  BY <1>2 DEF CarriedBy
<1>4. CommandOK(y, rec2)
  BY <1>2, <1>3 DEF CommandOK
<1> QED BY <1>4 DEF y

-----------------------------------------------------------------------------
(* What a step may take from the invariant.                                *)
LEMMA Known ==
  ASSUME LinksIInv
  PROVE  /\ record \in [Ids -> Record] /\ helper \in [Ids -> Record \cup {None}]
         /\ cli \in [Clients -> Command] /\ BoundsOK
         /\ \A k \in Ids : RecordOK(record[k]) /\ HelperOK(helper[k], record[k])
         /\ \A d \in Clients :
              /\ CommandOK(cli[d], record) /\ cli[d] \in Command
              /\ cli[d].pc \notin {"idle", "add"} =>
                   cli[d].id \in Ids /\ cli[d].id # None /\ record[cli[d].id].state # "unused"
<1>1. \A d \in Clients : CommandOK(cli[d], record)
  BY DEF LinksIInv
<1>2. \A d \in Clients : /\ cli[d] \in Command
                         /\ cli[d].pc \notin {"idle", "add"} =>
                              cli[d].id \in Ids /\ record[cli[d].id].state # "unused"
  BY <1>1 DEF CommandOK
<1>3. \A k \in Ids : k # None
  BY BypassLinksAssumption
<1> QED BY <1>1, <1>2, <1>3 DEF LinksIInv, BoundsOK

LEMMA WriteFacts ==
  ASSUME LinksIInv, NEW i \in Ids, NEW v, RecordOK(v), v.state = "stored",
         record' = [record EXCEPT ![i] = v], helper' = helper
  PROVE  /\ record' \in [Ids -> Record] /\ helper' \in [Ids -> Record \cup {None}]
         /\ record'[i] = v
         /\ \A k \in Ids : \/ record'[k] = record[k]
                           \/ k = i /\ RecordOK(record'[k]) /\ record'[k].state # "unused"
         /\ \A k \in Ids : HelperOK(helper'[k], record'[k])
<1>1. /\ record' \in [Ids -> Record] /\ record'[i] = v
      /\ \A k \in Ids : k # i => record'[k] = record[k]
      /\ \A k \in Ids : \/ record'[k] = record[k]
                        \/ k = i /\ RecordOK(record'[k]) /\ record'[k].state # "unused"
  BY Writes
<1>2. \A k \in Ids : HelperOK(helper[k], record[k])
  BY Known
<1>3. \A k \in Ids : HelperOK(helper'[k], record'[k])
  BY <1>1, <1>2 DEF HelperOK
<1> QED BY <1>1, <1>3, Known

LEMMA ConfigLinksKeeps ==
  ASSUME LinksIInv, NEW c \in Clients, ConfigLinks(c)
  PROVE  LinksIInv'
<1> DEFINE i == cli[c].id
           links == LinksToSet(c)
<1>1. /\ cli \in [Clients -> Command] /\ CommandOK(cli[c], record) /\ cli[c] \in Command
      /\ cli[c].pc = "links" /\ i \in Ids /\ i # None /\ record[i].state # "unused"
      /\ RecordOK(record[i])
  BY Known DEF ConfigLinks, At
<1>2. BoundsOK'
  BY Known DEF ConfigLinks, At, NotFound, SetBypassLinks, BoundsOK
<1>3. "dns" \in Places
  BY DEF Places
<1>4. CASE Goes(c, "dns", None) /\ UNCHANGED <<record, helper>>
  <2>1. cli' \in [Clients -> Command] /\ Others(c, None) /\ cli'[c] = [cli[c] EXCEPT !.pc = "dns"]
    BY <1>1, <1>3, <1>4, GoesFacts
  <2>2. CommandOK([cli[c] EXCEPT !.pc = "dns"], record)
    BY <1>1, ConfigGoes
  <2> QED BY <1>2, <1>4, <2>1, <2>2, OnlyCli
<1>5. CASE NotFound(c)
  BY <1>2, <1>5, EndsKeeps DEF NotFound
<1>6. CASE cli[c].links # None /\ Stored(i) /\ SetBypassLinks(i, links) /\ Goes(c, "dns", i)
  <2>1. links \in Links
    <3>1. cli[c].links \in Links /\ cli[c].before \in Settable
      BY <1>1, <1>6, CommandFields DEF CommandOK
    <3>2. cli[c].before.links \in Links
      BY <3>1 DEF Settable
    <3> QED BY <3>1, <3>2, MergeIsLinks DEF LinksToSet
  <2> HIDE DEF links
  <2> DEFINE v == [record[i] EXCEPT !.links = Canonical(links)]
  <2>2. /\ AllValid(links, AllowedIps(record[i])) /\ record[i].state = "stored"
        /\ record' = [record EXCEPT ![i] = v] /\ helper' = helper
    BY <1>6 DEF SetBypassLinks, Stored
  <2>3. RecordOK(v) /\ v.state = "stored"
    BY <1>1, <2>1, <2>2, SetLinksOK
  <2> HIDE DEF v, i
  <2>4. /\ record' \in [Ids -> Record] /\ helper' \in [Ids -> Record \cup {None}]
        /\ record'[i] = v
        /\ \A k \in Ids : \/ record'[k] = record[k]
                          \/ k = i /\ RecordOK(record'[k]) /\ record'[k].state # "unused"
        /\ \A k \in Ids : HelperOK(helper'[k], record'[k])
    BY <1>1, <2>2, <2>3, WriteFacts
  <2>5. cli' \in [Clients -> Command] /\ Others(c, i) /\ cli'[c] = [cli[c] EXCEPT !.pc = "dns"]
    BY <1>1, <1>3, <1>6, GoesFacts
  <2>6. CommandOK(cli'[c], record')
    BY <1>1, <2>3, <2>4, <2>5, ConfigGoes DEF i
  <2> QED BY <1>1, <1>2, <2>4, <2>5, <2>6, StepKeeps
<1>7. CASE Ends(c)
  BY <1>2, <1>7, EndsKeeps
<1> QED BY <1>4, <1>5, <1>6, <1>7 DEF ConfigLinks

LEMMA ConfigDnsKeeps ==
  ASSUME LinksIInv, NEW c \in Clients, ConfigDns(c)
  PROVE  LinksIInv'
<1> DEFINE i == cli[c].id
<1>1. /\ cli \in [Clients -> Command] /\ CommandOK(cli[c], record) /\ cli[c] \in Command
      /\ cli[c].pc = "dns" /\ i \in Ids /\ i # None /\ record[i].state # "unused"
      /\ RecordOK(record[i])
  BY Known DEF ConfigDns, At
<1>2. BoundsOK'
  BY Known DEF ConfigDns, At, NotFound, SetDns, BoundsOK
<1>3. "after" \in Places
  BY DEF Places
<1>4. CASE Goes(c, "after", None) /\ UNCHANGED <<record, helper>>
  <2>1. cli' \in [Clients -> Command] /\ Others(c, None) /\ cli'[c] = [cli[c] EXCEPT !.pc = "after"]
    BY <1>1, <1>3, <1>4, GoesFacts
  <2>2. CommandOK([cli[c] EXCEPT !.pc = "after"], record)
    BY <1>1, ConfigGoes
  <2> QED BY <1>2, <1>4, <2>1, <2>2, OnlyCli
<1>5. CASE NotFound(c)
  BY <1>2, <1>5, EndsKeeps DEF NotFound
<1>6. CASE cli[c].dns # None /\ Stored(i) /\ SetDns(i, cli[c].dns) /\ Goes(c, "after", i)
  <2> DEFINE v == [record[i] EXCEPT !.dns = cli[c].dns]
  <2>1. cli[c].dns \in BOOLEAN
    BY <1>1, <1>6, CommandFields
  <2>2. /\ record[i].state = "stored" /\ record' = [record EXCEPT ![i] = v] /\ helper' = helper
    BY <1>6 DEF SetDns, Stored
  <2>3. RecordOK(v) /\ v.state = "stored"
    BY <1>1, <2>1, <2>2, SetDnsOK
  <2> HIDE DEF v, i
  <2>4. /\ record' \in [Ids -> Record] /\ helper' \in [Ids -> Record \cup {None}]
        /\ record'[i] = v
        /\ \A k \in Ids : \/ record'[k] = record[k]
                          \/ k = i /\ RecordOK(record'[k]) /\ record'[k].state # "unused"
        /\ \A k \in Ids : HelperOK(helper'[k], record'[k])
    BY <1>1, <2>2, <2>3, WriteFacts
  <2>5. cli' \in [Clients -> Command] /\ Others(c, i) /\ cli'[c] = [cli[c] EXCEPT !.pc = "after"]
    BY <1>1, <1>3, <1>6, GoesFacts
  <2>6. CommandOK(cli'[c], record')
    BY <1>1, <2>3, <2>4, <2>5, ConfigGoes DEF i
  <2> QED BY <1>1, <1>2, <2>4, <2>5, <2>6, StepKeeps
<1> QED BY <1>4, <1>5, <1>6 DEF ConfigDns

LEMMA ConfigAfterKeeps ==
  ASSUME LinksIInv, NEW c \in Clients, ConfigAfter(c)
  PROVE  LinksIInv'
<1>1. /\ cli \in [Clients -> Command] /\ CommandOK(cli[c], record) /\ cli[c] \in Command
      /\ cli[c].pc = "after" /\ record[cli[c].id].state # "unused"
  BY Known DEF ConfigAfter, At
<1>2. BoundsOK'
  BY Known DEF ConfigAfter, At, NotFound, BoundsOK
<1>3. CASE NotFound(c)
  BY <1>2, <1>3, EndsKeeps DEF NotFound
<1>4. ASSUME NEW p \in {"reconnect", "idle"}, Goes(c, p, None), UNCHANGED <<record, helper>>
      PROVE  LinksIInv'
  <2>1. p \in Places
    BY DEF Places
  <2>2. /\ cli' \in [Clients -> Command] /\ Others(c, None)
        /\ p = "idle" => cli'[c] = NoCommand
        /\ p # "idle" => cli'[c] = [cli[c] EXCEPT !.pc = p]
    BY <1>1, <1>4, <2>1, GoesFacts
  <2>3. CommandOK(cli'[c], record)
    <3>1. CommandOK([cli[c] EXCEPT !.pc = "reconnect"], record)
      BY <1>1, ConfigGoes
    <3> QED BY <2>2, <3>1, NoCommandOK
  <2> QED BY <1>2, <1>4, <2>2, <2>3, OnlyCli
<1> QED BY <1>3, <1>4 DEF ConfigAfter

(* A tunnel is started, or goes down, and the record stays as it is.       *)
LEMMA HelperStarts ==
  ASSUME LinksIInv, NEW i \in Ids, record' = record, record[i].state = "stored",
         helper' = [helper EXCEPT ![i] = Started(record[i])]
  PROVE  /\ helper' \in [Ids -> Record \cup {None}]
         /\ \A k \in Ids : HelperOK(helper'[k], record'[k])
<1>1. Started(record[i]) \in Record /\ HelperOK(Started(record[i]), record[i])
  BY Known, StartedOK
<1>2. helper'[i] = Started(record[i]) /\ \A k \in Ids : k # i => helper'[k] = helper[k]
  BY Known
<1> QED BY <1>1, <1>2, Known

LEMMA HelperStops ==
  ASSUME LinksIInv, NEW i \in Ids, record' = record, helper' = [helper EXCEPT ![i] = None]
  PROVE  /\ helper' \in [Ids -> Record \cup {None}]
         /\ \A k \in Ids : HelperOK(helper'[k], record'[k])
<1>1. helper'[i] = None /\ \A k \in Ids : k # i => helper'[k] = helper[k]
  BY Known
<1> QED BY <1>1, Known DEF HelperOK

LEMMA ReconnectKeeps ==
  ASSUME LinksIInv, NEW c \in Clients, Reconnect(c)
  PROVE  LinksIInv'
<1> DEFINE i == cli[c].id
<1>1. /\ cli \in [Clients -> Command] /\ CommandOK(cli[c], record) /\ cli[c] \in Command
      /\ cli[c].pc = "reconnect" /\ i \in Ids /\ record[i].state # "unused"
  BY Known DEF Reconnect, At
<1>2. BoundsOK'
  BY Known, BypassLinksAssumption DEF Reconnect, At, BoundsOK, Fault, Ends
<1>3. CASE Ends(c)
  BY <1>2, <1>3, EndsKeeps
<1>4. CASE /\ helper[i] # None
           /\ helper' = [helper EXCEPT ![i] = Started(record[i])] \/ helper' = [helper EXCEPT ![i] = None]
           /\ Goes(c, "idle", None) /\ UNCHANGED record
  <2>1. record[i].state = "stored"
    BY <1>1, <1>4, Known DEF HelperOK
  <2> HIDE DEF i
  <2>2. /\ helper' \in [Ids -> Record \cup {None}]
        /\ \A k \in Ids : HelperOK(helper'[k], record'[k])
    <3>1. CASE helper' = [helper EXCEPT ![i] = Started(record[i])]
      BY <1>1, <1>4, <2>1, <3>1, HelperStarts
    <3>2. CASE helper' = [helper EXCEPT ![i] = None]
      BY <1>1, <1>4, <3>2, HelperStops
    <3> QED BY <1>4, <3>1, <3>2
  <2>3. "idle" \in Places
    BY DEF Places
  <2>4. cli' \in [Clients -> Command] /\ Others(c, None) /\ cli'[c] = NoCommand
    BY <1>1, <1>4, <2>3, GoesFacts
  <2> QED BY <1>2, <1>4, <2>2, <2>4, Known, NoCommandOK, StepKeeps
<1> QED BY <1>3, <1>4 DEF Reconnect

LEMMA FormOK ==
  ASSUME NEW x, NEW rec, CommandOK(x, rec)
  PROVE  [x EXCEPT !.form = TRUE] \in Command /\ CommandOK([x EXCEPT !.form = TRUE], rec)
<1> DEFINE y == [x EXCEPT !.form = TRUE]
<1>1. x \in Command
  BY DEF CommandOK
<1>2. /\ y \in Command /\ y.pc = x.pc /\ y.id = x.id /\ y.file = x.file /\ y.links = x.links
      /\ y.before = x.before /\ y.stale = x.stale /\ y.donor = x.donor /\ y.raced = x.raced
  BY <1>1 DEF Command
<1>3. ListedBy(y) = ListedBy(x)
  BY <1>2 DEF ListedBy
<1> HIDE DEF y
<1>4. \A r : CarriedBy(x, r) => CarriedBy(y, r)
  BY <1>2, <1>3 DEF CarriedBy
<1>5. CommandOK(y, rec)
  BY <1>2, <1>3, <1>4 DEF CommandOK
<1> QED BY <1>2, <1>5 DEF y

LEMMA AuthenticateKeeps ==
  ASSUME LinksIInv, NEW c \in Clients, Authenticate(c), BoundsOK'
  PROVE  LinksIInv'
<1> DEFINE y == [cli[c] EXCEPT !.form = TRUE]
<1>1. y \in Command /\ CommandOK(y, record)
  BY Known, FormOK
<1>2. cli' = [cli EXCEPT ![c] = y] /\ UNCHANGED <<record, helper>>
  BY DEF Authenticate
<1> HIDE DEF y
<1>3. cli' \in [Clients -> Command] /\ Others(c, None) /\ cli'[c] = y
  BY <1>1, <1>2, Known, ExceptFacts
<1> QED BY <1>1, <1>2, <1>3, OnlyCli

LEMMA RefreshKeeps ==
  ASSUME LinksIInv, NEW c \in Clients, RefreshConnection(c)
  PROVE  LinksIInv'
<1> DEFINE i == cli[c].id
           file == cli[c].file
           new == Refreshed(record[i], file)
<1>1. /\ cli \in [Clients -> Command] /\ CommandOK(cli[c], record) /\ cli[c] \in Command
      /\ cli[c].pc = "refresh" /\ i \in Ids /\ record[i].state # "unused" /\ RecordOK(record[i])
  BY Known DEF RefreshConnection, At
<1>2. BoundsOK'
  BY Known, BypassLinksAssumption DEF RefreshConnection, At, NotFound, Authenticate, Ends, Fault, BoundsOK
<1>3. CASE NotFound(c)
  BY <1>2, <1>3, EndsKeeps DEF NotFound
<1>4. CASE Ends(c)
  BY <1>2, <1>4, EndsKeeps
<1>5. CASE Authenticate(c)
  BY <1>2, <1>5, AuthenticateKeeps
<1>6. CASE /\ Stored(i) /\ Goes(c, "idle", i)
           /\ \/ /\ record' = [record EXCEPT ![i] = new]
                 /\ \/ helper' = [helper EXCEPT ![i] = IF @ = None THEN None ELSE Started(new)]
                    \/ helper' = [helper EXCEPT ![i] = None]
              \/ UNCHANGED record /\ helper' = [helper EXCEPT ![i] = None]
  <2>1. file \in Configs /\ record[i].state = "stored"
    BY <1>1, <1>6 DEF CommandOK, Stored
  <2>2. RecordOK(new) /\ new.state = "stored"
    BY <1>1, <2>1, RefreshedOK
  <2>3. "idle" \in Places
    BY DEF Places
  <2>4. cli' \in [Clients -> Command] /\ Others(c, i) /\ cli'[c] = NoCommand
    BY <1>1, <1>6, <2>3, GoesFacts
  <2> HIDE DEF new, i, file
  <2>5. CASE UNCHANGED record /\ helper' = [helper EXCEPT ![i] = None]
    <3>1. /\ helper' \in [Ids -> Record \cup {None}]
          /\ \A k \in Ids : HelperOK(helper'[k], record'[k])
      BY <1>1, <2>5, HelperStops
    <3> QED BY <1>1, <1>2, <2>4, <2>5, <3>1, Known, NoCommandOK, StepKeeps
  <2>6. ASSUME NEW h, h = None \/ h = Started(new),
               record' = [record EXCEPT ![i] = new], helper' = [helper EXCEPT ![i] = h]
        PROVE  LinksIInv'
    <3>1. /\ record' \in [Ids -> Record] /\ record'[i] = new
          /\ \A k \in Ids : k # i => record'[k] = record[k]
          /\ \A k \in Ids : \/ record'[k] = record[k]
                            \/ k = i /\ RecordOK(record'[k]) /\ record'[k].state # "unused"
      BY <1>1, <2>2, <2>6, Writes
    <3>2. h \in Record \cup {None} /\ HelperOK(h, new)
      BY <2>2, <2>6, StartedOK DEF HelperOK
    <3>3. /\ helper' \in [Ids -> Record \cup {None}] /\ helper'[i] = h
          /\ \A k \in Ids : k # i => helper'[k] = helper[k]
      BY <1>1, <2>6, <3>2, Known
    <3>4. \A k \in Ids : HelperOK(helper'[k], record'[k])
      BY <3>1, <3>2, <3>3, Known
    <3> QED BY <1>1, <1>2, <2>4, <3>1, <3>3, <3>4, NoCommandOK, StepKeeps
  <2>7. CASE /\ record' = [record EXCEPT ![i] = new]
             /\ helper' = [helper EXCEPT ![i] = IF @ = None THEN None ELSE Started(new)]
    <3> DEFINE h == IF helper[i] = None THEN None ELSE Started(new)
    <3>1. helper' = [helper EXCEPT ![i] = h] /\ (h = None \/ h = Started(new))
      BY <2>7
    <3> HIDE DEF h
    <3> QED BY <2>6, <2>7, <3>1
  <2>8. CASE /\ record' = [record EXCEPT ![i] = new]
             /\ helper' = [helper EXCEPT ![i] = None]
    BY <2>6, <2>8
  <2> QED BY <1>6, <2>5, <2>7, <2>8
<1> QED BY <1>3, <1>4, <1>5, <1>6 DEF RefreshConnection

-----------------------------------------------------------------------------
(* `add --force`.                                                          *)
LEMMA AddKeeps ==
  ASSUME LinksIInv, NEW c \in Clients, AddConnection(c)
  PROVE  LinksIInv'
<1> DEFINE file == cli[c].file
           fresh == {i \in Ids : record[i].state = "unused"}
           y(i) == [cli[c] EXCEPT !.id = i, !.pc = "list", !.form = FALSE]
           v == [state |-> "stored", allowed |-> file, links |-> <<>>, dns |-> FALSE]
<1>1. /\ cli \in [Clients -> Command] /\ CommandOK(cli[c], record) /\ cli[c] \in Command
      /\ cli[c].pc = "add" /\ file \in Configs
  BY Known DEF AddConnection, At, CommandOK
<1>2. BoundsOK'
  BY Known DEF AddConnection, At, Authenticate, BoundsOK
<1>3. ASSUME NEW i \in Ids
      PROVE  /\ y(i) \in Command
             /\ \A rec : rec[i].state # "unused" => CommandOK(y(i), rec)
  <2>1. /\ y(i) \in Command /\ y(i).pc = "list" /\ y(i).id = i /\ y(i).stale = cli[c].stale
    BY <1>1 DEF Command, Places
  <2> HIDE DEF y
  <2>2. ListedBy(y(i)) = ListedBy(cli[c])
    BY <2>1 DEF ListedBy
  <2>3. \A r : CarriedBy(y(i), r)
    BY <2>1 DEF CarriedBy
  <2> QED BY <1>1, <2>1, <2>2, <2>3 DEF CommandOK
<1>4. ASSUME NEW i \in Ids, cli' = [cli EXCEPT ![c].id = i, ![c].pc = "list", ![c].form = FALSE]
      PROVE  cli' = [cli EXCEPT ![c] = y(i)]
  BY <1>1, <1>4
<1>5. CASE \E i \in WithConfig(file) :
             /\ cli' = [cli EXCEPT ![c].id = i, ![c].pc = "list", ![c].form = FALSE]
             /\ UNCHANGED <<record, helper>>
  <2>1. PICK i \in Ids : /\ Stored(i) /\ UNCHANGED <<record, helper>>
                         /\ cli' = [cli EXCEPT ![c].id = i, ![c].pc = "list", ![c].form = FALSE]
    BY <1>5 DEF WithConfig
  <2>2. cli' = [cli EXCEPT ![c] = y(i)]
    BY <1>4, <2>1
  <2>3. y(i) \in Command /\ CommandOK(y(i), record)
    BY <1>3, <2>1 DEF Stored
  <2> HIDE DEF y
  <2>4. cli' \in [Clients -> Command] /\ Others(c, None) /\ cli'[c] = y(i)
    BY <1>1, <2>2, <2>3, ExceptFacts
  <2> QED BY <1>2, <2>1, <2>3, <2>4, OnlyCli
<1>6. CASE Authenticate(c)
  BY <1>2, <1>6, AuthenticateKeeps
<1>7. CASE \E i \in fresh : /\ record' = [record EXCEPT ![i] = v] /\ UNCHANGED helper
                            /\ cli' = [cli EXCEPT ![c].id = i, ![c].pc = "list", ![c].form = FALSE]
  <2>1. PICK i \in Ids : /\ record[i].state = "unused" /\ UNCHANGED helper
                         /\ record' = [record EXCEPT ![i] = v]
                         /\ cli' = [cli EXCEPT ![c].id = i, ![c].pc = "list", ![c].form = FALSE]
    BY <1>7
  <2>2. RecordOK(v) /\ v.state = "stored"
    BY <1>1, NewRecordOK
  <2>3. cli' = [cli EXCEPT ![c] = y(i)]
    BY <1>4, <2>1
  <2> HIDE DEF v
  <2>4. /\ record' \in [Ids -> Record] /\ helper' \in [Ids -> Record \cup {None}]
        /\ record'[i] = v
        /\ \A k \in Ids : \/ record'[k] = record[k]
                          \/ k = i /\ RecordOK(record'[k]) /\ record'[k].state # "unused"
        /\ \A k \in Ids : HelperOK(helper'[k], record'[k])
    BY <2>1, <2>2, WriteFacts
  <2>5. y(i) \in Command /\ CommandOK(y(i), record')
    BY <1>3, <2>2, <2>4
  <2> HIDE DEF y
  <2>6. cli' \in [Clients -> Command] /\ Others(c, None) /\ cli'[c] = y(i)
    BY <1>1, <2>3, <2>5, ExceptFacts
  <2>7. Others(c, i)
    <3>1. ASSUME NEW d \in Clients \ {c} PROVE cli[d].id # i
      <4>1. CommandOK(cli[d], record)
        BY Known
      <4> QED BY <4>1, <2>1, BypassLinksAssumption DEF CommandOK
    <3> QED BY <2>6, <3>1 DEF Others
  <2> QED BY <1>2, <2>4, <2>5, <2>6, <2>7, StepKeeps
<1> QED BY <1>5, <1>6, <1>7 DEF AddConnection

LEMMA ListKeeps ==
  ASSUME LinksIInv, NEW c \in Clients, ListStale(c)
  PROVE  LinksIInv'
<1> DEFINE listed == [k \in Ids |-> IF k \in StaleIds(c) THEN Settings(record[k]) ELSE None]
           y == [cli[c] EXCEPT !.pc = "keepDns", !.stale = listed]
<1>1. /\ cli \in [Clients -> Command] /\ CommandOK(cli[c], record) /\ cli[c] \in Command
      /\ cli[c].pc = "list" /\ cli[c].id \in Ids /\ record[cli[c].id].state # "unused"
  BY Known DEF ListStale, At
<1>2. BoundsOK'
  BY Known DEF ListStale, At, BoundsOK
<1>3. \A k \in Ids : Settings(record[k]) \in Settable /\ IsCanonical(Settings(record[k]).links)
  <2>1. \A k \in Ids : record[k] \in Record /\ IsCanonical(record[k].links)
    BY Known DEF RecordOK
  <2> QED BY <2>1, RecordIs DEF Settings, Settable
<1>4. listed \in [Ids -> Settable \cup {None}]
  BY <1>3
<1>5. \A k \in Ids : listed[k] # None =>
        k # cli[c].id /\ listed[k] \in Settable /\ IsCanonical(listed[k].links)
  BY <1>3 DEF StaleIds
<1> HIDE DEF listed
<1>6. /\ y \in Command /\ y.pc = "keepDns" /\ y.id = cli[c].id /\ y.stale = listed
  BY <1>1, <1>4 DEF Command, Places
<1>7. cli' = [cli EXCEPT ![c] = y] /\ UNCHANGED <<record, helper>>
  BY <1>1 DEF ListStale, listed
<1> HIDE DEF y
<1>8. \A r : CarriedBy(y, r)
  BY <1>6 DEF CarriedBy
<1>9. CommandOK(y, record)
  BY <1>1, <1>5, <1>6, <1>8 DEF CommandOK, ListedBy
<1>10. cli' \in [Clients -> Command] /\ Others(c, None) /\ cli'[c] = y
  BY <1>1, <1>6, <1>7, ExceptFacts
<1> QED BY <1>2, <1>7, <1>9, <1>10, OnlyCli

(* The settings of the new record are written: what is carried over is.    *)
LEMMA KeepDnsKeeps ==
  ASSUME LinksIInv, NEW c \in Clients, KeepDns(c)
  PROVE  LinksIInv'
<1> DEFINE i == cli[c].id
           y == [cli[c] EXCEPT !.pc = "keepLinks"]
           wanted == \E j \in Listed(c) : cli[c].stale[j].dns
<1>1. /\ cli \in [Clients -> Command] /\ CommandOK(cli[c], record) /\ cli[c] \in Command
      /\ cli[c].pc = "keepDns" /\ i \in Ids /\ i # None /\ record[i].state # "unused"
      /\ RecordOK(record[i])
  BY Known DEF KeepDns, At
<1>2. BoundsOK'
  BY Known DEF KeepDns, At, NotFound, SetDns, BoundsOK
<1>3. "keepLinks" \in Places
  BY DEF Places
<1>4. /\ y \in Command /\ y.pc = "keepLinks" /\ y.id = i /\ y.stale = cli[c].stale
      /\ y.raced = cli[c].raced /\ ListedBy(y) = ListedBy(cli[c])
  BY <1>1, <1>3, PcFacts
<1>5. ListedBy(cli[c]) = Listed(c)
  BY DEF ListedBy, Listed
<1>6. ASSUME NEW rec, rec[i].state # "unused", wanted => rec[i].dns
      PROVE  CommandOK(y, rec)
  <2> HIDE DEF y
  <2>1. CarriedBy(y, rec[y.id])
    BY <1>4, <1>5, <1>6 DEF CarriedBy
  <2> QED BY <1>1, <1>4, <1>6, <2>1 DEF CommandOK
<1>7. CASE ~wanted /\ Goes(c, "keepLinks", None) /\ UNCHANGED <<record, helper>>
  <2>1. cli' \in [Clients -> Command] /\ Others(c, None) /\ cli'[c] = y
    BY <1>1, <1>3, <1>7, GoesFacts
  <2>2. CommandOK(y, record)
    BY <1>1, <1>6, <1>7
  <2> HIDE DEF y
  <2> QED BY <1>2, <1>7, <2>1, <2>2, OnlyCli
<1>8. CASE NotFound(c)
  BY <1>2, <1>8, EndsKeeps DEF NotFound
<1>9. CASE Stored(i) /\ SetDns(i, TRUE) /\ Goes(c, "keepLinks", i)
  <2> DEFINE v == [record[i] EXCEPT !.dns = TRUE]
  <2>1. /\ record[i].state = "stored" /\ record' = [record EXCEPT ![i] = v] /\ helper' = helper
    BY <1>9 DEF SetDns, Stored
  <2>2. RecordOK(v) /\ v.state = "stored" /\ v.dns = TRUE
    BY <1>1, <2>1, SetDnsOK
  <2>3. cli' \in [Clients -> Command] /\ Others(c, i) /\ cli'[c] = y
    BY <1>1, <1>3, <1>9, GoesFacts
  <2> HIDE DEF v, i, y
  <2>4. /\ record' \in [Ids -> Record] /\ helper' \in [Ids -> Record \cup {None}]
        /\ record'[i] = v
        /\ \A k \in Ids : \/ record'[k] = record[k]
                          \/ k = i /\ RecordOK(record'[k]) /\ record'[k].state # "unused"
        /\ \A k \in Ids : HelperOK(helper'[k], record'[k])
    BY <1>1, <2>1, <2>2, WriteFacts
  <2>5. CommandOK(y, record')
    BY <1>6, <2>2, <2>4
  <2> QED BY <1>1, <1>2, <2>3, <2>4, <2>5, StepKeeps
<1> QED BY <1>7, <1>8, <1>9 DEF KeepDns

LEMMA KeepLinksKeeps ==
  ASSUME LinksIInv, NEW c \in Clients, KeepLinks(c)
  PROVE  LinksIInv'
<1> DEFINE x == cli[c]
           i == x.id
<1>1. /\ cli \in [Clients -> Command] /\ CommandOK(x, record) /\ x \in Command
      /\ x.pc = "keepLinks" /\ i \in Ids /\ record[i].state # "unused"
  BY Known DEF KeepLinks, At
<1>2. BoundsOK'
  BY Known DEF KeepLinks, At, NotFound, BoundsOK
<1>3. ListedBy(x) = Listed(c)
  BY DEF ListedBy, Listed
<1>4. \A j \in ListedBy(x) : x.stale[j].links \in Links /\ IsCanonical(x.stale[j].links)
  BY <1>1 DEF CommandOK, Settable
<1>5. CASE HasLinks(c) = {} /\ Goes(c, "disconnect", None) /\ UNCHANGED <<record, helper>>
  <2> DEFINE y == [x EXCEPT !.pc = "disconnect"]
  <2>1. "disconnect" \in Places
    BY DEF Places
  <2>2. cli' \in [Clients -> Command] /\ Others(c, None) /\ cli'[c] = y
    BY <1>1, <1>5, <2>1, GoesFacts
  <2>3. /\ y \in Command /\ y.pc = "disconnect" /\ y.id = i /\ y.stale = x.stale /\ y.donor = x.donor
        /\ y.raced = x.raced /\ ListedBy(y) = ListedBy(x)
    BY <1>1, <2>1, PcFacts
  <2>4. \A j \in ListedBy(x) : x.stale[j].links = <<>>
    BY <1>3, <1>5 DEF HasLinks
  <2> HIDE DEF y
  <2>5. CarriedBy(x, record[i]) => CarriedBy(y, record[i])
    BY <1>1, <2>3, <2>4, EmptyLinks DEF CarriedBy
  <2>6. CommandOK(y, record)
    BY <1>1, <2>3, <2>5 DEF CommandOK
  <2> QED BY <1>2, <1>5, <2>2, <2>6, OnlyCli
<1>6. CASE NotFound(c)
  BY <1>2, <1>6, EndsKeeps DEF NotFound
<1>7. ASSUME NEW j \in HasLinks(c), UNCHANGED <<record, helper>>,
             LET pruned == PruneLinks(cli[c].stale[j].links, AllowedIps(record[cli[c].id]))
             IN  cli' = [cli EXCEPT ![c].links = pruned, ![c].donor = j,
                                    ![c].pc = IF pruned = <<>> THEN "disconnect" ELSE "carry"]
      PROVE  LinksIInv'
  <2> DEFINE A == AllowedIps(record[i])
             old == x.stale[j].links
             pruned == PruneLinks(old, A)
             p == IF pruned = <<>> THEN "disconnect" ELSE "carry"
             y == [x EXCEPT !.links = pruned, !.donor = j, !.pc = p]
  <2>1. j \in ListedBy(x) /\ j \in Ids
    BY <1>3 DEF HasLinks, Listed
  <2>2. old \in Links /\ IsCanonical(old)
    BY <1>4, <2>1
  <2>3. pruned \in Links /\ Supported(pruned, A) = Supported(old, A)
    BY <2>2, PruneFacts, PrunedSupports
  <2>4. cli' = [cli EXCEPT ![c] = y]
    BY <1>1, <1>7
  <2>5. p \in {"disconnect", "carry"} /\ p \in Places
    BY DEF Places
  <2>5a. p = "disconnect" => pruned = <<>>
    OBVIOUS
  <2> HIDE DEF pruned, p
  <2>6. /\ y \in Command /\ y.pc = p /\ y.id = i /\ y.stale = x.stale /\ y.donor = j
        /\ y.links = pruned /\ y.raced = x.raced
    BY <1>1, <2>1, <2>3, <2>5 DEF Command
  <2> HIDE DEF y
  <2>7. ListedBy(y) = ListedBy(x)
    BY <2>6 DEF ListedBy
  <2>8. CarriedBy(x, record[i]) => CarriedBy(y, record[i])
    <3>1. p = "disconnect" => Supported(old, A) \subseteq Supported(record[i].links, A)
      BY <2>3, <2>5a, EmptyLinks
    <3> HIDE DEF A
    <3>2. y.pc = "carry" => y.donor \in ListedBy(y) /\ y.links = PruneLinks(y.stale[y.donor].links, A)
      BY <2>1, <2>6, <2>7 DEF pruned
    <3>3. y.pc \in {"disconnect", "remove"} =>
            Supported(y.stale[y.donor].links, A) \subseteq Supported(record[i].links, A)
      BY <2>5, <2>6, <3>1
    <3>4. ASSUME CarriedBy(x, record[i])
          PROVE  \A k \in ListedBy(y) : y.stale[k].dns => record[i].dns
      BY <1>1, <2>6, <2>7, <3>4 DEF CarriedBy
    <3>5. y.donor # None
      BY <2>1, <2>6, BypassLinksAssumption
    <3> QED BY <3>2, <3>3, <3>4, <3>5 DEF CarriedBy, A
  <2>9. CommandOK(y, record)
    BY <1>1, <2>3, <2>5, <2>6, <2>7, <2>8 DEF CommandOK
  <2>10. cli' \in [Clients -> Command] /\ Others(c, None) /\ cli'[c] = y
    BY <1>1, <2>4, <2>6, ExceptFacts
  <2> QED BY <1>2, <1>7, <2>9, <2>10, OnlyCli
<1> QED BY <1>5, <1>6, <1>7 DEF KeepLinks

LEMMA CarryKeeps ==
  ASSUME LinksIInv, NEW c \in Clients, CarryLinks(c)
  PROVE  LinksIInv'
<1> DEFINE x == cli[c]
           i == x.id
<1>1. /\ cli \in [Clients -> Command] /\ CommandOK(x, record) /\ x \in Command
      /\ x.pc = "carry" /\ i \in Ids /\ i # None /\ record[i].state # "unused" /\ RecordOK(record[i])
      /\ x.links \in Links
  BY Known DEF CarryLinks, At, CommandOK
<1>2. BoundsOK'
  BY Known DEF CarryLinks, At, NotFound, SetBypassLinks, BoundsOK
<1>3. CASE NotFound(c)
  BY <1>2, <1>3, EndsKeeps DEF NotFound
<1>4. CASE Ends(c)
  BY <1>2, <1>4, EndsKeeps
<1>5. CASE Stored(i) /\ SetBypassLinks(i, x.links) /\ Goes(c, "disconnect", i)
  <2> DEFINE v == [record[i] EXCEPT !.links = Canonical(x.links)]
             y == [x EXCEPT !.pc = "disconnect"]
  <2>1. /\ AllValid(x.links, AllowedIps(record[i])) /\ record[i].state = "stored"
        /\ record' = [record EXCEPT ![i] = v] /\ helper' = helper
    BY <1>5 DEF SetBypassLinks, Stored
  <2>2. /\ RecordOK(v) /\ v.state = "stored" /\ v.allowed = record[i].allowed
        /\ v.links = Canonical(x.links) /\ v.dns = record[i].dns
    BY <1>1, <2>1, SetLinksOK
  <2>3. "disconnect" \in Places
    BY DEF Places
  <2>4. cli' \in [Clients -> Command] /\ Others(c, i) /\ cli'[c] = y
    BY <1>1, <1>5, <2>3, GoesFacts
  <2>5. /\ y \in Command /\ y.pc = "disconnect" /\ y.id = i /\ y.stale = x.stale /\ y.donor = x.donor
        /\ y.raced = x.raced /\ ListedBy(y) = ListedBy(x)
    BY <1>1, <2>3, PcFacts
  <2>6. CarriedBy(x, record[i]) => CarriedBy(y, v)
    <3>1. SUFFICES ASSUME CarriedBy(x, record[i]) PROVE CarriedBy(y, v)
      OBVIOUS
    <3> DEFINE A == AllowedIps(record[i])
               old == x.stale[x.donor].links
    <3>2. /\ x.donor \in ListedBy(x) /\ x.links = PruneLinks(old, A)
          /\ \A j \in ListedBy(x) : x.stale[j].dns => record[i].dns
      BY <1>1, <3>1 DEF CarriedBy
    <3>3. old \in Links /\ IsCanonical(old)
      BY <1>1, <3>2 DEF CommandOK, Settable
    <3> HIDE DEF A, old
    <3>4. Supported(x.links, A) = Supported(old, A) /\ IsCanonical(x.links)
      BY <3>2, <3>3, PrunedSupports
    <3>5. Canonical(x.links) = x.links
      <4>1. x.links = [k \in DOMAIN x.links |-> x.links[k]]
        BY <1>1, LinksAre
      <4>2. \A k \in DOMAIN x.links : CanonicalLink(x.links[k]) = x.links[k]
        BY <3>4 DEF IsCanonical
      <4> QED BY <4>1, <4>2, Zenon DEF Canonical
    <3>6. AllowedIps(v) = A
      BY <2>2 DEF AllowedIps, A
    <3> HIDE DEF v, y
    <3>7. Supported(y.stale[y.donor].links, AllowedIps(v)) \subseteq Supported(v.links, AllowedIps(v))
      BY <2>2, <2>5, <3>4, <3>5, <3>6 DEF old
    <3>8. y.donor # None
      BY <2>5, <3>2, BypassLinksAssumption DEF ListedBy
    <3> QED BY <2>2, <2>5, <3>2, <3>7, <3>8 DEF CarriedBy
  <2> HIDE DEF v, y, i
  <2>7. /\ record' \in [Ids -> Record] /\ helper' \in [Ids -> Record \cup {None}]
        /\ record'[i] = v
        /\ \A k \in Ids : \/ record'[k] = record[k]
                          \/ k = i /\ RecordOK(record'[k]) /\ record'[k].state # "unused"
        /\ \A k \in Ids : HelperOK(helper'[k], record'[k])
    BY <1>1, <2>1, <2>2, WriteFacts
  <2>8. CommandOK(y, record')
    <3>1. ~x.raced => CarriedBy(x, record[i])
      BY <1>1 DEF CommandOK, i
    <3>2. x.id = i
      BY DEF i
    <3> HIDE DEF x
    <3> QED BY <1>1, <2>2, <2>5, <2>6, <2>7, <3>1, <3>2 DEF CommandOK
  <2> QED BY <1>1, <1>2, <2>4, <2>7, <2>8, StepKeeps
<1> QED BY <1>3, <1>4, <1>5 DEF CarryLinks

LEMMA StaleDoneFacts ==
  ASSUME LinksIInv, NEW c \in Clients, NEW j \in Ids, StaleDone(c, j),
         cli[c].pc \in {"disconnect", "remove"}
  PROVE  /\ cli' \in [Clients -> Command] /\ Others(c, j)
         /\ \A rec : rec[cli[c].id] = record[cli[c].id] => CommandOK(cli'[c], rec)
<1> DEFINE x == cli[c]
           y == [x EXCEPT !.pc = "disconnect", !.form = FALSE, !.stale[j] = None]
           mark(d) == cli[d].raced \/ cli[d].id = j
<1>1. /\ cli \in [Clients -> Command] /\ CommandOK(x, record) /\ x \in Command
      /\ x.id \in Ids /\ record[x.id].state # "unused"
  BY Known
<1>2. cli' = [d \in Clients |-> IF d = c THEN y ELSE [cli[d] EXCEPT !.raced = mark(d)]]
  BY DEF StaleDone
<1>3. /\ y \in Command /\ y.pc = "disconnect" /\ y.id = x.id /\ y.donor = x.donor /\ y.raced = x.raced
      /\ \A k \in Ids : k # j => y.stale[k] = x.stale[k]
      /\ y.stale[j] = None
  BY <1>1 DEF Command, Places
<1>4. \A k \in ListedBy(y) : k \in ListedBy(x) /\ y.stale[k] = x.stale[k]
  BY <1>3 DEF ListedBy
<1> HIDE DEF y
<1>5. \A r : CarriedBy(x, r) => CarriedBy(y, r)
  BY <1>3, <1>4 DEF CarriedBy
<1>6. \A rec : rec[x.id] = record[x.id] => CommandOK(y, rec)
  BY <1>1, <1>3, <1>4, <1>5 DEF CommandOK
<1>7. ASSUME NEW d \in Clients
      PROVE  /\ [cli[d] EXCEPT !.raced = mark(d)] \in Command
             /\ [cli[d] EXCEPT !.raced = mark(d)] \in {cli[d], [cli[d] EXCEPT !.raced = TRUE]}
             /\ [cli[d] EXCEPT !.raced = mark(d)].raced = mark(d)
  <2>1. mark(d) \in BOOLEAN /\ cli[d] \in Command
    BY <1>1
  <2>2. mark(d) = TRUE \/ mark(d) = cli[d].raced
    BY <2>1, CommandFields
  <2> HIDE DEF mark
  <2>3. [cli[d] EXCEPT !.raced = cli[d].raced] = cli[d]
    BY <2>1 DEF Command
  <2> QED BY <2>1, <2>2, <2>3 DEF Command
<1>8. \A d \in Clients : cli[d].id = j => mark(d)
  OBVIOUS
<1> HIDE DEF mark
<1>9. cli' \in [Clients -> Command] /\ cli'[c] = y
  BY <1>2, <1>3, <1>7
<1>10. Others(c, j)
  <2>1. \A d \in Clients \ {c} : cli'[d] = [cli[d] EXCEPT !.raced = mark(d)]
    BY <1>2
  <2> QED BY <2>1, <1>7, <1>8 DEF Others
<1> QED BY <1>6, <1>9, <1>10

LEMMA DisconnectKeeps ==
  ASSUME LinksIInv, NEW c \in Clients, DisconnectStale(c)
  PROVE  LinksIInv'
<1> DEFINE x == cli[c]
<1>1. /\ cli \in [Clients -> Command] /\ CommandOK(x, record) /\ x \in Command
      /\ x.pc = "disconnect" /\ x.id \in Ids /\ record[x.id].state # "unused"
  BY Known DEF DisconnectStale, At
<1>2. BoundsOK'
  BY Known DEF DisconnectStale, At, BoundsOK
<1>3. CASE Ends(c)
  BY <1>2, <1>3, EndsKeeps
<1>4. ASSUME NEW j \in Ids, StaleDone(c, j), UNCHANGED <<record, helper>>
      PROVE  LinksIInv'
  <2>1. cli' \in [Clients -> Command] /\ Others(c, j) /\ CommandOK(cli'[c], record')
    BY <1>1, <1>4, StaleDoneFacts
  <2> QED BY <1>2, <1>4, <2>1, Known, StepKeeps
<1>5. ASSUME NEW j \in Ids, helper' = [helper EXCEPT ![j] = None],
             Goes(c, "remove", None), UNCHANGED record
      PROVE  LinksIInv'
  <2> DEFINE y == [x EXCEPT !.pc = "remove"]
  <2>1. "remove" \in Places
    BY DEF Places
  <2>2. cli' \in [Clients -> Command] /\ Others(c, None) /\ cli'[c] = y
    BY <1>1, <1>5, <2>1, GoesFacts
  <2>3. /\ y \in Command /\ y.pc = "remove" /\ y.id = x.id /\ y.stale = x.stale /\ y.donor = x.donor
        /\ y.raced = x.raced /\ ListedBy(y) = ListedBy(x)
    BY <1>1, <2>1, PcFacts
  <2> HIDE DEF y
  <2>4. \A r : CarriedBy(x, r) => CarriedBy(y, r)
    BY <1>1, <2>3 DEF CarriedBy
  <2>5. CommandOK(y, record)
    BY <1>1, <2>3, <2>4 DEF CommandOK
  <2>6. /\ helper' \in [Ids -> Record \cup {None}]
        /\ \A k \in Ids : HelperOK(helper'[k], record'[k])
    BY <1>5, HelperStops
  <2> QED BY <1>2, <1>5, <2>2, <2>5, <2>6, Known, StepKeeps
<1>6. NextStale(c) \subseteq Ids
  BY DEF NextStale, Listed
<1> QED BY <1>3, <1>4, <1>5, <1>6 DEF DisconnectStale

LEMMA RemoveKeeps ==
  ASSUME LinksIInv, NEW c \in Clients, RemoveStale(c)
  PROVE  LinksIInv'
<1> DEFINE x == cli[c]
           v == [NoRecord EXCEPT !.state = "removed"]
<1>1. /\ cli \in [Clients -> Command] /\ CommandOK(x, record) /\ x \in Command
      /\ x.pc = "remove" /\ x.id \in Ids /\ record[x.id].state # "unused"
      /\ x.id \notin Listed(c)
  BY Known DEF RemoveStale, At, CommandOK, ListedBy, Listed
<1>2. BoundsOK'
  BY Known DEF RemoveStale, At, Authenticate, BoundsOK
<1>3. ASSUME NEW j \in Ids, StaleDone(c, j), UNCHANGED <<record, helper>>
      PROVE  LinksIInv'
  <2>1. cli' \in [Clients -> Command] /\ Others(c, j) /\ CommandOK(cli'[c], record')
    BY <1>1, <1>3, StaleDoneFacts
  <2> QED BY <1>2, <1>3, <2>1, Known, StepKeeps
<1>4. CASE /\ cli' = [cli EXCEPT ![c].pc = "disconnect", ![c].form = FALSE]
           /\ UNCHANGED <<record, helper>>
  <2> DEFINE y == [x EXCEPT !.pc = "disconnect", !.form = FALSE]
  <2>1. cli' = [cli EXCEPT ![c] = y]
    BY <1>1, <1>4
  <2>2. /\ y \in Command /\ y.pc = "disconnect" /\ y.id = x.id /\ y.stale = x.stale
        /\ y.donor = x.donor /\ y.raced = x.raced
    BY <1>1 DEF Command, Places
  <2> HIDE DEF y
  <2>3. ListedBy(y) = ListedBy(x)
    BY <2>2 DEF ListedBy
  <2>4. \A r : CarriedBy(x, r) => CarriedBy(y, r)
    BY <1>1, <2>2, <2>3 DEF CarriedBy
  <2>5. CommandOK(y, record)
    BY <1>1, <2>2, <2>3, <2>4 DEF CommandOK
  <2>6. cli' \in [Clients -> Command] /\ Others(c, None) /\ cli'[c] = y
    BY <1>1, <2>1, <2>2, ExceptFacts
  <2> QED BY <1>2, <1>4, <2>5, <2>6, OnlyCli
<1>5. CASE Authenticate(c)
  BY <1>2, <1>5, AuthenticateKeeps
<1>6. ASSUME NEW j \in Listed(c), helper[j] = None, StaleDone(c, j),
             record' = [record EXCEPT ![j] = v], UNCHANGED helper
      PROVE  LinksIInv'
  <2>1. j \in Ids /\ j # x.id
    BY <1>1 DEF Listed
  <2>2. RecordOK(v) /\ v.state # "unused"
    BY NewRecordOK DEF NoRecord
  <2> HIDE DEF v
  <2>3. /\ record' \in [Ids -> Record] /\ record'[j] = v
        /\ \A k \in Ids : k # j => record'[k] = record[k]
        /\ \A k \in Ids : \/ record'[k] = record[k]
                          \/ k = j /\ RecordOK(record'[k]) /\ record'[k].state # "unused"
    BY <1>6, <2>1, <2>2, Writes
  <2>4. cli' \in [Clients -> Command] /\ Others(c, j) /\ CommandOK(cli'[c], record')
    BY <1>1, <1>6, <2>1, <2>3, StaleDoneFacts
  <2>5. helper' \in [Ids -> Record \cup {None}] /\ \A k \in Ids : HelperOK(helper'[k], record'[k])
    <3>1. helper' = helper /\ \A k \in Ids : HelperOK(helper[k], record[k])
      BY <1>6, Known
    <3> QED BY <3>1, <2>3, <1>6, Known DEF HelperOK
  <2> QED BY <1>2, <2>1, <2>3, <2>4, <2>5, StepKeeps
<1>7. NextStale(c) \subseteq Listed(c) /\ Listed(c) \subseteq Ids
  BY DEF NextStale, Listed
<1> QED BY <1>3, <1>4, <1>5, <1>6, <1>7 DEF RemoveStale

-----------------------------------------------------------------------------
(* Commands begin, fail; tunnels come up and go down.                      *)
LEMMA BeginKeeps ==
  ASSUME LinksIInv, NEW c \in Clients, NEW x, CommandOK(x, record), Begin(c, x)
  PROVE  LinksIInv'
<1>1. x \in Command /\ cli' = [cli EXCEPT ![c] = x] /\ UNCHANGED <<record, helper>>
  BY DEF Begin, CommandOK
<1>2. BoundsOK'
  BY Known, BypassLinksAssumption DEF Begin, BoundsOK
<1>3. cli' \in [Clients -> Command] /\ Others(c, None) /\ cli'[c] = x
  BY <1>1, Known, ExceptFacts
<1> QED BY <1>1, <1>2, <1>3, OnlyCli

LEMMA CommandsKeep ==
  ASSUME LinksIInv, NEW c \in Clients, CmdConfig(c) \/ CmdRefresh(c) \/ CmdAdd(c)
  PROVE  LinksIInv'
<1>1. CASE CmdConfig(c)
  <2>1. PICK i \in Ids, o \in Options :
          /\ Stored(i)
          /\ Begin(c, [NoCommand EXCEPT
               !.pc = "links", !.id = i, !.merge = o.merge, !.dns = o.dns, !.apply = o.apply,
               !.links = ParseLinks(o.links), !.before = Settings(record[i])])
    BY <1>1 DEF CmdConfig
  <2> DEFINE links == ParseLinks(o.links)
             before == Settings(record[i])
             x == [NoCommand EXCEPT
                     !.pc = "links", !.id = i, !.merge = o.merge, !.dns = o.dns, !.apply = o.apply,
                     !.links = links, !.before = before]
  <2>2. o.merge \in BOOLEAN /\ o.apply \in BOOLEAN /\ o.dns \in BOOLEAN \cup {None}
    BY BypassLinksAssumption
  <2>3. links \in Links \cup {None}
    BY BypassLinksAssumption, CanonicalFacts DEF ParseLinks
  <2>4. before \in Settable
    BY Known, RecordIs DEF Settings, Settable
  <2> HIDE DEF links, before
  <2>5. /\ x \in Command /\ x.pc = "links" /\ x.id = i /\ x.before = before
        /\ x.stale = [k \in Ids |-> None]
    BY <2>2, <2>3, <2>4, NoCommandOK DEF Command, Places, NoCommand
  <2>6. Begin(c, x)
    BY <2>1 DEF links, before
  <2> HIDE DEF x
  <2>7. ListedBy(x) = {} /\ \A r : CarriedBy(x, r)
    BY <2>5 DEF ListedBy, CarriedBy
  <2>8. CommandOK(x, record)
    BY <2>1, <2>4, <2>5, <2>7 DEF CommandOK, Stored
  <2> QED BY <2>6, <2>8, BeginKeeps
<1>2. CASE CmdRefresh(c)
  <2>1. PICK i \in Ids, file \in Configs :
          Stored(i) /\ Begin(c, [NoCommand EXCEPT !.pc = "refresh", !.id = i, !.file = file])
    BY <1>2 DEF CmdRefresh
  <2> DEFINE x == [NoCommand EXCEPT !.pc = "refresh", !.id = i, !.file = file]
  <2>2. /\ x \in Command /\ x.pc = "refresh" /\ x.id = i /\ x.file = file
        /\ x.stale = [k \in Ids |-> None]
    BY NoCommandOK DEF Command, Places, NoCommand
  <2>3. Begin(c, x)
    BY <2>1
  <2> HIDE DEF x
  <2>4. ListedBy(x) = {} /\ \A r : CarriedBy(x, r)
    BY <2>2 DEF ListedBy, CarriedBy
  <2>5. CommandOK(x, record)
    BY <2>1, <2>2, <2>4 DEF CommandOK, Stored
  <2> QED BY <2>3, <2>5, BeginKeeps
<1>3. CASE CmdAdd(c)
  <2>1. PICK file \in Configs : Begin(c, [NoCommand EXCEPT !.pc = "add", !.file = file])
    BY <1>3 DEF CmdAdd
  <2> DEFINE x == [NoCommand EXCEPT !.pc = "add", !.file = file]
  <2>2. /\ x \in Command /\ x.pc = "add" /\ x.id = None /\ x.file = file
        /\ x.stale = [k \in Ids |-> None]
    BY NoCommandOK DEF Command, Places, NoCommand
  <2>3. Begin(c, x)
    BY <2>1
  <2> HIDE DEF x
  <2>4. ListedBy(x) = {}
    BY <2>2 DEF ListedBy
  <2>5. CommandOK(x, record)
    BY <2>2, <2>4 DEF CommandOK
  <2> QED BY <2>3, <2>5, BeginKeeps
<1> QED BY <1>1, <1>2, <1>3

LEMMA FailsKeeps ==
  ASSUME LinksIInv, NEW c \in Clients, Fails(c)
  PROVE  LinksIInv'
<1>1. BoundsOK'
  BY Known, BypassLinksAssumption DEF Fails, Fault, BoundsOK
<1> QED BY <1>1, EndsKeeps DEF Fails

LEMMA EventsKeep ==
  ASSUME LinksIInv, NEW i \in Ids, Connect(i) \/ Disconnect(i)
  PROVE  LinksIInv'
<1>1. BoundsOK'
  BY Known, BypassLinksAssumption DEF Connect, Disconnect, BoundsOK
<1>2. record' = record /\ cli' = cli
  BY DEF Connect, Disconnect
<1>3. /\ helper' \in [Ids -> Record \cup {None}]
      /\ \A k \in Ids : HelperOK(helper'[k], record'[k])
  <2>1. CASE Connect(i)
    BY <2>1, HelperStarts DEF Connect, Stored
  <2>2. CASE Disconnect(i)
    BY <2>2, HelperStops DEF Disconnect
  <2> QED BY <2>1, <2>2
<1> QED BY <1>1, <1>2, <1>3, Known DEF LinksIInv, BoundsOK

-----------------------------------------------------------------------------
(* The invariant holds at first, and is kept.                              *)
LEMMA LinksInit == Init => LinksIInv
<1> SUFFICES ASSUME Init PROVE LinksIInv
  OBVIOUS
<1>1. PICK allowed \in Configs, links \in {o.links : o \in Options} \ {None} :
        /\ AllValid(links, ToSet(allowed))
        /\ record = [i \in Ids |->
             IF i = 1 THEN [state |-> "stored", allowed |-> allowed, dns |-> FALSE,
                            links |-> Canonical(links)]
             ELSE NoRecord]
  BY DEF Init
<1> DEFINE v == [state |-> "stored", allowed |-> allowed, dns |-> FALSE, links |-> links]
           w == [state |-> "stored", allowed |-> allowed, dns |-> FALSE, links |-> Canonical(links)]
<1>2. links \in Links /\ allowed # None
  BY BypassLinksAssumption
<1>3. RecordOK(w) /\ w.state = "stored"
  <2>1. Canonical(links) \in Links /\ IsCanonical(Canonical(links))
    <3>1. \A k \in DOMAIN links : CanonicalLink(CanonicalLink(links[k])) = CanonicalLink(links[k])
      BY <1>2, LinksAre, CanonicalLinkFacts
    <3> QED BY <1>2, <3>1, CanonicalFacts DEF IsCanonical
  <2>2. AllValid(Canonical(links), ToSet(allowed))
    BY <1>1, <1>2, CanonicalValid
  <2>3. /\ w \in Record /\ w.state = "stored" /\ w.allowed = allowed /\ w.links = Canonical(links)
        /\ AllowedIps(w) = ToSet(allowed)
    BY <2>1 DEF Record, AllowedIps
  <2> HIDE DEF w
  <2> QED BY <1>2, <2>1, <2>2, <2>3 DEF RecordOK
<1>4. record = [i \in Ids |-> IF i = 1 THEN w ELSE NoRecord]
  BY <1>1
<1> HIDE DEF w
<1>5. /\ record \in [Ids -> Record] /\ \A i \in Ids : RecordOK(record[i])
      /\ \A i \in Ids : i = 1 => record[i] = w
  <2>1. w \in Record /\ NoRecord \in Record /\ RecordOK(NoRecord)
    BY <1>3, NewRecordOK DEF RecordOK
  <2> QED BY <1>3, <1>4, <2>1
<1>6. /\ helper \in [Ids -> Record \cup {None}]
      /\ \A i \in Ids : HelperOK(helper[i], record[i])
  <2>1. PICK up \in BOOLEAN :
          helper = [i \in Ids |-> IF up /\ i = 1 THEN Started(record[i]) ELSE None]
    BY DEF Init
  <2>2. ASSUME NEW i \in Ids PROVE helper[i] \in Record \cup {None} /\ HelperOK(helper[i], record[i])
    <3>1. CASE up /\ i = 1
      <4>1. helper[i] = Started(record[i]) /\ RecordOK(record[i]) /\ record[i].state = "stored"
        BY <1>3, <1>5, <2>1, <3>1
      <4> QED BY <4>1, StartedOK
    <3>2. CASE ~(up /\ i = 1)
      <4>1. helper[i] = None
        BY <2>1, <3>2
      <4> QED BY <4>1 DEF HelperOK
    <3> QED BY <3>1, <3>2
  <2>3. helper \in [Ids -> Record \cup {None}]
    <3>1. helper = [i \in Ids |-> helper[i]]
      BY <2>1
    <3> QED BY <3>1, <2>2
  <2> QED BY <2>2, <2>3
<1>7. cli \in [Clients -> Command] /\ \A c \in Clients : CommandOK(cli[c], record)
  BY NoCommandOK DEF Init
<1>8. commands \in 0..MaxCommands /\ events \in 0..MaxEvents /\ faults \in 0..MaxFaults
  BY BypassLinksAssumption DEF Init
<1> QED BY <1>5, <1>6, <1>7, <1>8 DEF LinksIInv

LEMMA LinksStep == LinksIInv /\ [Next]_vars => LinksIInv'
<1> SUFFICES ASSUME LinksIInv, [Next]_vars PROVE LinksIInv'
  OBVIOUS
<1>1. CASE UNCHANGED vars
  BY <1>1 DEF vars, LinksIInv
<1>2. ASSUME NEW c \in Clients, CmdConfig(c) \/ CmdRefresh(c) \/ CmdAdd(c) PROVE LinksIInv'
  BY <1>2, CommandsKeep
<1>3. ASSUME NEW c \in Clients, Step(c) PROVE LinksIInv'
  BY <1>3, ConfigLinksKeeps, ConfigDnsKeeps, ConfigAfterKeeps, ReconnectKeeps, RefreshKeeps,
     AddKeeps, ListKeeps, KeepDnsKeeps, KeepLinksKeeps, CarryKeeps, DisconnectKeeps, RemoveKeeps
     DEF Step
<1>4. ASSUME NEW c \in Clients, Fails(c) PROVE LinksIInv'
  BY <1>4, FailsKeeps
<1>5. ASSUME NEW i \in Ids, Connect(i) \/ Disconnect(i) PROVE LinksIInv'
  BY <1>5, EventsKeep
<1> QED BY <1>1, <1>2, <1>3, <1>4, <1>5 DEF Next

-----------------------------------------------------------------------------
(***************************************************************************)
(* The theorems.                                                           *)
(***************************************************************************)
LEMMA SoundTunnel ==
  ASSUME NEW h, NEW r, HelperOK(h, r), h # None, NEW k \in DOMAIN h.links,
         NEW lan \in {h.links[k].anchor, DefaultRoute},
         NEW prefix \in h.links[k].bypass, NEW ip \in AddressesOf(prefix),
         NEW dest \in ToSet(AllowedRoutes(h.allowed)), Tunnelled(dest, {lan}, h.links)
  PROVE  ~SubnetContains(dest, Host(ip))
<1>1. h.allowed \in Seq(Networks) /\ h.links \in Links
  BY BypassLinksAssumption, RecordIs DEF HelperOK
<1>2. \A n \in DOMAIN h.links : IsSound(h.links[n], ToSet(h.allowed))
  BY DEF HelperOK, AllowedIps
<1>3. SubnetContains(lan, h.links[k].anchor)
  <2>1. h.links[k].anchor \in Networks
    BY <1>1, LinksAre DEF Link
  <2> QED BY <2>1, DefaultContainsAll
<1> QED BY <1>1, <1>2, <1>3, SoundPromise

LEMMA LinksSafe == LinksIInv => LinksInv
<1> SUFFICES ASSUME LinksIInv PROVE LinksInv
  OBVIOUS
<1>1. TypeOK
  <2>1. \A i \in Ids : /\ record[i].state = "stored" <=> record[i].allowed # None
                       /\ helper[i] # None => record[i].state = "stored"
    BY Known DEF RecordOK, HelperOK
  <2> QED BY <2>1 DEF LinksIInv, TypeOK
<1>2. StoredIsValid
  BY Known DEF RecordOK, StoredIsValid, Stored
<1>3. BypassIsOff
  <2> SUFFICES ASSUME NEW i \in Ids, helper[i] # None, NEW k \in DOMAIN helper[i].links,
                      NEW lan \in {helper[i].links[k].anchor, DefaultRoute},
                      NEW prefix \in helper[i].links[k].bypass, NEW ip \in AddressesOf(prefix),
                      NEW dest \in ToSet(AllowedRoutes(helper[i].allowed)),
                      Tunnelled(dest, {lan}, helper[i].links)
               PROVE  ~SubnetContains(dest, Host(ip))
    BY DEF BypassIsOff
  <2>1. HelperOK(helper[i], record[i])
    BY Known
  <2> QED BY <2>1, SoundTunnel
<1> QED BY <1>1, <1>2, <1>3 DEF LinksInv

LEMMA LinksAlways == Spec => []LinksIInv
BY LinksInit, LinksStep, PTL DEF Spec

(* StoredConnection's rule "a record never holds links its config          *)
(* contradicts", and what check_prefix with macos_route_excluded_by_link   *)
(* promise of every tunnel that runs: for AllowedIPs, links and addresses  *)
(* of any size and any number of commands that interleave and fail, no     *)
(* route of the tunnel takes an address of a bypass prefix.                *)
THEOREM BypassHolds == Spec => []LinksInv
BY LinksAlways, LinksSafe, PTL

-----------------------------------------------------------------------------
(* A command moves by its own steps only.                                  *)
LEMMA OthersStay ==
  ASSUME LinksIInv, NEW c \in Clients, NEW d \in Clients \ {c},
         CmdConfig(d) \/ CmdRefresh(d) \/ CmdAdd(d) \/ Step(d) \/ Fails(d)
  PROVE  cli'[c].pc = cli[c].pc
<1>1. cli \in [Clients -> Command] /\ cli[c] \in Command
  BY Known
<1>2. ASSUME NEW p, NEW i, Goes(d, p, i) PROVE cli'[c].pc = cli[c].pc
  BY <1>1, <1>2 DEF Goes, Command
<1>3. ASSUME NEW x, cli' = [cli EXCEPT ![d] = x] PROVE cli'[c].pc = cli[c].pc
  BY <1>1, <1>3
<1>4. ASSUME NEW j, StaleDone(d, j) PROVE cli'[c].pc = cli[c].pc
  BY <1>1, <1>4 DEF StaleDone, Command
<1>5. CASE CmdConfig(d) \/ CmdRefresh(d) \/ CmdAdd(d)
  BY <1>1, <1>3, <1>5 DEF CmdConfig, CmdRefresh, CmdAdd, Begin
<1>6. CASE Fails(d)
  BY <1>2, <1>6 DEF Fails, Ends
<1>7. CASE ConfigLinks(d) \/ ConfigDns(d) \/ ConfigAfter(d) \/ Reconnect(d) \/ CarryLinks(d)
  BY <1>2, <1>7 DEF ConfigLinks, ConfigDns, ConfigAfter, Reconnect, CarryLinks, NotFound, Ends
<1>8. CASE KeepDns(d)
  BY <1>2, <1>8 DEF KeepDns, NotFound, Ends
<1>9. CASE RefreshConnection(d)
  BY <1>1, <1>2, <1>9 DEF RefreshConnection, NotFound, Ends, Authenticate
<1>10. CASE AddConnection(d)
  BY <1>1, <1>10 DEF AddConnection, Authenticate
<1>11. CASE ListStale(d)
  BY <1>1, <1>11 DEF ListStale
<1>12. CASE KeepLinks(d)
  BY <1>1, <1>2, <1>12 DEF KeepLinks, NotFound, Ends
<1>13. CASE DisconnectStale(d)
  BY <1>2, <1>4, <1>13 DEF DisconnectStale, Ends
<1>14. CASE RemoveStale(d)
  BY <1>1, <1>4, <1>14 DEF RemoveStale, Authenticate
<1> QED BY <1>5, <1>6, <1>7, <1>8, <1>9, <1>10, <1>11, <1>12, <1>13, <1>14 DEF Step

(* Which step it is.                                                       *)
LEMMA OwnStep ==
  ASSUME LinksIInv, [Next]_vars, NEW c \in Clients, cli'[c].pc # cli[c].pc, cli[c].pc # "idle"
  PROVE  Step(c) \/ Fails(c)
<1>1. Next
  BY DEF vars
<1>2. ASSUME NEW d \in Clients, CmdConfig(d) \/ CmdRefresh(d) \/ CmdAdd(d) \/ Step(d) \/ Fails(d)
      PROVE  Step(c) \/ Fails(c)
  <2>1. d = c
    BY <1>2, OthersStay
  <2> QED BY <1>2, <2>1 DEF CmdConfig, CmdRefresh, CmdAdd, Begin
<1>3. ASSUME NEW i \in Ids, Connect(i) \/ Disconnect(i) PROVE FALSE
  BY <1>3 DEF Connect, Disconnect
<1> QED BY <1>1, <1>2, <1>3 DEF Next

-----------------------------------------------------------------------------
(* Only a refresh gives a stored record other AllowedIPs.                  *)
AllowedStays(i) ==
  \/ record'[i].allowed = record[i].allowed
  \/ record'[i].state # "stored"
  \/ \E file \in Configs : record'[i] = Refreshed(record[i], file)

LEMMA AllowedIsRefreshed ==
  ASSUME LinksIInv, [Next]_vars, NEW i \in Ids, Stored(i)
  PROVE  AllowedStays(i)
<1>1. record \in [Ids -> Record] /\ record[i] \in Record
  BY Known
<1>2. CASE record' = record
  BY <1>2 DEF AllowedStays
<1>3. ASSUME NEW k, NEW links, record' = [record EXCEPT ![k].links = links] PROVE AllowedStays(i)
  BY <1>1, <1>3 DEF Record, AllowedStays
<1>4. ASSUME NEW k, NEW dns, record' = [record EXCEPT ![k].dns = dns] PROVE AllowedStays(i)
  BY <1>1, <1>4 DEF Record, AllowedStays
<1>5. ASSUME NEW c \in Clients, Step(c) PROVE AllowedStays(i)
  <2>1. CASE ConfigLinks(c)
    BY <1>2, <1>3, <2>1 DEF ConfigLinks, NotFound, Ends, SetBypassLinks
  <2>2. CASE ConfigDns(c)
    BY <1>2, <1>4, <2>2 DEF ConfigDns, NotFound, Ends, SetDns
  <2>3. CASE ConfigAfter(c) \/ Reconnect(c) \/ ListStale(c) \/ KeepLinks(c)
    BY <1>2, <2>3 DEF ConfigAfter, Reconnect, ListStale, KeepLinks, NotFound, Ends
  <2>4. CASE RefreshConnection(c)
    <3>1. \/ record' = record
          \/ /\ record' = [record EXCEPT ![cli[c].id] = Refreshed(record[cli[c].id], cli[c].file)]
             /\ cli[c].file \in Configs
      BY <2>4, Known DEF RefreshConnection, At, NotFound, Ends, Authenticate, CommandOK
    <3> QED BY <1>1, <1>2, <3>1 DEF AllowedStays
  <2>5. CASE AddConnection(c)
    <3>1. \/ record' = record
          \/ \E k \in {n \in Ids : record[n].state = "unused"} :
               \E v : record' = [record EXCEPT ![k] = v]
      BY <2>5 DEF AddConnection, Authenticate
    <3> QED BY <1>1, <1>2, <3>1 DEF AllowedStays, Stored
  <2>6. CASE KeepDns(c)
    BY <1>2, <1>4, <2>6 DEF KeepDns, NotFound, Ends, SetDns
  <2>7. CASE CarryLinks(c)
    BY <1>2, <1>3, <2>7 DEF CarryLinks, NotFound, Ends, SetBypassLinks
  <2>8. CASE DisconnectStale(c)
    BY <1>2, <2>8 DEF DisconnectStale, Ends
  <2>9. CASE RemoveStale(c)
    <3>1. \/ record' = record
          \/ \E k : record' = [record EXCEPT ![k] = [NoRecord EXCEPT !.state = "removed"]]
      BY <2>9 DEF RemoveStale, Authenticate
    <3> QED BY <1>1, <1>2, <3>1 DEF AllowedStays, NoRecord
  <2> QED BY <1>5, <2>1, <2>2, <2>3, <2>4, <2>5, <2>6, <2>7, <2>8, <2>9 DEF Step
<1>6. ASSUME NEW c \in Clients, CmdConfig(c) \/ CmdRefresh(c) \/ CmdAdd(c) \/ Fails(c)
      PROVE  AllowedStays(i)
  BY <1>2, <1>6 DEF CmdConfig, CmdRefresh, CmdAdd, Begin, Fails, Ends
<1>7. ASSUME NEW k \in Ids, Connect(k) \/ Disconnect(k) PROVE AllowedStays(i)
  BY <1>2, <1>7 DEF Connect, Disconnect
<1>8. CASE UNCHANGED vars
  BY <1>2, <1>8 DEF vars
<1> QED BY <1>5, <1>6, <1>7, <1>8 DEF Next

(* RefreshConnection takes away no more than the new configuration         *)
(* contradicts.                                                            *)
LEMMA RefreshKeepsStep ==
  ASSUME LinksIInv, [Next]_vars, NEW i \in Ids, Stored(i),
         record'[i].state = "stored", record'[i].allowed # record[i].allowed
  PROVE  Supported(record[i].links, AllowedIps(record'[i]))
           = Supported(record'[i].links, AllowedIps(record'[i]))
<1>1. RecordOK(record[i]) /\ record[i].state = "stored"
  BY Known DEF Stored
<1>2. PICK file \in Configs : record'[i] = Refreshed(record[i], file)
  BY AllowedIsRefreshed DEF AllowedStays
<1> QED BY <1>1, <1>2, RefreshedOK

(* RemoveStale has carried over what is removed.                           *)
LEMMA ForceKeepsStep ==
  ASSUME LinksIInv, [Next]_vars, NEW c \in Clients, NEW j \in Ids,
         cli[c].pc = "remove", cli'[c].pc = "disconnect",
         Stored(j), record'[j].state = "removed",
         ~cli[c].raced, Settings(record[j]) = cli[c].stale[j]
  PROVE  LET new == record'[cli[c].id] IN
         /\ j = cli[c].donor => Supported(record[j].links, AllowedIps(new))
                                   \subseteq Supported(new.links, AllowedIps(new))
         /\ record[j].links # <<>> => cli[c].donor # None
         /\ record[j].dns => new.dns
<1> DEFINE x == cli[c]
<1>1. /\ record \in [Ids -> Record] /\ record[j].state = "stored"
      /\ CommandOK(x, record) /\ x.id \in Ids
  BY Known DEF Stored
<1>2. RemoveStale(c)
  <2>1. Step(c) \/ Fails(c)
    BY OwnStep
  <2>2. ~Fails(c)
    <3>1. Fails(c) => cli'[c].pc = "idle"
      BY Known DEF Fails, Ends, Goes, NoCommand
    <3> QED BY <3>1
  <2> QED BY <2>1, <2>2 DEF Step, ConfigLinks, ConfigDns, ConfigAfter, Reconnect, RefreshConnection,
        AddConnection, ListStale, KeepDns, KeepLinks, CarryLinks, DisconnectStale, At
<1>3. PICK k \in NextStale(c) :
        record' = record \/ record' = [record EXCEPT ![k] = [NoRecord EXCEPT !.state = "removed"]]
  BY <1>2 DEF RemoveStale, Authenticate
<1>4. j = k
  BY <1>1, <1>3
<1>5. /\ j \in ListedBy(x) /\ x.id \notin ListedBy(x)
      /\ CarriedBy(x, record[x.id])
  BY <1>1, <1>4 DEF NextStale, Listed, ListedBy, CommandOK
<1>6. record'[x.id] = record[x.id]
  BY <1>1, <1>3, <1>4, <1>5
<1>7. x.stale[j].links = record[j].links /\ x.stale[j].dns = record[j].dns
  BY DEF Settings
<1>8. record[j].dns => record[x.id].dns
  BY <1>5, <1>7 DEF CarriedBy
<1>9. j = x.donor => Supported(record[j].links, AllowedIps(record[x.id]))
                       \subseteq Supported(record[x.id].links, AllowedIps(record[x.id]))
  BY <1>5, <1>7 DEF CarriedBy
<1>10. record[j].links # <<>> => x.donor # None
  BY <1>5, <1>7 DEF CarriedBy
<1> QED BY <1>6, <1>8, <1>9, <1>10

(* refresh_connection and `add --force` keep the settings that the new     *)
(* configuration supports, whatever other commands do in between and       *)
(* however often they are interrupted: prune_links keeps exactly the       *)
(* supported prefixes, and a stale record is removed only after its        *)
(* settings are in the record that replaces it.                            *)
THEOREM SettingsAreKept == Spec => SettingsKept
<1>1. LinksIInv /\ [Next]_vars =>
        [\A i \in Ids : Stored(i) /\ record'[i].state = "stored"
                          /\ record'[i].allowed # record[i].allowed =>
           Supported(record[i].links, AllowedIps(record'[i]))
             = Supported(record'[i].links, AllowedIps(record'[i]))]_vars
  BY RefreshKeepsStep
<1>2. LinksIInv /\ [Next]_vars =>
        [\A c \in Clients, j \in Ids :
           LET new == record'[cli[c].id] IN
           (/\ cli[c].pc = "remove" /\ cli'[c].pc = "disconnect"
            /\ Stored(j) /\ record'[j].state = "removed"
            /\ ~cli[c].raced /\ Settings(record[j]) = cli[c].stale[j]) =>
             /\ j = cli[c].donor => Supported(record[j].links, AllowedIps(new))
                                       \subseteq Supported(new.links, AllowedIps(new))
             /\ record[j].links # <<>> => cli[c].donor # None
             /\ record[j].dns => new.dns]_vars
  BY ForceKeepsStep
<1>3. Spec => RefreshKeepsSupported
  BY <1>1, LinksAlways, PTL DEF Spec, RefreshKeepsSupported
<1>4. Spec => ForceKeepsSettings
  BY <1>2, LinksAlways, PTL DEF Spec, ForceKeepsSettings
<1> QED BY <1>3, <1>4 DEF SettingsKept

-----------------------------------------------------------------------------
(* ConfigAfter sees a change of links or switch and goes on to Reconnect.  *)
LEMMA ChangeAppliedStep ==
  ASSUME LinksIInv, [Next]_vars, NEW c \in Clients,
         cli[c].pc \in {"after", "reconnect"}, cli'[c].pc = "idle",
         cli[c].apply, ~cli[c].raced, faults' = faults,
         Stored(cli[c].id), Settings(record[cli[c].id]) # cli[c].before
  PROVE  helper'[cli[c].id] = None \/ helper'[cli[c].id] = Started(record[cli[c].id])
<1> DEFINE i == cli[c].id
<1>1. /\ helper \in [Ids -> Record \cup {None}] /\ faults \in Nat /\ cli \in [Clients -> Command]
      /\ CommandOK(cli[c], record) /\ i \in Ids
  BY Known, BypassLinksAssumption DEF BoundsOK
<1>2. ~Fault
  BY <1>1 DEF Fault
<1>3. Step(c)
  BY <1>2, OwnStep DEF Fails
<1>4. CASE ConfigAfter(c)
  <2>1. cli[c].before = [links |-> cli[c].before.links, dns |-> cli[c].before.dns]
    BY <1>1, <1>4 DEF ConfigAfter, At, CommandOK, Settable
  <2>2. Changed(c)
    BY <2>1 DEF Changed, Settings
  <2>3. /\ Goes(c, IF helper[i] # None /\ Changed(c) /\ cli[c].apply THEN "reconnect" ELSE "idle", None)
        /\ helper' = helper
    BY <1>4 DEF ConfigAfter, NotFound
  <2>4. CASE helper[i] # None
    <3>1. Goes(c, "reconnect", None)
      BY <2>2, <2>3, <2>4
    <3>2. "reconnect" \in Places
      BY DEF Places
    <3>3. cli'[c] = [cli[c] EXCEPT !.pc = "reconnect"]
      BY <3>1, <3>2, <1>1, GoesFacts
    <3> QED BY <3>3, <1>1 DEF Command
  <2> QED BY <2>3, <2>4
<1>5. CASE Reconnect(c)
  BY <1>1, <1>5 DEF Reconnect, Ends
<1> QED BY <1>3, <1>4, <1>5 DEF Step, ConfigLinks, ConfigDns, RefreshConnection,
      AddConnection, ListStale, KeepDns, KeepLinks, CarryLinks, DisconnectStale, RemoveStale, At

(* cmd_config without --no-apply: what the command changed is what the     *)
(* tunnel runs with when it ends, whatever was connected and disconnected  *)
(* while it read, wrote and compared.                                      *)
THEOREM AppliedWhenDone == Spec => ChangeIsApplied
<1>1. LinksIInv /\ [Next]_vars =>
        [\A c \in Clients :
           LET i == cli[c].id IN
           (/\ cli[c].pc \in {"after", "reconnect"} /\ cli'[c].pc = "idle"
            /\ cli[c].apply /\ ~cli[c].raced /\ faults' = faults
            /\ Stored(i) /\ Settings(record[i]) # cli[c].before) =>
             helper'[i] = None \/ helper'[i] = Started(record[i])]_vars
  BY ChangeAppliedStep
<1> QED BY <1>1, LinksAlways, PTL DEF Spec, ChangeIsApplied
-----------------------------------------------------------------------------
(***************************************************************************)
(* Sequences of routes.                                                    *)
(***************************************************************************)
LEMMA SeqIs ==
  ASSUME NEW X, NEW s \in Seq(X)
  PROVE  /\ Len(s) \in Nat /\ DOMAIN s = 1..Len(s) /\ \A i \in DOMAIN s : s[i] \in X
         /\ ToSet(s) \subseteq X /\ \A x : x \in ToSet(s) <=> \E i \in DOMAIN s : s[i] = x
         /\ s = <<>> <=> ToSet(s) = {}
<1>1. Len(s) \in Nat /\ DOMAIN s = 1..Len(s) /\ \A i \in DOMAIN s : s[i] \in X
  OBVIOUS
<1>2. \A x : x \in ToSet(s) <=> \E i \in DOMAIN s : s[i] = x
  BY DEF ToSet
<1>3. s = <<>> <=> ToSet(s) = {}
  <2>1. CASE s = <<>>
    BY <2>1 DEF ToSet
  <2>2. CASE s # <<>>
    <3>1. 1 \in DOMAIN s
      BY <2>2, <1>1
    <3> QED BY <3>1, <1>2, <2>2
  <2> QED BY <2>1, <2>2
<1> QED BY <1>1, <1>2, <1>3

(* The first element and the others.                                       *)
LEMMA HeadTail ==
  ASSUME NEW X, NEW s \in Seq(X), s # <<>>
  PROVE  /\ Head(s) \in X /\ Tail(s) \in Seq(X)
         /\ ToSet(s) = {Head(s)} \cup ToSet(Tail(s))
         /\ KeysDiffer(s) => /\ KeysDiffer(Tail(s))
                             /\ \A r \in ToSet(Tail(s)) : Key(r) # Key(Head(s))
<1>1. /\ Len(s) \in Nat \ {0} /\ DOMAIN s = 1..Len(s) /\ Head(s) = s[1]
      /\ Tail(s) \in Seq(X) /\ Len(Tail(s)) = Len(s) - 1 /\ DOMAIN Tail(s) = 1..(Len(s) - 1)
      /\ \A i \in 1..(Len(s) - 1) : Tail(s)[i] = s[i + 1]
      /\ s[1] \in X
  OBVIOUS
<1>2. \A i \in 1..(Len(s) - 1) : i + 1 \in DOMAIN s /\ i + 1 # 1
  BY <1>1
<1>3. \A i \in DOMAIN s : i = 1 \/ (i - 1 \in DOMAIN Tail(s) /\ Tail(s)[i - 1] = s[i])
  BY <1>1
<1>4. ToSet(s) = {Head(s)} \cup ToSet(Tail(s))
  <2>1. ASSUME NEW x \in ToSet(s) PROVE x \in {Head(s)} \cup ToSet(Tail(s))
    <3>1. PICK i \in DOMAIN s : x = s[i]
      BY DEF ToSet
    <3>2. i # 1 => x \in ToSet(Tail(s))
      BY <3>1, <1>3 DEF ToSet
    <3> QED BY <3>1, <3>2, <1>1
  <2>2. ASSUME NEW x \in ToSet(Tail(s)) PROVE x \in ToSet(s)
    BY <1>1, <1>2 DEF ToSet
  <2>3. Head(s) \in ToSet(s)
    BY <1>1 DEF ToSet
  <2> QED BY <2>1, <2>2, <2>3
<1>5. ASSUME KeysDiffer(s) PROVE KeysDiffer(Tail(s))
  <2>1. SUFFICES ASSUME NEW i \in DOMAIN Tail(s), NEW j \in DOMAIN Tail(s),
                        Key(Tail(s)[i]) = Key(Tail(s)[j])
                 PROVE  i = j
    BY DEF KeysDiffer
  <2>2. i + 1 \in DOMAIN s /\ j + 1 \in DOMAIN s /\ Key(s[i + 1]) = Key(s[j + 1])
    BY <1>1, <1>2, <2>1
  <2>3. i + 1 = j + 1
    BY <2>2, <1>5 DEF KeysDiffer
  <2> QED BY <2>3, <1>1
<1>6. ASSUME KeysDiffer(s), NEW r \in ToSet(Tail(s)) PROVE Key(r) # Key(Head(s))
  <2>1. PICK i \in DOMAIN Tail(s) : r = Tail(s)[i]
    BY DEF ToSet
  <2>2. i + 1 \in DOMAIN s /\ i + 1 # 1 /\ r = s[i + 1] /\ 1 \in DOMAIN s /\ Head(s) = s[1]
    BY <1>1, <1>2, <2>1
  <2> QED BY <2>2, <1>6 DEF KeysDiffer
<1> QED BY <1>1, <1>4, <1>5, <1>6

LEMMA Appended ==
  ASSUME NEW X, NEW s \in Seq(X), NEW x \in X
  PROVE  /\ Append(s, x) \in Seq(X) /\ ToSet(Append(s, x)) = ToSet(s) \cup {x}
         /\ KeysDiffer(s) /\ (\A r \in ToSet(s) : Key(r) # Key(x)) => KeysDiffer(Append(s, x))
<1> DEFINE t == Append(s, x)
<1>1. /\ Len(s) \in Nat /\ DOMAIN s = 1..Len(s) /\ t \in Seq(X)
      /\ DOMAIN t = 1..(Len(s) + 1) /\ t[Len(s) + 1] = x /\ \A i \in 1..Len(s) : t[i] = s[i]
  OBVIOUS
<1> HIDE DEF t
<1>2. \A i \in DOMAIN t : i \in DOMAIN s \/ i = Len(s) + 1
  BY <1>1
<1>3. DOMAIN s \subseteq DOMAIN t /\ Len(s) + 1 \in DOMAIN t
  BY <1>1
<1>4. ToSet(t) = ToSet(s) \cup {x}
  <2>1. ASSUME NEW y \in ToSet(t) PROVE y \in ToSet(s) \cup {x}
    BY <1>1, <1>2 DEF ToSet
  <2>2. ASSUME NEW y \in ToSet(s) PROVE y \in ToSet(t)
    <3>1. PICK i \in DOMAIN s : y = s[i]
      BY DEF ToSet
    <3>2. i \in DOMAIN t /\ t[i] = y
      BY <3>1, <1>1, <1>3
    <3> QED BY <3>2 DEF ToSet
  <2>3. x \in ToSet(t)
    BY <1>1, <1>3 DEF ToSet
  <2> QED BY <2>1, <2>2, <2>3
<1>5. ASSUME KeysDiffer(s), \A r \in ToSet(s) : Key(r) # Key(x) PROVE KeysDiffer(t)
  <2>1. \A i \in DOMAIN s : Key(s[i]) # Key(x)
    BY <1>5 DEF ToSet
  <2>2. SUFFICES ASSUME NEW i \in DOMAIN t, NEW j \in DOMAIN t, Key(t[i]) = Key(t[j])
                 PROVE  i = j
    BY DEF KeysDiffer
  <2>3. CASE i \in DOMAIN s /\ j \in DOMAIN s
    BY <2>2, <2>3, <1>1, <1>5 DEF KeysDiffer
  <2>4. CASE i = Len(s) + 1 /\ j \in DOMAIN s
    BY <2>1, <2>2, <2>4, <1>1
  <2>5. CASE j = Len(s) + 1 /\ i \in DOMAIN s
    BY <2>1, <2>2, <2>5, <1>1
  <2> QED BY <2>3, <2>4, <2>5, <1>2
<1> QED BY <1>1, <1>4, <1>5 DEF t

LEMMA Reversed ==
  ASSUME NEW X, NEW s \in Seq(X)
  PROVE  /\ Reverse(s) \in Seq(X) /\ ToSet(Reverse(s)) = ToSet(s)
         /\ KeysDiffer(s) => KeysDiffer(Reverse(s))
<1> DEFINE t == Reverse(s)
<1>1. /\ Len(s) \in Nat /\ DOMAIN s = 1..Len(s) /\ \A i \in DOMAIN s : s[i] \in X
      /\ DOMAIN t = 1..Len(s) /\ \A i \in 1..Len(s) : t[i] = s[(Len(s) - i) + 1]
  BY DEF Reverse
<1> HIDE DEF t
<1>2. \A i \in 1..Len(s) : (Len(s) - i) + 1 \in 1..Len(s) /\ (Len(s) - ((Len(s) - i) + 1)) + 1 = i
  BY <1>1
<1>3. t \in Seq(X)
  <2>1. \A i \in 1..Len(s) : t[i] \in X
    BY <1>1, <1>2
  <2>2. t = [i \in 1..Len(s) |-> t[i]]
    BY <1>1 DEF t, Reverse
  <2>3. t \in [1..Len(s) -> X]
    BY <2>1, <2>2
  <2> QED BY <2>3, <1>1
<1>4. ToSet(t) = ToSet(s)
  <2>1. ASSUME NEW y \in ToSet(t) PROVE y \in ToSet(s)
    BY <1>1, <1>2 DEF ToSet
  <2>2. ASSUME NEW y \in ToSet(s) PROVE y \in ToSet(t)
    <3>1. PICK i \in DOMAIN s : y = s[i]
      BY DEF ToSet
    <3>2. (Len(s) - i) + 1 \in DOMAIN t /\ t[(Len(s) - i) + 1] = y
      BY <3>1, <1>1, <1>2
    <3> QED BY <3>2 DEF ToSet
  <2> QED BY <2>1, <2>2
<1>5. ASSUME KeysDiffer(s) PROVE KeysDiffer(t)
  <2>1. SUFFICES ASSUME NEW i \in DOMAIN t, NEW j \in DOMAIN t, Key(t[i]) = Key(t[j])
                 PROVE  i = j
    BY DEF KeysDiffer
  <2>2. (Len(s) - i) + 1 = (Len(s) - j) + 1
    BY <2>1, <1>1, <1>2, <1>5 DEF KeysDiffer
  <2> QED BY <2>2, <1>1
<1> QED BY <1>3, <1>4, <1>5 DEF t

(* What is filtered keeps its order, so that keys that differ still do.    *)
LEMMA Filtered ==
  ASSUME NEW X, NEW s \in Seq(X), NEW S
  PROVE  /\ Filter(s, S) \in Seq(X) /\ ToSet(Filter(s, S)) = ToSet(s) \cap S
         /\ KeysDiffer(s) => KeysDiffer(Filter(s, S))
<1>1. Filter(s, S) \in Seq(X) /\ IsFiltered(Filter(s, S), s, S)
  BY FilterFacts
<1>2. ToSet(Filter(s, S)) = ToSet(s) \cap S
  BY <1>1 DEF IsFiltered, ToSet
<1>3. ASSUME KeysDiffer(s) PROVE KeysDiffer(Filter(s, S))
  <2>1. PICK f \in [0..Len(s) -> Seq(X)] :
          /\ f[0] = <<>>
          /\ \A n \in 1..Len(s) : f[n] = Kept(f[n - 1], s[n], S)
          /\ Filter(s, S) = f[Len(s)]
    BY FilterSteps
  <2>2. Len(s) \in Nat /\ DOMAIN s = 1..Len(s)
    OBVIOUS
  <2> DEFINE Good(n) == /\ KeysDiffer(f[n])
                        /\ \A r \in ToSet(f[n]) : \E i \in 1..n : s[i] = r
             H == {n \in Nat : n <= Len(s) => Good(n)}
  <2>3. 0 \in H
    BY <2>1 DEF KeysDiffer, ToSet
  <2>4. ASSUME NEW n \in H PROVE n + 1 \in H
    <3>1. SUFFICES ASSUME n + 1 <= Len(s) PROVE Good(n + 1)
      OBVIOUS
    <3>2. /\ n \in Nat /\ n + 1 \in 1..Len(s) /\ n \in 0..Len(s) /\ (n + 1) - 1 = n
          /\ Good(n) /\ f[n] \in Seq(X) /\ s[n + 1] \in X
      <4>1. n \in Nat /\ n <= Len(s) /\ (n <= Len(s) => Good(n))
        BY <3>1, <2>2
      <4>2. Good(n)
        BY <4>1
      <4> HIDE DEF Good
      <4>3. /\ n + 1 \in 1..Len(s) /\ n \in 0..Len(s) /\ (n + 1) - 1 = n
        BY <3>1, <2>2, <4>1
      <4> QED BY <4>1, <4>2, <4>3
    <3>3. f[n + 1] = Kept(f[n], s[n + 1], S)
      BY <2>1, <3>2
    <3>4. \A i \in 1..n : i \in 1..(n + 1) /\ i \in DOMAIN s /\ i # n + 1
      BY <3>2, <2>2
    <3>5. CASE s[n + 1] \notin S
      <4>1. f[n + 1] = f[n]
        BY <3>3, <3>5 DEF Kept
      <4> QED BY <4>1, <3>2, <3>4
    <3>6. CASE s[n + 1] \in S
      <4>1. f[n + 1] = Append(f[n], s[n + 1])
        BY <3>3, <3>6 DEF Kept
      <4>2. \A r \in ToSet(f[n]) : Key(r) # Key(s[n + 1])
        BY <1>3, <2>2, <3>2, <3>4 DEF KeysDiffer
      <4>3. KeysDiffer(f[n + 1]) /\ ToSet(f[n + 1]) = ToSet(f[n]) \cup {s[n + 1]}
        <5>1. f[n] \in Seq(X) /\ s[n + 1] \in X /\ KeysDiffer(f[n])
          BY <3>2
        <5> QED BY <4>1, <4>2, <5>1, Appended
      <4>4. n + 1 \in 1..(n + 1)
        BY <3>2
      <4>5. ASSUME NEW r \in ToSet(f[n + 1]) PROVE \E i \in 1..(n + 1) : s[i] = r
        BY <4>3, <4>4, <3>2, <3>4
      <4> QED BY <4>3, <4>5
    <3> QED BY <3>5, <3>6
  <2> HIDE DEF Good
  <2>5. H \in SUBSET Nat
    OBVIOUS
  <2> HIDE DEF H
  <2>6. Len(s) \in H
    BY <2>2, <2>3, <2>4, <2>5, Induction
  <2>7. Good(Len(s))
    BY <2>6, <2>2 DEF H
  <2> QED BY <2>7, <2>1 DEF Good
<1> QED BY <1>1, <1>2, <1>3
-----------------------------------------------------------------------------
LEMMA Joined ==
  ASSUME NEW X, NEW s \in Seq(X), NEW t \in Seq(X)
  PROVE  /\ s \o t \in Seq(X) /\ ToSet(s \o t) = ToSet(s) \cup ToSet(t)
         /\ KeysDiffer(s) /\ KeysDiffer(t) /\ (\A a \in ToSet(s), b \in ToSet(t) : Key(a) # Key(b))
              => KeysDiffer(s \o t)
<1> DEFINE u == s \o t
<1>1. /\ Len(s) \in Nat /\ Len(t) \in Nat /\ DOMAIN s = 1..Len(s) /\ DOMAIN t = 1..Len(t)
      /\ u \in Seq(X) /\ DOMAIN u = 1..(Len(s) + Len(t))
      /\ \A i \in 1..(Len(s) + Len(t)) : u[i] = IF i <= Len(s) THEN s[i] ELSE t[i - Len(s)]
  OBVIOUS
<1> HIDE DEF u
<1>2. \A i \in DOMAIN u :
        \/ i \in DOMAIN s /\ u[i] = s[i]
        \/ i \notin DOMAIN s /\ i - Len(s) \in DOMAIN t /\ u[i] = t[i - Len(s)]
  <2>1. ASSUME NEW i \in DOMAIN u
        PROVE  \/ i \in DOMAIN s /\ u[i] = s[i]
               \/ i \notin DOMAIN s /\ i - Len(s) \in DOMAIN t /\ u[i] = t[i - Len(s)]
    <3>1. i \in 1..(Len(s) + Len(t)) /\ i \in Int
      BY <1>1
    <3>2. CASE i <= Len(s)
      BY <1>1, <3>1, <3>2
    <3>3. CASE ~(i <= Len(s))
      <4>1. i \notin DOMAIN s /\ i - Len(s) \in DOMAIN t
        BY <1>1, <3>1, <3>3
      <4> QED BY <4>1, <1>1, <3>1, <3>3
    <3> QED BY <3>2, <3>3
  <2> QED BY <2>1
<1>3. \A i \in DOMAIN s : i \in DOMAIN u /\ u[i] = s[i]
  BY <1>1
<1>4. \A i \in DOMAIN t : i + Len(s) \in DOMAIN u /\ u[i + Len(s)] = t[i]
  BY <1>1
<1>5. ToSet(u) = ToSet(s) \cup ToSet(t)
  <2>1. ASSUME NEW x \in ToSet(u) PROVE x \in ToSet(s) \cup ToSet(t)
    BY <1>2 DEF ToSet
  <2>2. ASSUME NEW x \in ToSet(s) \cup ToSet(t) PROVE x \in ToSet(u)
    <3>1. CASE \E i \in DOMAIN s : x = s[i]
      BY <3>1, <1>3 DEF ToSet
    <3>2. CASE \E i \in DOMAIN t : x = t[i]
      BY <3>2, <1>4 DEF ToSet
    <3> QED BY <3>1, <3>2, <2>2 DEF ToSet
  <2> QED BY <2>1, <2>2
<1>6. ASSUME KeysDiffer(s), KeysDiffer(t), \A a \in ToSet(s), b \in ToSet(t) : Key(a) # Key(b)
      PROVE  KeysDiffer(u)
  <2>1. \A i \in DOMAIN s, j \in DOMAIN t : Key(s[i]) # Key(t[j])
    BY <1>6 DEF ToSet
  <2>2. SUFFICES ASSUME NEW i \in DOMAIN u, NEW j \in DOMAIN u, Key(u[i]) = Key(u[j])
                 PROVE  i = j
    BY DEF KeysDiffer
  <2>3. CASE i \in DOMAIN s /\ j \in DOMAIN s
    BY <2>2, <2>3, <1>2, <1>6 DEF KeysDiffer
  <2>4. CASE i \notin DOMAIN s /\ j \notin DOMAIN s
    <3>1. i - Len(s) = j - Len(s)
      BY <2>2, <2>4, <1>2, <1>6 DEF KeysDiffer
    <3> QED BY <3>1, <1>1
  <2>5. (i \in DOMAIN s) <=> (j \in DOMAIN s)
    BY <2>1, <2>2, <1>2
  <2> QED BY <2>3, <2>4, <2>5
<1> QED BY <1>1, <1>5, <1>6 DEF u

(* Sequences one after the other have the elements that each of them has.  *)
LEMMA FlattenFacts ==
  ASSUME NEW X, NEW seqs \in Seq(Seq(X))
  PROVE  /\ FlattenSeq(seqs) \in Seq(X)
         /\ \A x \in ToSet(FlattenSeq(seqs)) : \E i \in DOMAIN seqs : x \in ToSet(seqs[i])
         /\ seqs # <<>> => ToSet(seqs[Len(seqs)]) \subseteq ToSet(FlattenSeq(seqs))
<1>a. PICK N : N = Len(seqs)
  OBVIOUS
<1>b. PICK Q : Q = Seq(X)
  OBVIOUS
<1> DEFINE Def(f) == [i \in 1..N |-> IF i = 1 THEN seqs[i] ELSE f[i - 1] \o seqs[i]]
           F == CHOOSE f : f = Def(f)
<1>1. /\ N \in Nat /\ DOMAIN seqs = 1..N /\ \A i \in 1..N : seqs[i] \in Q
      /\ <<>> \in Q /\ \A t \in Q : \A i \in 1..N : t \o seqs[i] \in Q
      /\ \A i \in 1..N : <<>> \o seqs[i] = seqs[i]
  <2>1. N \in Nat /\ DOMAIN seqs = 1..N /\ <<>> \in Q /\ \A i \in 1..N : seqs[i] \in Q
    BY <1>a, <1>b
  <2>2. ASSUME NEW t \in Q, NEW i \in 1..N PROVE t \o seqs[i] \in Q
    BY <2>1, <1>b
  <2>3. ASSUME NEW i \in 1..N PROVE <<>> \o seqs[i] = seqs[i]
    <3>1. seqs[i] \in Seq(X)
      BY <2>1, <1>b
    <3> QED BY <3>1, ConcatEmptySeq
  <2> QED BY <2>1, <2>2, <2>3
<1>2. PICK f \in [0..N -> Q] : f[0] = <<>> /\ \A n \in 1..N : f[n] = f[n - 1] \o seqs[n]
  <2> DEFINE step == [n \in 1..N |-> [t \in Q |-> t \o seqs[n]]]
  <2>1. step \in Steps(Q, N)
    BY <1>1 DEF Steps
  <2>2. \A n \in 1..N : \A t \in Q : step[n][t] = t \o seqs[n]
    OBVIOUS
  <2> HIDE DEF step
  <2>3. PICK f : IsRun(f, <<>>, Q, N, step)
    BY <1>1, <2>1, Recursion, Zenon
  <2>4. f \in [0..N -> Q] /\ f[0] = <<>> /\ \A n \in 1..N : f[n] = step[n][f[n - 1]]
    BY <2>3 DEF IsRun
  <2>5. \A n \in 1..N : n - 1 \in 0..N /\ f[n - 1] \in Q
    BY <1>1, <2>4
  <2>6. \A n \in 1..N : f[n] = f[n - 1] \o seqs[n]
    BY <2>2, <2>4, <2>5
  <2> QED BY <2>4, <2>6
<1> DEFINE g == [i \in 1..N |-> f[i]]
<1>3. \A i \in 1..N : f[i] = IF i = 1 THEN seqs[i] ELSE f[i - 1] \o seqs[i]
  <2>1. ASSUME NEW i \in 1..N PROVE f[i] = IF i = 1 THEN seqs[i] ELSE f[i - 1] \o seqs[i]
    <3>1. CASE i = 1
      <4>1. i - 1 = 0
        BY <3>1
      <4> QED BY <4>1, <3>1, <1>1, <1>2
    <3>2. CASE i # 1
      BY <3>2, <1>2
    <3> QED BY <3>1, <3>2
  <2> QED BY <2>1
<1>4. g = Def(g)
  <2>1. ASSUME NEW i \in 1..N
        PROVE  f[i] = IF i = 1 THEN seqs[i] ELSE g[i - 1] \o seqs[i]
    <3>1. i = 1 \/ i - 1 \in 1..N
      BY <1>1
    <3> QED BY <3>1, <1>3
  <2> QED BY <2>1
<1>5. F = Def(F)
  <2> HIDE DEF Def
  <2> QED BY <1>4, Zenon DEF F
<1> HIDE DEF F, g
<1>6. \A i \in 1..N : F[i] = f[i]
  <2>0. ASSUME NEW i \in 1..N PROVE F[i] = IF i = 1 THEN seqs[i] ELSE F[i - 1] \o seqs[i]
    BY <1>5
  <2> DEFINE H == {n \in Nat : n \in 1..N => F[n] = f[n]}
  <2>1. 0 \in H
    BY <1>1
  <2>2. ASSUME NEW n \in H PROVE n + 1 \in H
    <3>1. CASE n + 1 \in 1..N
      <4>1. CASE n = 0
        BY <2>0, <1>3, <3>1, <4>1
      <4>2. CASE n # 0
        <5>1. n \in Nat /\ n \in 1..N /\ (n + 1) - 1 = n /\ n + 1 # 1
          BY <3>1, <4>2, <1>1
        <5>2. F[n] = f[n]
          BY <5>1
        <5> QED BY <2>0, <1>3, <3>1, <5>1, <5>2
      <4> QED BY <4>1, <4>2
    <3> QED BY <3>1
  <2>3. H \in SUBSET Nat
    OBVIOUS
  <2> HIDE DEF H
  <2>4. \A n \in Nat : n \in H
    BY <2>1, <2>2, <2>3, Induction
  <2>5. ASSUME NEW i \in 1..N PROVE F[i] = f[i]
    <3>1. i \in H
      BY <2>4, <1>1
    <3> QED BY <3>1 DEF H
  <2> QED BY <2>5
<1>7. FlattenSeq(seqs) = IF N = 0 THEN seqs ELSE F[N]
  BY <1>a DEF FlattenSeq, F
<1>8. CASE N = 0
  <2>1. seqs = <<>> /\ FlattenSeq(seqs) = <<>>
    BY <1>8, <1>7, <1>a
  <2>2. <<>> \in Seq(X) /\ ToSet(<<>>) = {}
    BY DEF ToSet
  <2> QED BY <2>1, <2>2, Zenon
<1>9. CASE N # 0
  <2>1. N \in 1..N /\ FlattenSeq(seqs) = f[N] /\ f[N] \in Q
    BY <1>9, <1>1, <1>2, <1>6, <1>7
  <2> DEFINE Good(n) == \A x \in ToSet(f[n]) : \E i \in 1..N : x \in ToSet(seqs[i])
             H == {n \in Nat : n <= N => Good(n)}
  <2>2. 0 \in H
    BY <1>2 DEF ToSet
  <2>3. ASSUME NEW n \in H PROVE n + 1 \in H
    <3>1. SUFFICES ASSUME n + 1 <= N PROVE Good(n + 1)
      OBVIOUS
    <3>2. n \in Nat /\ n + 1 \in 1..N /\ (n + 1) - 1 = n /\ n \in 0..N /\ n <= N /\ (n <= N => Good(n))
      BY <3>1, <1>1
    <3>3. f[n + 1] = f[n] \o seqs[n + 1] /\ f[n] \in Seq(X) /\ seqs[n + 1] \in Seq(X)
      BY <3>2, <1>1, <1>2, <1>b
    <3>4. ToSet(f[n + 1]) = ToSet(f[n]) \cup ToSet(seqs[n + 1])
      BY <3>3, Joined
    <3> QED BY <3>2, <3>4
  <2>4. H \in SUBSET Nat
    OBVIOUS
  <2> HIDE DEF Good, H
  <2>5. N \in H
    BY <1>1, <2>2, <2>3, <2>4, Induction
  <2>6. Good(N)
    BY <2>5, <1>1 DEF H
  <2>7. ToSet(seqs[N]) \subseteq ToSet(f[N])
    <3>0. N - 1 \in 0..N
      BY <1>1, <1>9
    <3>1. f[N] = f[N - 1] \o seqs[N] /\ f[N - 1] \in Seq(X) /\ seqs[N] \in Seq(X)
      <4>1. f[N - 1] \in Q /\ seqs[N] \in Q /\ f[N] = f[N - 1] \o seqs[N]
        BY <2>1, <3>0, <1>1, <1>2
      <4> QED BY <4>1, <1>b
    <3> QED BY <3>1, Joined
  <2> QED BY <2>1, <2>6, <2>7, <1>1, <1>a, <1>b DEF Good
<1> QED BY <1>8, <1>9

(* An address that a route covers is covered by an entry of AllowedIPs.    *)
LEMMA AllowedRoutesFacts ==
  ASSUME NEW allowed \in Seq(Networks)
  PROVE  /\ AllowedRoutes(allowed) \in Seq(Networks)
         /\ \A dest \in ToSet(AllowedRoutes(allowed)) : \E i \in DOMAIN allowed :
              \A p \in Networks : SubnetContains(dest, p) => SubnetContains(allowed[i], p)
         /\ allowed # <<>> => AllowedRoutes(allowed) # <<>>
<1> DEFINE low == [DefaultRoute EXCEPT !.len = 1]
           high == [DefaultRoute EXCEPT !.len = 1, !.ip[1] = 1]
           part(i) == IF allowed[i] = DefaultRoute THEN <<low, high>> ELSE <<allowed[i]>>
           parts == [i \in DOMAIN allowed |-> part(i)]
<1>1. DOMAIN allowed = 1..Len(allowed) /\ Len(allowed) \in Nat /\ \A i \in DOMAIN allowed : allowed[i] \in Networks
  OBVIOUS
<1>2. low \in Networks /\ high \in Networks
  <2>1. DefaultRoute \in Networks /\ 1 \in 0..Width /\ 1 \in 1..Width
    BY DefaultContainsAll, LinkRulesAssumption
  <2>2. DefaultRoute.ip \in Addresses /\ [DefaultRoute.ip EXCEPT ![1] = 1] \in Addresses
    BY <2>1 DEF Networks, Addresses
  <2>3. /\ low = [ip |-> DefaultRoute.ip, len |-> 1]
        /\ high = [ip |-> [DefaultRoute.ip EXCEPT ![1] = 1], len |-> 1]
    <3>1. PICK d : d = DefaultRoute
      OBVIOUS
    <3>2. d = [ip |-> d.ip, len |-> d.len]
      BY <2>1, <3>1 DEF Networks
    <3>3. /\ [d EXCEPT !.len = 1] = [ip |-> d.ip, len |-> 1]
          /\ [d EXCEPT !.len = 1, !.ip[1] = 1] = [ip |-> [d.ip EXCEPT ![1] = 1], len |-> 1]
      <4>1. PICK e : e = [d EXCEPT !.len = 1]
        OBVIOUS
      <4>2. e = [ip |-> d.ip, len |-> 1]
        BY <3>2, <4>1
      <4>3. [e EXCEPT !.ip[1] = 1] = [ip |-> [d.ip EXCEPT ![1] = 1], len |-> 1]
        BY <4>2
      <4> QED BY <4>1, <4>2, <4>3
    <3> QED BY <3>1, <3>3
  <2> QED BY <2>1, <2>2, <2>3 DEF Networks
<1> HIDE DEF low, high
<1>3. ASSUME NEW i \in DOMAIN allowed
      PROVE  part(i) \in Seq(Networks) /\ ToSet(part(i)) = IF allowed[i] = DefaultRoute THEN {low, high} ELSE {allowed[i]}
  <2>1. allowed[i] \in Networks
    BY <1>1
  <2>2. CASE allowed[i] = DefaultRoute
    <3>1. part(i) = <<low, high>> /\ DOMAIN <<low, high>> = {1, 2}
      BY <2>2
    <3> QED BY <3>1, <1>2, <2>2 DEF ToSet
  <2>3. CASE allowed[i] # DefaultRoute
    <3>1. part(i) = <<allowed[i]>> /\ DOMAIN <<allowed[i]>> = {1}
      BY <2>3
    <3> QED BY <3>1, <2>1, <2>3 DEF ToSet
  <2> QED BY <2>2, <2>3
<1>4. parts \in Seq(Seq(Networks)) /\ DOMAIN parts = DOMAIN allowed
  <2>1. parts \in [1..Len(allowed) -> Seq(Networks)]
    BY <1>1, <1>3
  <2> HIDE DEF parts
  <2> QED BY <2>1, <1>1
<1>5. AllowedRoutes(allowed) = FlattenSeq(parts)
  BY DEF AllowedRoutes, low, high
<1>6. \A i \in DOMAIN allowed : parts[i] = part(i)
  OBVIOUS
<1> HIDE DEF parts
<1>7. AllowedRoutes(allowed) \in Seq(Networks)
  BY <1>4, <1>5, FlattenFacts
<1>8. ASSUME NEW dest \in ToSet(AllowedRoutes(allowed))
      PROVE  \E i \in DOMAIN allowed :
               \A p \in Networks : SubnetContains(dest, p) => SubnetContains(allowed[i], p)
  <2>1. PICK i \in DOMAIN parts : dest \in ToSet(parts[i])
    BY <1>4, <1>5, FlattenFacts
  <2>2. i \in DOMAIN allowed /\ dest \in ToSet(part(i))
    BY <2>1, <1>4, <1>6
  <2>3. CASE allowed[i] = DefaultRoute
    BY <2>2, <2>3, DefaultContainsAll
  <2>4. CASE allowed[i] # DefaultRoute
    <3>1. ToSet(part(i)) = {allowed[i]}
      BY <2>2, <2>4, <1>3
    <3>2. dest = allowed[i]
      BY <3>1, <2>2
    <3> QED BY <3>2, <2>2
  <2> QED BY <2>3, <2>4
<1>9. ASSUME allowed # <<>> PROVE AllowedRoutes(allowed) # <<>>
  <2>1. Len(allowed) \in DOMAIN allowed /\ parts # <<>> /\ Len(parts) = Len(allowed)
    BY <1>1, <1>4, <1>9
  <2>2. ToSet(part(Len(allowed))) # {}
    BY <2>1, <1>3
  <2>3. ToSet(parts[Len(parts)]) # {} /\ ToSet(parts[Len(parts)]) \subseteq ToSet(AllowedRoutes(allowed))
    BY <2>1, <2>2, <1>4, <1>5, <1>6, FlattenFacts
  <2> QED BY <2>3, <1>7, SeqIs
<1> QED BY <1>7, <1>8, <1>9
-----------------------------------------------------------------------------
(***************************************************************************)
(* What a configuration asks for.                                          *)
(***************************************************************************)

EndpointKey == Host(config.endpoint)
Tunnels == ToSet(RoutesOf[config])

(* The routes that a tunnel may ever have.                                 *)
Ours(r) == r \in Tunnels \/ (NeedsPin /\ \E g \in Gateways : r = Pin(g))

LEMMA Owners ==
  /\ "tunnel" \notin Gateways /\ "old" \notin Gateways /\ "en0" \notin Gateways
  /\ NoRoute \notin Gateways /\ NoRoute # "tunnel" /\ NoRoute # "old" /\ NoRoute # "en0"
BY RoutesAssumption

LEMMA HostFacts ==
  ASSUME NEW ip \in Addresses
  PROVE  Host(ip) \in Networks /\ Host(ip).len = Width /\ Trunc(Host(ip)) = Host(ip)
<1>1. Host(ip) \in Networks /\ Host(ip).len = Width /\ Host(ip).ip = ip
  BY LinkRulesAssumption DEF Host, Networks
<1>2. NetworkBase(ip, Width) = ip
  <2>1. \A b \in 1..Width : (IF b <= Width THEN ip[b] ELSE 0) = ip[b]
    BY LinkRulesAssumption
  <2>2. ip = [b \in 1..Width |-> ip[b]]
    BY DEF Addresses
  <2> QED BY <2>1, <2>2 DEF NetworkBase
<1>3. [Host(ip) EXCEPT !.ip = ip] = Host(ip)
  BY DEF Host
<1> QED BY <1>1, <1>2, <1>3 DEF Trunc

LEMMA ConfigFacts ==
  ASSUME NEW c \in TunnelConfigs
  PROVE  /\ c.allowed \in Seq(Networks) /\ c.endpoint \in Addresses /\ c.links \in Links
         /\ RoutesOf[c] \in Seq(Route) /\ RoutesOf[c] # <<>>
         /\ \A r \in ToSet(RoutesOf[c]) :
              /\ r \in Route /\ r.via = "tunnel" /\ Key(r) \in Keys /\ r.dest \in Networks
              /\ r = TunnelRoute(r.dest) /\ r.dest \in ToSet(AllowedRoutes(c.allowed))
         /\ LinksOf[c] = ValidLinks(c.links, ToSet(c.allowed)) /\ LinksOf[c] \in Links
         /\ Host(c.endpoint) \in Keys /\ Host(c.endpoint) \in Networks
<1>1. c.allowed \in Seq(Networks) /\ c.endpoint \in Addresses /\ c.links \in Links
  BY RoutesAssumption
<1> DEFINE routes == AllowedRoutes(c.allowed)
<1>2. routes \in Seq(Networks) /\ routes # <<>>
  BY <1>1, AllowedRoutesFacts, RoutesAssumption
<1>3. RoutesOf[c] = [i \in DOMAIN routes |-> TunnelRoute(routes[i])]
  BY DEF RoutesOf
<1> HIDE DEF routes
<1>4. DOMAIN routes = 1..Len(routes) /\ Len(routes) \in Nat /\ \A i \in DOMAIN routes : routes[i] \in Networks
  BY <1>2
<1>5. \A i \in DOMAIN routes : TunnelRoute(routes[i]) \in Route
  BY <1>4 DEF TunnelRoute, Route
<1>6. RoutesOf[c] \in Seq(Route) /\ RoutesOf[c] # <<>>
  <2>1. RoutesOf[c] \in [1..Len(routes) -> Route] /\ Len(routes) # 0
    BY <1>2, <1>3, <1>4, <1>5
  <2> QED BY <2>1, <1>4
<1>7. ASSUME NEW r \in ToSet(RoutesOf[c])
      PROVE  /\ r \in Route /\ r.via = "tunnel" /\ Key(r) \in Keys /\ r.dest \in Networks
             /\ r = TunnelRoute(r.dest) /\ r.dest \in ToSet(routes)
  <2>1. PICK i \in DOMAIN routes : r = TunnelRoute(routes[i])
    BY <1>3 DEF ToSet
  <2>2. r.via = "tunnel" /\ r.dest = routes[i]
    BY <2>1 DEF TunnelRoute
  <2>3. r \in Route /\ r.dest \in Networks /\ r.dest \in ToSet(routes) /\ r = TunnelRoute(r.dest)
    BY <2>1, <2>2, <1>4, <1>5 DEF ToSet
  <2>4. Key(r) \in Keys
    <3>1. r \in UNION {ToSet(RoutesOf[d]) : d \in TunnelConfigs}
      OBVIOUS
    <3> QED BY <3>1 DEF Keys
  <2> QED BY <2>2, <2>3, <2>4
<1>8. LinksOf[c] = ValidLinks(c.links, ToSet(c.allowed))
  BY DEF LinksOf
<1>9. LinksOf[c] \in Links
  BY <1>1, <1>8, ValidFacts
<1>10. Host(c.endpoint) \in Keys /\ Host(c.endpoint) \in Networks
  BY <1>1, HostFacts DEF Keys
<1> QED BY <1>1, <1>6, <1>7, <1>8, <1>9, <1>10 DEF routes

(* All keys are prefixes.                                                  *)
LEMMA KeysAre == Keys \subseteq Networks
<1>1. ASSUME NEW c \in TunnelConfigs, NEW r \in ToSet(RoutesOf[c]) PROVE Key(r) \in Networks
  BY ConfigFacts, TruncFacts DEF Key
<1>2. UNION Subnets \subseteq Networks
  BY RoutesAssumption
<1> QED BY <1>1, <1>2, ConfigFacts DEF Keys

LEMMA PinFacts ==
  ASSUME config \in TunnelConfigs, NEW g \in Gateways
  PROVE  /\ Pin(g) \in Route /\ Pin(g).via = g /\ Pin(g).dest = EndpointKey
         /\ Key(Pin(g)) = EndpointKey /\ g # "tunnel"
<1>1. EndpointKey \in Networks /\ Trunc(EndpointKey) = EndpointKey
  BY ConfigFacts, HostFacts DEF EndpointKey
<1> QED BY <1>1, Owners DEF Pin, Route, Key, EndpointKey

LEMMA OurFacts ==
  ASSUME OneRoutePerPrefix, config \in TunnelConfigs, NEW r, Ours(r)
  PROVE  /\ r \in Route /\ Key(r) \in Keys /\ r.dest \in Networks
         /\ r.via = "tunnel" => r \in Tunnels /\ Key(r) # EndpointKey
         /\ r.via # "tunnel" => /\ r.via \in Gateways /\ r = Pin(r.via) /\ NeedsPin
                                /\ Key(r) = EndpointKey /\ r.dest = EndpointKey
<1>1. EndpointKey \in Keys /\ EndpointKey \in Networks
  BY ConfigFacts DEF EndpointKey
<1>2. CASE r \in Tunnels
  <2>1. r \in Route /\ r.via = "tunnel" /\ Key(r) \in Keys /\ r.dest \in Networks
    BY <1>2, ConfigFacts DEF Tunnels
  <2>2. Key(r) # EndpointKey
    BY <1>2 DEF OneRoutePerPrefix, Tunnels, EndpointKey
  <2> QED BY <2>1, <2>2, <1>2
<1>3. CASE NeedsPin /\ \E g \in Gateways : r = Pin(g)
  <2>1. PICK g \in Gateways : r = Pin(g)
    BY <1>3
  <2>2. r \in Route /\ r.via = g /\ r.dest = EndpointKey /\ Key(r) = EndpointKey /\ g # "tunnel"
    BY <2>1, PinFacts
  <2> QED BY <2>1, <2>2, <1>1, <1>3
<1> QED BY <1>2, <1>3 DEF Ours

(* Two tunnel routes for one prefix are one.                               *)
LEMMA OneTunnelRoute ==
  ASSUME OneRoutePerPrefix, config \in TunnelConfigs,
         NEW r \in Tunnels, NEW q \in Tunnels, Key(r) = Key(q)
  PROVE  r = q
BY DEF OneRoutePerPrefix, Tunnels, KeysDiffer, ToSet

(* A tunnel route that covers the endpoint calls for a pin.                *)
LEMMA CoverNeedsPin ==
  ASSUME config \in TunnelConfigs, NEW r \in Tunnels, SubnetContains(Key(r), EndpointKey)
  PROVE  NeedsPin
<1>1. /\ config.allowed \in Seq(Networks) /\ EndpointKey \in Networks /\ r.dest \in Networks
      /\ r.dest \in ToSet(AllowedRoutes(config.allowed))
  BY ConfigFacts DEF Tunnels, EndpointKey
<1>2. SubnetContains(r.dest, EndpointKey)
  BY <1>1, ContainsTrunc DEF Key
<1>3. PICK i \in DOMAIN config.allowed :
        \A p \in Networks : SubnetContains(r.dest, p) => SubnetContains(config.allowed[i], p)
  BY <1>1, AllowedRoutesFacts
<1> QED BY <1>1, <1>2, <1>3 DEF NeedsPin, EndpointKey

LEMMA DesiredFacts ==
  ASSUME OneRoutePerPrefix, config \in TunnelConfigs, NEW fp \in Fingerprint
  PROVE  /\ DesiredRoutes(fp) \in Seq(Route) /\ ToSet(DesiredRoutes(fp)) = Desired(fp)
         /\ KeysDiffer(DesiredRoutes(fp))
         /\ NeedsPin /\ fp.gateway # NoRoute =>
              DesiredRoutes(fp) # <<>> /\ Head(DesiredRoutes(fp)) = Pin(fp.gateway)
         /\ \A r : r \in Desired(fp) <=>
              \/ r \in Tunnels /\ Tunnelled(r.dest, fp.subnets, LinksOf[config])
              \/ NeedsPin /\ fp.gateway # NoRoute /\ r = Pin(fp.gateway)
         /\ \A r \in Desired(fp) : Ours(r)
<1> DEFINE kept == {r \in Tunnels : Tunnelled(r.dest, fp.subnets, LinksOf[config])}
<1>1. fp.gateway \in Gateways \cup {NoRoute}
  BY DEF Fingerprint
<1>2. RoutesOf[config] \in Seq(Route) /\ KeysDiffer(RoutesOf[config])
  BY ConfigFacts DEF OneRoutePerPrefix
<1>3. TunnelRoutes(fp) = Filter(RoutesOf[config], kept)
  BY DEF TunnelRoutes, Tunnels
<1>4. ToSet(RoutesOf[config]) \cap kept = kept
  BY DEF Tunnels
<1> HIDE DEF kept
<1>5. TunnelRoutes(fp) \in Seq(Route) /\ ToSet(TunnelRoutes(fp)) = kept /\ KeysDiffer(TunnelRoutes(fp))
  BY <1>2, <1>3, <1>4, Filtered
<1>6. \A r \in kept : r \in Tunnels /\ Key(r) # EndpointKey
  BY DEF kept, OneRoutePerPrefix, Tunnels, EndpointKey
<1>7. CASE NeedsPin /\ fp.gateway # NoRoute
  <2>1. Pins(fp) = <<Pin(fp.gateway)>> /\ fp.gateway \in Gateways
    BY <1>1, <1>7 DEF Pins
  <2>2. Pin(fp.gateway) \in Route /\ Key(Pin(fp.gateway)) = EndpointKey
    BY <2>1, PinFacts
  <2>3. Pins(fp) \in Seq(Route) /\ Pins(fp) # <<>> /\ ToSet(Pins(fp)) = {Pin(fp.gateway)} /\ KeysDiffer(Pins(fp))
        /\ Head(Pins(fp)) = Pin(fp.gateway)
    <3>1. PICK p : p = Pin(fp.gateway)
      OBVIOUS
    <3>2. p \in Route
      BY <2>2, <3>1
    <3>3. <<p>> \in Seq(Route) /\ <<p>> # <<>> /\ DOMAIN <<p>> = {1} /\ <<p>>[1] = p /\ Head(<<p>>) = p
      BY <3>2
    <3>4. ToSet(<<p>>) = {p}
      BY <3>3 DEF ToSet
    <3>5. KeysDiffer(<<p>>)
      BY <3>3 DEF KeysDiffer
    <3> QED BY <2>1, <3>1, <3>3, <3>4, <3>5
  <2>4. \A a \in ToSet(Pins(fp)), b \in ToSet(TunnelRoutes(fp)) : Key(a) # Key(b)
    BY <2>2, <2>3, <1>5, <1>6
  <2>5. /\ DesiredRoutes(fp) \in Seq(Route) /\ KeysDiffer(DesiredRoutes(fp))
        /\ ToSet(DesiredRoutes(fp)) = {Pin(fp.gateway)} \cup kept
    BY <2>3, <2>4, <1>5, Joined DEF DesiredRoutes
  <2>6. DesiredRoutes(fp) # <<>> /\ Head(DesiredRoutes(fp)) = Pin(fp.gateway)
    <3>1. PICK s \in Seq(Route), t \in Seq(Route) : s = Pins(fp) /\ t = TunnelRoutes(fp)
      BY <2>3, <1>5
    <3>2. s # <<>> => s \o t # <<>> /\ Head(s \o t) = Head(s)
      OBVIOUS
    <3> QED BY <3>1, <3>2, <2>3 DEF DesiredRoutes
  <2>7. Desired(fp) = {Pin(fp.gateway)} \cup kept
    BY <2>3 DEF Desired, kept, Tunnels, AcceptedLinks
  <2> QED BY <2>1, <2>5, <2>6, <2>7, <1>7 DEF kept, Ours
<1>8. CASE ~(NeedsPin /\ fp.gateway # NoRoute)
  <2>1. Pins(fp) = <<>>
    BY <1>8 DEF Pins
  <2>2. ToSet(Pins(fp)) = {}
    BY <2>1 DEF ToSet
  <2>3. DesiredRoutes(fp) = TunnelRoutes(fp)
    BY <2>1, <1>5, ConcatEmptySeq DEF DesiredRoutes
  <2>4. Desired(fp) = kept
    BY <2>2 DEF Desired, kept, Tunnels, AcceptedLinks
  <2> QED BY <2>3, <2>4, <1>5, <1>8 DEF kept, Ours
<1> QED BY <1>7, <1>8
-----------------------------------------------------------------------------
(***************************************************************************)
(* What an action does to the kernel's table.                              *)
(***************************************************************************)

(* Every route that the tunnel may ever have.                              *)
OurRoutes == {r \in Route : Ours(r)}

LEMMA OurRouteFacts ==
  ASSUME OneRoutePerPrefix, config \in TunnelConfigs
  PROVE  /\ \A r \in OurRoutes :
              /\ r \in Route /\ Key(r) \in Keys
              /\ r.via = "tunnel" => r \in Tunnels /\ Key(r) # EndpointKey
              /\ r.via # "tunnel" => /\ r.via \in Gateways /\ r = Pin(r.via) /\ NeedsPin
                                     /\ Key(r) = EndpointKey
         /\ \A r, q \in OurRoutes : Key(r) = Key(q) /\ r.via = q.via => r = q
         /\ EndpointKey \in Keys /\ EndpointKey \notin UNION Subnets
         /\ \A fp \in Fingerprint : Desired(fp) \subseteq OurRoutes
<1>1. \A r \in OurRoutes :
        /\ r \in Route /\ Key(r) \in Keys
        /\ r.via = "tunnel" => r \in Tunnels /\ Key(r) # EndpointKey
        /\ r.via # "tunnel" => /\ r.via \in Gateways /\ r = Pin(r.via) /\ NeedsPin
                               /\ Key(r) = EndpointKey
  BY OurFacts DEF OurRoutes
<1>2. ASSUME NEW r \in OurRoutes, NEW q \in OurRoutes, Key(r) = Key(q), r.via = q.via PROVE r = q
  <2>1. CASE r.via = "tunnel"
    BY <1>1, <1>2, <2>1, OneTunnelRoute
  <2>2. CASE r.via # "tunnel"
    <3>1. r = Pin(r.via) /\ q = Pin(q.via)
      BY <1>1, <1>2, <2>2
    <3> QED BY <3>1, <1>2
  <2> QED BY <2>1, <2>2
<1>3. EndpointKey \in Keys /\ EndpointKey \notin UNION Subnets
  BY ConfigFacts DEF OneRoutePerPrefix, EndpointKey
<1>4. ASSUME NEW fp \in Fingerprint PROVE Desired(fp) \subseteq OurRoutes
  <2>1. \A r \in Desired(fp) : Ours(r)
    BY DesiredFacts
  <2>2. \A r \in Desired(fp) : r \in Route
    BY <2>1, OurFacts
  <2> QED BY <2>1, <2>2 DEF OurRoutes
<1> QED BY <1>1, <1>2, <1>3, <1>4

LEMMA NetworkFacts ==
  ASSUME RoutesTypeOK
  PROVE  /\ network.subnets \in Subnets /\ network.subnets \subseteq Keys
         /\ network.subnets \subseteq Networks
         /\ \A s \in network.subnets : SubnetContains(s, s) /\ s \in UNION Subnets
         /\ network.gateway \in Gateways \cup {NoRoute}
<1>1. network.subnets \in Subnets /\ network.gateway \in Gateways \cup {NoRoute}
  BY DEF RoutesTypeOK
<1>2. network.subnets \subseteq Networks
  BY <1>1, RoutesAssumption
<1>3. network.subnets \subseteq Keys
  BY <1>1 DEF Keys
<1>4. \A s \in network.subnets : SubnetContains(s, s)
  <2>1. \A s \in Networks : s.len \in Nat
    BY LinkRulesAssumption DEF Networks
  <2> QED BY <1>2, <2>1 DEF SubnetContains
<1> QED BY <1>1, <1>2, <1>3, <1>4

(* What is cleared for a route that is about to be added.                  *)
LEMMA Prepared ==
  ASSUME RoutesTypeOK, NEW route \in Route, Key(route) \in Keys, NEW p, p = Prepare(Kernel, route)
  PROVE  /\ p.foreign \in BOOLEAN
         /\ p.kernel.table \in [Keys -> Holders] /\ p.kernel.scoped \subseteq Keys
         /\ p.kernel = [table |-> p.kernel.table, scoped |-> p.kernel.scoped]
         /\ route.via # "tunnel" => ~p.foreign /\ p.kernel = Kernel
         /\ \A k \in Keys : k # Key(route) => /\ p.kernel.table[k] = table[k]
                                              /\ k \in p.kernel.scoped <=> k \in scoped
         /\ p.kernel.table[Key(route)] \in {NoRoute, table[Key(route)]}
         /\ ~p.foreign /\ route.via = "tunnel" => p.kernel.table[Key(route)] = NoRoute
         /\ p.foreign => \/ p.kernel = Kernel
                         \/ p.kernel.table[Key(route)] = NoRoute /\ Key(route) \in p.kernel.scoped
<1> DEFINE key == Key(route)
           cleared(b) == Clear(Kernel, key, b)
           t0 == [table EXCEPT ![key] = NoRoute]
<1>1. /\ table \in [Keys -> Holders] /\ scoped \subseteq Keys /\ key \in Keys
      /\ NoRoute \in Holders /\ Holders = Gateways \cup {NoRoute, "tunnel", "old", "en0"}
  BY DEF RoutesTypeOK, Holders
<1>2. /\ t0 \in [Keys -> Holders] /\ t0[key] = NoRoute
      /\ \A k \in Keys : k # key => t0[k] = table[k]
  BY <1>1
<1>3. /\ cleared(TRUE) = [table |-> t0, scoped |-> scoped \ {key}]
      /\ cleared(FALSE) = [table |-> t0, scoped |-> scoped]
  BY DEF Clear, Kernel
<1>4. Kernel.table = table /\ Kernel.scoped = scoped /\ Kernel = [table |-> table, scoped |-> scoped]
  BY DEF Kernel
<1> HIDE DEF t0
<1>5. \A b \in BOOLEAN :
        /\ cleared(b) = [table |-> cleared(b).table, scoped |-> cleared(b).scoped]
        /\ cleared(b).table = t0 /\ cleared(b).scoped \subseteq Keys
        /\ cleared(b).scoped = IF b THEN scoped \ {key} ELSE scoped
        /\ \A k \in Keys : k # key => (k \in cleared(b).scoped <=> k \in scoped)
  <2>1. \A b \in BOOLEAN : cleared(b) = [table |-> t0, scoped |-> IF b THEN scoped \ {key} ELSE scoped]
    BY <1>3
  <2> HIDE DEF cleared
  <2> QED BY <2>1, <1>1
<1>6. PICK holder : holder = Entry(Kernel, key)
  OBVIOUS
<1>7. holder = IF table[key] # NoRoute THEN table[key] ELSE IF key \in scoped THEN "en0" ELSE NoRoute
  BY <1>4, <1>6 DEF Entry
<1>8. p = IF route.via # "tunnel" \/ holder = NoRoute THEN [kernel |-> Kernel, foreign |-> FALSE]
          ELSE IF holder \in {"tunnel", "old"}
          THEN [kernel |-> cleared(holder = "en0"),
                foreign |-> Entry(cleared(holder = "en0"), key) \notin {NoRoute, "tunnel", "old"}]
          ELSE [kernel |-> IF Live(holder, key) THEN Kernel ELSE cleared(holder = "en0"), foreign |-> Live(holder, key)]
  BY <1>6 DEF Prepare
<1>9. PICK c : c = cleared(holder = "en0")
  OBVIOUS
<1>10. PICK live \in BOOLEAN : live = Live(holder, key)
  BY DEF Live
<1>11. /\ c = [table |-> c.table, scoped |-> c.scoped] /\ c.table = t0 /\ c.scoped \subseteq Keys
       /\ \A k \in Keys : k # key => (k \in c.scoped <=> k \in scoped)
  BY <1>5, <1>9
<1>12. p = IF route.via # "tunnel" \/ holder = NoRoute THEN [kernel |-> Kernel, foreign |-> FALSE]
          ELSE IF holder \in {"tunnel", "old"}
          THEN [kernel |-> c, foreign |-> Entry(c, key) \notin {NoRoute, "tunnel", "old"}]
          ELSE [kernel |-> IF live THEN Kernel ELSE c, foreign |-> live]
  BY <1>8, <1>9, <1>10
<1>13. Entry(c, key) = IF key \in c.scoped THEN "en0" ELSE NoRoute
  BY <1>11, <1>2 DEF Entry
<1> HIDE DEF cleared
<1>14. CASE route.via # "tunnel" \/ holder = NoRoute
  <2>1. p = [kernel |-> Kernel, foreign |-> FALSE]
    BY <1>12, <1>14
  <2>2. p.kernel = Kernel /\ ~p.foreign
    BY <2>1
  <2>3. holder = NoRoute => table[key] = NoRoute
    BY <1>7
  <2>4. p.kernel.table = table /\ p.kernel.scoped = scoped
    BY <2>2, <1>4
  <2>5. p.foreign \in BOOLEAN
    BY <2>1
  <2> QED BY <2>2, <2>3, <2>4, <2>5, <1>1, <1>4, <1>14
<1>15. CASE route.via = "tunnel" /\ holder # NoRoute /\ holder \in {"tunnel", "old"}
  <2>1. p = [kernel |-> c, foreign |-> Entry(c, key) \notin {NoRoute, "tunnel", "old"}]
    BY <1>12, <1>15
  <2>a. PICK foreign \in BOOLEAN : foreign = (Entry(c, key) \notin {NoRoute, "tunnel", "old"})
    OBVIOUS
  <2>b. foreign => key \in c.scoped
    BY <2>a, <1>13
  <2>c. p = [kernel |-> c, foreign |-> foreign]
    BY <2>1, <2>a
  <2>2. p.kernel = c /\ p.foreign \in BOOLEAN /\ (p.foreign => key \in c.scoped)
    BY <2>b, <2>c
  <2> QED BY <2>2, <1>1, <1>2, <1>11, <1>15
<1>16. CASE route.via = "tunnel" /\ holder # NoRoute /\ holder \notin {"tunnel", "old"}
  <2>1. p = [kernel |-> IF live THEN Kernel ELSE c, foreign |-> live]
    BY <1>12, <1>16
  <2>2. p.foreign = live /\ p.kernel = IF live THEN Kernel ELSE c
    BY <2>1
  <2>3. CASE live
    BY <2>2, <2>3, <1>1, <1>4, <1>16
  <2>4. CASE ~live
    BY <2>2, <2>4, <1>1, <1>2, <1>11, <1>16
  <2> QED BY <2>3, <2>4
<1> QED BY <1>14, <1>15, <1>16

(* ... and what is cleared of a LAN that the Mac is on: nothing of en0's.  *)
LEMMA PreparedLan ==
  ASSUME RoutesTypeOK, NEW route \in Route, NEW p, p = Prepare(Kernel, route),
         Key(route) \in network.subnets
  PROVE  p.kernel.scoped = scoped
<1>1. PICK key : key = Key(route)
  OBVIOUS
<1>2. \A holder : Live(holder, key)
  BY <1>1, NetworkFacts DEF Live
<1>3. PICK holder : holder = Entry(Kernel, key)
  OBVIOUS
<1>4. holder \in {"tunnel", "old"} => holder # "en0"
  OBVIOUS
<1> QED BY <1>1, <1>2, <1>3, <1>4 DEF Prepare, Clear, Kernel

(* `route add` after that.                                                 *)
LEMMA AddedFacts ==
  ASSUME NEW k, k = [table |-> k.table, scoped |-> k.scoped], k.table \in [Keys -> Holders],
         NEW route \in Route, Key(route) \in Keys
  PROVE  /\ Added(k, route).scoped = k.scoped /\ Added(k, route).table \in [Keys -> Holders]
         /\ \A key \in Keys : key # Key(route) => Added(k, route).table[key] = k.table[key]
         /\ Added(k, route).table[Key(route)]
              = IF k.table[Key(route)] = NoRoute THEN route.via ELSE k.table[Key(route)]
<1>1. PICK t, s : k = [table |-> t, scoped |-> s] /\ t = k.table /\ s = k.scoped
  OBVIOUS
<1>2. PICK key : key = Key(route)
  OBVIOUS
<1>3. Added(k, route) = [table |-> [t EXCEPT ![key] = IF @ = NoRoute THEN route.via ELSE @], scoped |-> s]
  BY <1>1, <1>2 DEF Added
<1>4. route.via \in Holders /\ t \in [Keys -> Holders]
  BY <1>1 DEF Route, Holders
<1> QED BY <1>1, <1>2, <1>3, <1>4

(* A delete by prefix, and the restore of the subnet that it shadowed.     *)
LEMMA DeletedFacts ==
  ASSUME RoutesTypeOK, NEW route \in Route, Key(route) \in Keys, NEW subnets,
         NEW d, d = Deleted(Kernel, route, subnets)
  PROVE  /\ d.table \in [Keys -> Holders] /\ d.table[Key(route)] = NoRoute
         /\ \A k \in Keys : k # Key(route) => d.table[k] = table[k]
         /\ scoped \subseteq d.scoped /\ d.scoped \subseteq Keys
         /\ route.via = "tunnel" /\ Key(route) \in network.subnets \cap subnets => Key(route) \in d.scoped
<1> DEFINE t == [table EXCEPT ![Key(route)] = NoRoute]
<1>1. PICK c : c = Clear(Kernel, Key(route), FALSE)
  OBVIOUS
<1>2. c = [table |-> t, scoped |-> scoped]
  BY <1>1 DEF Clear, Kernel
<1>3. PICK shadowed : shadowed = {subnet \in subnets : /\ route.via = "tunnel" /\ SubnetContains(subnet, Key(route))
                                        /\ Entry(c, subnet) = NoRoute
                                        /\ subnet \in network.subnets}
  OBVIOUS
<1>4. d = [c EXCEPT !.scoped = @ \cup shadowed]
  BY <1>1, <1>3 DEF Deleted, Restored
<1>5. d.table = t /\ d.scoped = scoped \cup shadowed
  BY <1>2, <1>4
<1>6. table \in [Keys -> Holders] /\ scoped \subseteq Keys /\ NoRoute \in Holders
  BY DEF RoutesTypeOK, Holders
<1>7. shadowed \subseteq Keys
  BY <1>3, NetworkFacts
<1>8. ASSUME route.via = "tunnel", Key(route) \in network.subnets \cap subnets
      PROVE  Key(route) \in d.scoped
  <2>1. c.table[Key(route)] = NoRoute /\ c.scoped = scoped
    BY <1>2, <1>6
  <2>2. Key(route) \notin scoped => Entry(c, Key(route)) = NoRoute
    BY <2>1 DEF Entry
  <2>3. SubnetContains(Key(route), Key(route))
    BY <1>8, NetworkFacts
  <2> QED BY <2>2, <2>3, <1>3, <1>5, <1>8
<1> QED BY <1>5, <1>6, <1>7, <1>8
-----------------------------------------------------------------------------
(***************************************************************************)
(* The kernel has what is owned.                                           *)
(***************************************************************************)
Owned == ToSet(owned)

(* The tunnel's entries are its routes', and no others.                    *)
TunnelEntries ==
  \A k \in Keys : table[k] = "tunnel" <=> \E r \in Owned : r.via = "tunnel" /\ Key(r) = k

(* Only the endpoint has an entry over a gateway: that of the pin, unless  *)
(* a teardown left one.                                                    *)
PinEntry ==
  /\ \A k \in Keys : table[k] \in Gateways => k = EndpointKey
  /\ table[EndpointKey] \in Gateways \cup {NoRoute}
  /\ \A r \in Owned : r.via # "tunnel" => /\ table[EndpointKey] \in Gateways
                                          /\ ~errors => table[EndpointKey] = r.via
  /\ ~errors /\ table[EndpointKey] \in Gateways => \E r \in Owned : r.via # "tunnel"

(* A LAN that the Mac is on has its route, in the table or beside it, or   *)
(* a tunnel has taken it.                                                  *)
Attached ==
  Sighted => \A s \in network.subnets :
               \/ table[s] \in {"en0", "old", "tunnel"}
               \/ table[s] = NoRoute /\ s \in scoped

KernelKnown == TunnelEntries /\ PinEntry /\ Attached

LEMMA SameConfig ==
  ASSUME UNCHANGED config
  PROVE  /\ UNCHANGED <<EndpointKey, Tunnels, NeedsPin>>
BY DEF EndpointKey, Tunnels, NeedsPin

LEMMA SameRoutes ==
  ASSUME UNCHANGED config
  PROVE  OurRoutes' = OurRoutes
BY DEF OurRoutes, Ours, Tunnels, NeedsPin, Pin

(* Nothing is done to the kernel.                                          *)
LEMMA KernelKept ==
  ASSUME KernelKnown, UNCHANGED <<config, network, table, scoped>>, Owned' = Owned,
         errors => errors', blind => blind'
  PROVE  KernelKnown'
<1>1. EndpointKey' = EndpointKey
  BY SameConfig
<1>2. Sighted' => Sighted
  BY DEF Sighted
<1>3. TunnelEntries'
  BY DEF KernelKnown, TunnelEntries
<1>4. PinEntry'
  BY <1>1 DEF KernelKnown, PinEntry
<1>5. Attached'
  BY <1>2 DEF KernelKnown, Attached
<1> QED BY <1>3, <1>4, <1>5 DEF KernelKnown

(* What was in the way of a route is cleared, and the route is not added.  *)
LEMMA KernelPrepared ==
  ASSUME OneRoutePerPrefix, RoutesTypeOK, KernelKnown, Owned \subseteq OurRoutes,
         NEW route \in OurRoutes, \A r \in Owned : Key(r) # Key(route),
         NEW p, p = Prepare(Kernel, route), KernelIs(p.kernel),
         UNCHANGED <<config, network>>, Owned' = Owned, errors' = errors, blind => blind',
         p.foreign \/ (Key(route) \in network.subnets => blind')
  PROVE  table' \in [Keys -> Holders] /\ scoped' \subseteq Keys /\ KernelKnown'
<1> DEFINE key == Key(route)
<1>1. /\ route \in Route /\ key \in Keys /\ EndpointKey \in Keys /\ EndpointKey \notin network.subnets
      /\ (route.via = "tunnel" => key # EndpointKey) /\ (route.via # "tunnel" => key = EndpointKey)
      /\ network.subnets \subseteq Keys
  BY OurRouteFacts, NetworkFacts DEF RoutesTypeOK
<1>a. /\ table' = p.kernel.table /\ scoped' = p.kernel.scoped
      /\ (p.kernel = Kernel => p.kernel.table = table /\ p.kernel.scoped = scoped)
  BY DEF KernelIs, Kernel
<1>2. /\ table' \in [Keys -> Holders] /\ scoped' \subseteq Keys
      /\ (route.via # "tunnel" => ~p.foreign /\ table' = table /\ scoped' = scoped)
      /\ (\A k \in Keys : k # key => table'[k] = table[k] /\ (k \in scoped' <=> k \in scoped))
      /\ table'[key] \in {NoRoute, table[key]}
      /\ (p.foreign => \/ table' = table /\ scoped' = scoped
                       \/ table'[key] = NoRoute /\ key \in scoped')
  BY <1>1, <1>a, Prepared
<1>3. EndpointKey' = EndpointKey /\ (Sighted' => Sighted)
  BY SameConfig DEF Sighted
<1> HIDE DEF key
<1>4. table[key] # "tunnel" /\ table'[key] # "tunnel"
  BY <1>1, <1>2, Owners DEF KernelKnown, TunnelEntries, key
<1>5. TunnelEntries'
  <2>1. ASSUME NEW k \in Keys
        PROVE  table'[k] = "tunnel" <=> \E r \in Owned : r.via = "tunnel" /\ Key(r) = k
    <3>1. table'[k] = "tunnel" <=> table[k] = "tunnel"
      BY <1>2, <1>4
    <3> QED BY <3>1 DEF KernelKnown, TunnelEntries
  <2> QED BY <2>1 DEF TunnelEntries
<1>6. PinEntry'
  <2>1. table'[EndpointKey] = table[EndpointKey]
    BY <1>1, <1>2
  <2>2. \A k \in Keys : table'[k] \in Gateways => k = EndpointKey
    <3>1. \A k \in Keys : table'[k] \in Gateways => table[k] \in Gateways
      BY <1>2, Owners
    <3> QED BY <3>1 DEF KernelKnown, PinEntry
  <2> QED BY <2>1, <2>2, <1>3 DEF KernelKnown, PinEntry
<1>7. Attached'
  <2>1. SUFFICES ASSUME Sighted', NEW s \in network.subnets
                 PROVE  \/ table'[s] \in {"en0", "old", "tunnel"}
                        \/ table'[s] = NoRoute /\ s \in scoped'
    BY DEF Attached
  <2>2. \/ table[s] \in {"en0", "old", "tunnel"}
        \/ table[s] = NoRoute /\ s \in scoped
    BY <2>1, <1>3 DEF KernelKnown, Attached
  <2>3. ~blind' /\ s \in Keys
    BY <2>1, <1>1 DEF Sighted
  <2>4. CASE s # key
    BY <2>2, <2>3, <2>4, <1>2
  <2>5. CASE s = key
    <3>1. p.foreign
      BY <2>3, <2>5 DEF key
    <3> QED BY <3>1, <2>2, <2>5, <1>2
  <2> QED BY <2>4, <2>5
<1> QED BY <1>2, <1>5, <1>6, <1>7 DEF KernelKnown

(* ... and the route is added.                                             *)
LEMMA KernelAdded ==
  ASSUME OneRoutePerPrefix, RoutesTypeOK, KernelKnown, Owned \subseteq OurRoutes,
         NEW route \in OurRoutes, \A r \in Owned : Key(r) # Key(route),
         NEW p, p = Prepare(Kernel, route), ~p.foreign, KernelIs(Added(p.kernel, route)),
         UNCHANGED <<config, network>>, Owned' = Owned \cup {route}, errors' = errors, blind => blind'
  PROVE  table' \in [Keys -> Holders] /\ scoped' \subseteq Keys /\ KernelKnown'
<1> DEFINE key == Key(route)
<1>1. /\ route \in Route /\ key \in Keys /\ EndpointKey \in Keys /\ EndpointKey \notin network.subnets
      /\ (route.via = "tunnel" => key # EndpointKey)
      /\ (route.via # "tunnel" => key = EndpointKey /\ route.via \in Gateways)
      /\ network.subnets \subseteq Keys
  BY OurRouteFacts, NetworkFacts DEF RoutesTypeOK
<1>a. /\ p.kernel.table \in [Keys -> Holders] /\ p.kernel.scoped \subseteq Keys
      /\ p.kernel = [table |-> p.kernel.table, scoped |-> p.kernel.scoped]
      /\ (route.via # "tunnel" => p.kernel.table = table /\ p.kernel.scoped = scoped)
      /\ (\A k \in Keys : k # key => p.kernel.table[k] = table[k] /\ (k \in p.kernel.scoped <=> k \in scoped))
      /\ (route.via = "tunnel" => p.kernel.table[key] = NoRoute)
  BY <1>1, Prepared DEF Kernel
<1>b. PICK k0 : k0 = p.kernel
  OBVIOUS
<1>c. /\ Added(k0, route).scoped = k0.scoped /\ Added(k0, route).table \in [Keys -> Holders]
      /\ \A k \in Keys : k # key => Added(k0, route).table[k] = k0.table[k]
      /\ Added(k0, route).table[key]
              = IF k0.table[key] = NoRoute THEN route.via ELSE k0.table[key]
  BY <1>1, <1>a, <1>b, AddedFacts
<1>2. /\ table' \in [Keys -> Holders] /\ scoped' \subseteq Keys
      /\ (\A k \in Keys : k # key => table'[k] = table[k] /\ (k \in scoped' <=> k \in scoped))
      /\ (route.via = "tunnel" => table'[key] = "tunnel")
      /\ (route.via # "tunnel" => table'[key] = IF table[key] = NoRoute THEN route.via ELSE table[key])
  BY <1>a, <1>b, <1>c DEF KernelIs
<1>3. EndpointKey' = EndpointKey /\ (Sighted' => Sighted)
  BY SameConfig DEF Sighted
<1>4. /\ route \in Owned' /\ Owned \subseteq Owned' /\ \A r \in Owned' : r = route \/ r \in Owned
  OBVIOUS
<1>d. \A r \in Owned : Key(r) # key
  OBVIOUS
<1>e. key = Key(route)
  OBVIOUS
<1> HIDE DEF key
<1>5. TunnelEntries'
  <2>1. SUFFICES ASSUME NEW k \in Keys
                 PROVE  table'[k] = "tunnel" <=> \E r \in Owned' : r.via = "tunnel" /\ Key(r) = k
    BY DEF TunnelEntries
  <2>2. table[k] = "tunnel" <=> \E r \in Owned : r.via = "tunnel" /\ Key(r) = k
    BY DEF KernelKnown, TunnelEntries
  <2>3. CASE k # key
    BY <2>2, <2>3, <1>2, <1>4, <1>e
  <2>4. CASE k = key /\ route.via = "tunnel"
    BY <2>4, <1>2, <1>4, <1>e
  <2>5. CASE k = key /\ route.via # "tunnel"
    <3>1. table'[k] # "tunnel"
      <4>1. table[key] \in Gateways \cup {NoRoute}
        BY <2>5, <1>1 DEF KernelKnown, PinEntry
      <4> QED BY <4>1, <2>5, <1>1, <1>2, Owners
    <3> QED BY <3>1, <2>5, <1>4, <1>d, <1>e
  <2> QED BY <2>3, <2>4, <2>5
<1>6. PinEntry'
  <2>0. table[EndpointKey] \in Gateways \cup {NoRoute}
    BY DEF KernelKnown, PinEntry
  <2>1. \A k \in Keys : table'[k] \in Gateways => k = EndpointKey
    BY <1>1, <1>2, Owners DEF KernelKnown, PinEntry
  <2>2. CASE route.via = "tunnel"
    <3>1. table'[EndpointKey] = table[EndpointKey]
      BY <2>2, <1>1, <1>2
    <3> QED BY <3>1, <2>1, <2>2, <1>3, <1>4 DEF KernelKnown, PinEntry
  <2>3. CASE route.via # "tunnel"
    <3>1. key = EndpointKey /\ route.via \in Gateways /\ table'[EndpointKey] \in Gateways
      BY <2>0, <2>3, <1>1, <1>2
    <3>2. \A r \in Owned : r.via = "tunnel"
      <4>1. \A r \in OurRoutes : r.via # "tunnel" => Key(r) = EndpointKey
        BY OurRouteFacts DEF RoutesTypeOK
      <4> QED BY <4>1, <3>1, <1>d
    <3>3. ~errors => table'[EndpointKey] = route.via
      <4>1. ~errors => table[EndpointKey] = NoRoute
        BY <3>2, <2>0 DEF KernelKnown, PinEntry
      <4> QED BY <4>1, <3>1, <2>3, <1>2
    <3> QED BY <3>1, <3>2, <3>3, <2>1, <2>3, <1>3, <1>4 DEF PinEntry
  <2> QED BY <2>2, <2>3
<1>7. Attached'
  <2>1. SUFFICES ASSUME Sighted', NEW s \in network.subnets
                 PROVE  \/ table'[s] \in {"en0", "old", "tunnel"}
                        \/ table'[s] = NoRoute /\ s \in scoped'
    BY DEF Attached
  <2>2. \/ table[s] \in {"en0", "old", "tunnel"}
        \/ table[s] = NoRoute /\ s \in scoped
    BY <2>1, <1>3 DEF KernelKnown, Attached
  <2>4. CASE s # key
    BY <2>2, <2>4, <1>1, <1>2
  <2>5. CASE s = key
    BY <2>5, <1>1, <1>2
  <2> QED BY <2>4, <2>5
<1> QED BY <1>2, <1>5, <1>6, <1>7 DEF KernelKnown

(* A route is deleted.                                                     *)
LEMMA KernelDeleted ==
  ASSUME OneRoutePerPrefix, RoutesTypeOK, KernelKnown, Owned \subseteq OurRoutes,
         NEW route \in Owned, \A r \in Owned : r # route => Key(r) # Key(route),
         NEW subnets, NEW d, d = Deleted(Kernel, route, subnets), KernelIs(d),
         UNCHANGED <<config, network, errors>>, Owned' = Owned \ {route}, blind => blind',
         ~blind' /\ route.via = "tunnel" /\ Key(route) \in network.subnets => Key(route) \in subnets
  PROVE  table' \in [Keys -> Holders] /\ scoped' \subseteq Keys /\ KernelKnown'
<1> DEFINE key == Key(route)
<1>1. /\ route \in Route /\ key \in Keys /\ EndpointKey \in Keys /\ EndpointKey \notin network.subnets
      /\ (route.via = "tunnel" => key # EndpointKey)
      /\ (route.via # "tunnel" => key = EndpointKey)
      /\ network.subnets \subseteq Keys
  BY OurRouteFacts, NetworkFacts DEF RoutesTypeOK
<1>2. /\ table' \in [Keys -> Holders] /\ scoped' \subseteq Keys
      /\ (\A k \in Keys : k # key => table'[k] = table[k])
      /\ table'[key] = NoRoute /\ scoped \subseteq scoped'
      /\ (route.via = "tunnel" /\ key \in network.subnets \cap subnets => key \in scoped')
  BY <1>1, DeletedFacts DEF KernelIs
<1>3. EndpointKey' = EndpointKey /\ (Sighted' => Sighted /\ ~blind')
  BY SameConfig DEF Sighted
<1>4. \A r : r \in Owned' <=> r \in Owned /\ r # route
  OBVIOUS
<1>d. \A r \in Owned : r # route => Key(r) # key
  OBVIOUS
<1>e. key = Key(route) /\ (~blind' /\ route.via = "tunnel" /\ key \in network.subnets => key \in subnets)
  OBVIOUS
<1> HIDE DEF key
<1>5. TunnelEntries'
  <2>1. SUFFICES ASSUME NEW k \in Keys
                 PROVE  table'[k] = "tunnel" <=> \E r \in Owned' : r.via = "tunnel" /\ Key(r) = k
    BY DEF TunnelEntries
  <2>2. table[k] = "tunnel" <=> \E r \in Owned : r.via = "tunnel" /\ Key(r) = k
    BY DEF KernelKnown, TunnelEntries
  <2>3. CASE k # key
    BY <2>2, <2>3, <1>2, <1>4, <1>e
  <2>4. CASE k = key
    BY <2>4, <1>2, <1>4, <1>d, Owners
  <2> QED BY <2>3, <2>4
<1>6. PinEntry'
  <2>1. \A k \in Keys : table'[k] \in Gateways => k = EndpointKey
    BY <1>2, Owners DEF KernelKnown, PinEntry
  <2>2. CASE route.via = "tunnel"
    <3>1. table'[EndpointKey] = table[EndpointKey]
      BY <2>2, <1>1, <1>2
    <3> QED BY <3>1, <2>1, <2>2, <1>3, <1>4 DEF KernelKnown, PinEntry
  <2>3. CASE route.via # "tunnel"
    <3>1. key = EndpointKey /\ table'[EndpointKey] = NoRoute
      BY <2>3, <1>1, <1>2
    <3>2. \A r \in Owned' : r.via = "tunnel"
      <4>1. \A r \in OurRoutes : r.via # "tunnel" => Key(r) = EndpointKey
        BY OurRouteFacts DEF RoutesTypeOK
      <4> QED BY <4>1, <3>1, <1>4, <1>d
    <3> QED BY <3>1, <3>2, <2>1, <1>3, Owners DEF PinEntry
  <2> QED BY <2>2, <2>3
<1>7. Attached'
  <2>1. SUFFICES ASSUME Sighted', NEW s \in network.subnets
                 PROVE  \/ table'[s] \in {"en0", "old", "tunnel"}
                        \/ table'[s] = NoRoute /\ s \in scoped'
    BY DEF Attached
  <2>2. \/ table[s] \in {"en0", "old", "tunnel"}
        \/ table[s] = NoRoute /\ s \in scoped
    BY <2>1, <1>3 DEF KernelKnown, Attached
  <2>4. CASE s # key
    BY <2>2, <2>4, <1>1, <1>2
  <2>5. CASE s = key
    <3>1. key \in scoped' /\ table'[key] = NoRoute
      BY <2>1, <2>5, <1>1, <1>2, <1>3, <1>e
    <3> QED BY <3>1, <2>5
  <2> QED BY <2>4, <2>5
<1> QED BY <1>2, <1>5, <1>6, <1>7 DEF KernelKnown
-----------------------------------------------------------------------------
(* The device goes: what is left is what a delete has reported.            *)
LEMMA KernelTornDown ==
  ASSUME OneRoutePerPrefix, RoutesTypeOK, KernelKnown, Owned = {} \/ errors,
         table' = [k \in Keys |-> IF table[k] = "tunnel" THEN NoRoute ELSE table[k]],
         UNCHANGED <<config, network, scoped, errors, blind>>, Owned' = {}
  PROVE  table' \in [Keys -> Holders] /\ KernelKnown'
<1>1. /\ EndpointKey' = EndpointKey /\ EndpointKey \in Keys /\ network.subnets \subseteq Keys
      /\ (Sighted' => Sighted /\ ~errors)
  BY SameConfig, OurRouteFacts, NetworkFacts DEF Sighted, RoutesTypeOK
<1>2. /\ table' \in [Keys -> Holders]
      /\ \A k \in Keys : table'[k] = IF table[k] = "tunnel" THEN NoRoute ELSE table[k]
  BY DEF RoutesTypeOK, Holders
<1>3. \A k \in Keys : table'[k] # "tunnel"
  BY <1>2, Owners
<1>4. ~errors => \A k \in Keys : table[k] # "tunnel"
  BY DEF KernelKnown, TunnelEntries
<1>5. TunnelEntries'
  BY <1>3 DEF TunnelEntries
<1>6. PinEntry'
  BY <1>1, <1>2, Owners DEF KernelKnown, PinEntry
<1>7. Attached'
  BY <1>1, <1>2, <1>4 DEF KernelKnown, Attached
<1> QED BY <1>2, <1>5, <1>6, <1>7 DEF KernelKnown

(* The Mac moves: the routes that the tunnel has stay.                     *)
LEMMA KernelRoam ==
  ASSUME OneRoutePerPrefix, RoutesTypeOK, KernelKnown,
         NEW new \in [subnets : Subnets, gateway : Gateways \cup {NoRoute}], Roam(new)
  PROVE  table' \in [Keys -> Holders] /\ scoped' \subseteq Keys /\ KernelKnown'
<1> DEFINE left == network.subnets \ new.subnets
           joined == new.subnets \ network.subnets
<1>1. /\ EndpointKey' = EndpointKey /\ EndpointKey \in Keys /\ EndpointKey \notin UNION Subnets
      /\ network.subnets \subseteq Keys /\ network.subnets \in Subnets
      /\ network' = new /\ new.subnets \in Subnets /\ new.subnets \subseteq Keys
      /\ (Sighted' => Sighted) /\ UNCHANGED <<owned, errors>>
  <2>1. UNCHANGED <<config, owned, errors>> /\ network' = new /\ (blind => blind')
    BY DEF Roam
  <2>2. new.subnets \in Subnets
    OBVIOUS
  <2>3. new.subnets \subseteq Keys
    BY <2>2 DEF Keys
  <2>4. EndpointKey \in Keys /\ EndpointKey \notin UNION Subnets
    BY OurRouteFacts DEF RoutesTypeOK
  <2>5. Sighted' => Sighted
    BY <2>1 DEF Sighted
  <2> QED BY <2>1, <2>2, <2>3, <2>4, <2>5, SameConfig, NetworkFacts
<1>2. PICK stale \in SUBSET {k \in left : Entry(Kernel, k) = "en0"} :
        /\ scoped' = (scoped \ left) \cup stale
        /\ table' = [k \in Keys |-> CASE k \in left /\ table[k] = "en0"   -> NoRoute
                                      [] k \in joined /\ table[k] = NoRoute -> "en0"
                                      [] OTHER                           -> table[k]]
  BY DEF Roam
<1> HIDE DEF left, joined
<1>3. /\ left \subseteq Keys /\ joined \cap left = {} /\ joined \subseteq Keys
      /\ (\A s \in new.subnets : s \in joined \/ (s \in network.subnets /\ s \notin left))
      /\ EndpointKey \notin left /\ EndpointKey \notin joined
  BY <1>1 DEF left, joined
<1>4. /\ table \in [Keys -> Holders] /\ scoped \subseteq Keys /\ "en0" \in Holders /\ NoRoute \in Holders
  BY DEF RoutesTypeOK, Holders
<1>5. \A k \in Keys : /\ k \in left /\ table[k] = "en0" => table'[k] = NoRoute
                      /\ k \in joined /\ table[k] = NoRoute => table'[k] = "en0"
                      /\ ~(k \in left /\ table[k] = "en0") /\ ~(k \in joined /\ table[k] = NoRoute)
                           => table'[k] = table[k]
  BY <1>2, <1>3
<1>6. table' \in [Keys -> Holders]
  <2>1. \A k \in Keys : table'[k] \in Holders
    BY <1>4, <1>5
  <2>2. table' = [k \in Keys |-> table'[k]]
    BY <1>2
  <2> QED BY <2>1, <2>2
<1>7. scoped' \subseteq Keys
  BY <1>2, <1>3, <1>4
<1>8. \A k \in Keys : /\ table'[k] = "tunnel" <=> table[k] = "tunnel"
                      /\ table'[k] \in Gateways => table[k] \in Gateways
  BY <1>5, Owners
<1>9. table'[EndpointKey] = table[EndpointKey]
  BY <1>1, <1>3, <1>5
<1>10. Owned' = Owned
  BY <1>1 DEF Owned
<1>11. TunnelEntries'
  BY <1>8, <1>10 DEF KernelKnown, TunnelEntries
<1>12. PinEntry'
  BY <1>1, <1>8, <1>9, <1>10 DEF KernelKnown, PinEntry
<1>13. Attached'
  <2>1. SUFFICES ASSUME Sighted', NEW s \in new.subnets
                 PROVE  \/ table'[s] \in {"en0", "old", "tunnel"}
                        \/ table'[s] = NoRoute /\ s \in scoped'
    BY <1>1 DEF Attached
  <2>2. s \in Keys
    BY <1>1
  <2>3. CASE s \in joined
    <3>1. table[s] \in {NoRoute, "tunnel", "old", "en0"}
      <4>1. table[s] \notin Gateways
        BY <2>2, <2>3, <1>1, <1>3 DEF KernelKnown, PinEntry
      <4> QED BY <4>1, <2>2, <1>4 DEF Holders
    <3> QED BY <3>1, <2>2, <2>3, <1>3, <1>5
  <2>4. CASE s \in network.subnets /\ s \notin left
    <3>1. \/ table[s] \in {"en0", "old", "tunnel"}
          \/ table[s] = NoRoute /\ s \in scoped
      BY <2>1, <2>4, <1>1 DEF KernelKnown, Attached
    <3>2. s \notin joined
      BY <2>4 DEF joined
    <3> QED BY <3>1, <3>2, <2>2, <2>4, <1>2, <1>5
  <2> QED BY <2>3, <2>4, <1>3
<1> QED BY <1>6, <1>7, <1>11, <1>12, <1>13 DEF KernelKnown
-----------------------------------------------------------------------------
(***************************************************************************)
(* The ledger, the plan that is carried out and what failed.               *)
(***************************************************************************)

(* What the fingerprint that was seen last calls for.                      *)
Wanted == Desired(seen.fp)
WantedPin == Pin(seen.fp.gateway)

FailedDeletes == {r \in Route : [route |-> r, op |-> "Delete"] \in failing}
FailedAdds == {r \in Route : [route |-> r, op |-> "Add"] \in failing}

(* What is owned is this connection's, a prefix each.                      *)
LedgerKnown ==
  /\ Owned \subseteq OurRoutes
  /\ KeysDiffer(owned)
  /\ pc \in {"down", "begin"} => owned = <<>> /\ failing = {} /\ pass.dels = <<>>

(* What is still to be added is wanted, and not owned.                     *)
AddsKnown ==
  pc \in {"setup", "apply"} =>
    /\ KeysDiffer(pass.adds)
    /\ ToSet(pass.adds) \subseteq Wanted
    /\ ToSet(pass.adds) \cap (Owned \cup FailedAdds) = {}

(* The pin comes first.                                                    *)
SetupKnown ==
  pc = "setup" =>
    /\ Owned \subseteq Wanted
    /\ failing = {}
    /\ NeedsPin => \/ WantedPin \in Owned
                   \/ owned = <<>> /\ pass.adds # <<>> /\ Head(pass.adds) = WantedPin

(* What is owned and not wanted is to be deleted, or that has failed.      *)
ApplyKnown ==
  pc = "apply" =>
    /\ ToSet(pass.dels) \subseteq Owned \ Wanted
    /\ KeysDiffer(pass.dels)
    /\ Owned \ Wanted \subseteq ToSet(pass.dels) \cup FailedDeletes
    /\ ToSet(pass.dels) \cap FailedDeletes = {}

UpKnown == pc \in {"up", "gateway"} => Owned \ Wanted \subseteq FailedDeletes

FailuresKnown ==
  pc \in {"up", "gateway", "apply"} =>
    /\ FailedDeletes \subseteq Owned \ Wanted
    /\ FailedAdds \subseteq Wanted \ Owned

(* What is owned is still to be deleted, or that was reported.             *)
TeardownKnown ==
  pc \in {"rollback", "cleanup"} =>
    /\ ToSet(pass.dels) \subseteq Owned
    /\ KeysDiffer(pass.dels)
    /\ Owned \subseteq ToSet(pass.dels) \/ errors

GatewayKnown == pc \in {"setup", "up", "gateway", "apply"} /\ NeedsPin => seen.fp.gateway # NoRoute

(* A pin that is missing is going to be added, or that has failed.         *)
PinFailed == \E r \in FailedDeletes \cup FailedAdds : Key(r) = EndpointKey
PinOwned == \E r \in Owned : Key(r) = EndpointKey
PinRetried == pass.retry => \/ [route |-> WantedPin, op |-> "Add"] \in pass.previous
                            \/ DeleteFailed(pass.previous, WantedPin)
PinKnown ==
  NeedsPin =>
    /\ pc \in {"up", "gateway"} => PinOwned \/ PinFailed
    /\ pc = "apply" => \/ WantedPin \in Owned \/ PinFailed
                       \/ WantedPin \in ToSet(pass.adds) /\ PinRetried

(* The subnets that were seen are those that there are, or it was not      *)
(* possible to see them, unless the network has changed since.             *)
SeenKnown ==
  ~blind =>
    /\ pc \in {"begin", "gateway"} => seen.subnets \in {network.subnets, {}}
    /\ pc \in {"setup", "apply"} => seen.fp.subnets \in {network.subnets, {}}
    /\ pc = "cleanup" => seen.subnets = network.subnets
    /\ pc = "rollback" => seen.fp.subnets = network.subnets \/ owned = <<>>

RoutesInv == /\ RoutesTypeOK /\ KernelKnown
             /\ LedgerKnown /\ AddsKnown /\ SetupKnown /\ ApplyKnown /\ UpKnown /\ FailuresKnown
             /\ TeardownKnown /\ GatewayKnown /\ PinKnown /\ SeenKnown

LEMMA Differ ==
  ASSUME NEW s, KeysDiffer(s), NEW r \in ToSet(s), NEW q \in ToSet(s), Key(r) = Key(q)
  PROVE  r = q
BY DEF KeysDiffer, ToSet

LEMMA NoRoutes == ToSet(<<>>) = {} /\ KeysDiffer(<<>>)
BY DEF ToSet, KeysDiffer

LEMMA SameWanted ==
  ASSUME UNCHANGED config, NEW fp, seen'.fp = fp
  PROVE  Wanted' = Desired(fp) /\ WantedPin' = Pin(fp.gateway)
BY DEF Wanted, WantedPin, Desired, Pins, Pin, NeedsPin, AcceptedLinks

(* An action that is not about the configuration or the fingerprint.       *)
LEMMA Frame ==
  ASSUME UNCHANGED config, seen'.fp = seen.fp
  PROVE  UNCHANGED <<EndpointKey, NeedsPin, OurRoutes, Wanted, WantedPin>>
<1>1. Wanted' = Wanted /\ WantedPin' = WantedPin
  BY SameWanted DEF Wanted, WantedPin
<1> QED BY <1>1, SameConfig, SameRoutes

LEMMA DesiredDiffer ==
  ASSUME OneRoutePerPrefix, config \in TunnelConfigs, NEW fp \in Fingerprint
  PROVE  /\ \A r, q \in Desired(fp) : Key(r) = Key(q) => r = q
         /\ Desired(fp) \subseteq OurRoutes
         /\ NeedsPin /\ fp.gateway # NoRoute =>
              /\ Pin(fp.gateway) \in Desired(fp) /\ Key(Pin(fp.gateway)) = EndpointKey
              /\ Pin(fp.gateway).via # "tunnel"
         /\ \A r \in Desired(fp) : Key(r) \in fp.subnets => r.via # "tunnel"
         /\ fp.subnets = {} => Tunnels \subseteq Desired(fp)
<1>1. /\ ToSet(DesiredRoutes(fp)) = Desired(fp) /\ KeysDiffer(DesiredRoutes(fp))
      /\ \A r : r \in Desired(fp) <=>
              \/ r \in Tunnels /\ Tunnelled(r.dest, fp.subnets, LinksOf[config])
              \/ NeedsPin /\ fp.gateway # NoRoute /\ r = Pin(fp.gateway)
  BY DesiredFacts
<1>2. \A r, q \in Desired(fp) : Key(r) = Key(q) => r = q
  BY <1>1, Differ
<1>3. Desired(fp) \subseteq OurRoutes
  BY OurRouteFacts
<1>4. fp.gateway \in Gateways \cup {NoRoute} /\ fp.subnets \subseteq Networks
  BY DEF Fingerprint
<1>5. ASSUME NeedsPin, fp.gateway # NoRoute
      PROVE  /\ Pin(fp.gateway) \in Desired(fp) /\ Key(Pin(fp.gateway)) = EndpointKey
             /\ Pin(fp.gateway).via # "tunnel"
  <2>1. fp.gateway \in Gateways
    BY <1>4, <1>5
  <2> QED BY <1>1, <1>5, <2>1, PinFacts
<1>6. ASSUME NEW r \in Desired(fp), Key(r) \in fp.subnets, r.via = "tunnel" PROVE FALSE
  <2>1. r \in Tunnels /\ Key(r) # EndpointKey
    BY <1>3, <1>6, OurRouteFacts
  <2>2. Tunnelled(r.dest, fp.subnets, LinksOf[config])
    <3>1. ~(NeedsPin /\ fp.gateway # NoRoute /\ r = Pin(fp.gateway))
      BY <1>5, <2>1
    <3> QED BY <3>1, <1>1
  <2>3. ~SubnetContains(Key(r), Key(r))
    BY <1>6, <2>2 DEF Tunnelled, InLocalSubnet, Key
  <2>4. Key(r) \in Networks
    BY <1>4, <1>6
  <2>5. Key(r).len \in Nat
    BY <2>4, LinkRulesAssumption DEF Networks
  <2> QED BY <2>3, <2>5 DEF SubnetContains
<1>7. ASSUME fp.subnets = {}, NEW r \in Tunnels PROVE r \in Desired(fp)
  <2>1. Tunnelled(r.dest, fp.subnets, LinksOf[config])
    BY <1>7 DEF Tunnelled, InLocalSubnet, ExcludedByLink
  <2> QED BY <2>1, <1>1
<1> QED BY <1>2, <1>3, <1>5, <1>6, <1>7

LEMMA SeenFacts ==
  ASSUME OneRoutePerPrefix, RoutesTypeOK
  PROVE  /\ seen.fp \in Fingerprint /\ config \in TunnelConfigs /\ seen.subnets \subseteq Networks
         /\ \A r, q \in Wanted : Key(r) = Key(q) => r = q
         /\ Wanted \subseteq OurRoutes
         /\ NeedsPin /\ seen.fp.gateway # NoRoute =>
              WantedPin \in Wanted /\ Key(WantedPin) = EndpointKey /\ WantedPin.via # "tunnel"
         /\ \A r \in Wanted : Key(r) \in seen.fp.subnets => r.via # "tunnel"
         /\ seen.fp.subnets = {} => Tunnels \subseteq Wanted
<1>1. seen.fp \in Fingerprint /\ config \in TunnelConfigs /\ seen.subnets \subseteq Networks
  BY DEF RoutesTypeOK
<1> QED BY <1>1, DesiredDiffer DEF Wanted, WantedPin

LEMMA FailureFacts ==
  ASSUME RoutesTypeOK
  PROVE  /\ \A f \in failing : \/ f.op = "Delete" /\ f.route \in FailedDeletes
                               \/ f.op = "Add" /\ f.route \in FailedAdds
         /\ \A r : DeleteFailed(failing, r) <=> \E q \in FailedDeletes : Key(q) = Key(r)
<1>1. \A f \in failing : /\ f.route \in Route /\ f.op \in {"Add", "Delete"}
                         /\ f = [route |-> f.route, op |-> f.op]
  BY DEF RoutesTypeOK, Failure
<1>2. \A f \in failing : \/ f.op = "Delete" /\ f.route \in FailedDeletes
                         \/ f.op = "Add" /\ f.route \in FailedAdds
  BY <1>1 DEF FailedDeletes, FailedAdds
<1>3. ASSUME NEW r, NEW q \in FailedDeletes, Key(q) = Key(r) PROVE DeleteFailed(failing, r)
  <2>1. [route |-> q, op |-> "Delete"] \in failing
    BY DEF FailedDeletes
  <2> QED BY <2>1, <1>3 DEF DeleteFailed
<1>4. ASSUME NEW r, DeleteFailed(failing, r) PROVE \E q \in FailedDeletes : Key(q) = Key(r)
  BY <1>2, <1>4 DEF DeleteFailed
<1> QED BY <1>2, <1>3, <1>4

(* One more failure.                                                       *)
LEMMA Failed ==
  ASSUME RoutesTypeOK, NEW route \in Route, NEW op \in {"Add", "Delete"},
         failing' = failing \cup {[route |-> route, op |-> op]}
  PROVE  /\ failing' \subseteq Failure
         /\ FailedDeletes' = IF op = "Delete" THEN FailedDeletes \cup {route} ELSE FailedDeletes
         /\ FailedAdds' = IF op = "Add" THEN FailedAdds \cup {route} ELSE FailedAdds
<1>1. failing \subseteq Failure /\ [route |-> route, op |-> op] \in Failure
  BY DEF RoutesTypeOK, Failure
<1>2. \A r \in Route : \A o : [route |-> r, op |-> o] = [route |-> route, op |-> op] <=> r = route /\ o = op
  OBVIOUS
<1> QED BY <1>1, <1>2 DEF FailedDeletes, FailedAdds

LEMMA SameFailures == ASSUME UNCHANGED failing PROVE UNCHANGED <<FailedDeletes, FailedAdds>>
BY DEF FailedDeletes, FailedAdds

LEMMA NoFailures == ASSUME failing = {} PROVE FailedDeletes = {} /\ FailedAdds = {}
BY DEF FailedDeletes, FailedAdds
-----------------------------------------------------------------------------

LEMMA ReadFacts ==
  ASSUME RoutesTypeOK, ReadSubnets
  PROVE  /\ seen' \in [fp : Fingerprint, subnets : SUBSET Networks] /\ seen'.fp = seen.fp
         /\ seen'.subnets \in {network.subnets, {}}
         /\ lapses' \in 0..MaxLapses /\ (lapses' = lapses => seen'.subnets = network.subnets)
<1>1. /\ seen \in [fp : Fingerprint, subnets : SUBSET Networks] /\ lapses \in 0..MaxLapses /\ MaxLapses \in Nat
      /\ network.subnets \subseteq Networks
  BY NetworkFacts, RoutesAssumption DEF RoutesTypeOK
<1>2. PICK subnets \in {network.subnets, {}} :
        /\ seen' = [seen EXCEPT !.subnets = subnets]
        /\ (subnets = network.subnets /\ lapses' = lapses) \/ (lapses > 0 /\ lapses' = lapses - 1)
  BY DEF ReadSubnets, CommandFails
<1>3. seen' \in [fp : Fingerprint, subnets : SUBSET Networks] /\ seen'.fp = seen.fp /\ seen'.subnets = subnets
  BY <1>1, <1>2
<1>4. lapses' \in 0..MaxLapses /\ (lapses' = lapses => subnets = network.subnets)
  BY <1>1, <1>2
<1> QED BY <1>2, <1>3, <1>4

LEMMA BeginSetupKeeps ==
  ASSUME OneRoutePerPrefix, RoutesInv, BeginSetup
  PROVE  RoutesInv'
<1>1. /\ pc = "down" /\ pc' = "begin" /\ UNCHANGED <<environment, blind, table, scoped, owned, failing, pass, errors>>
      /\ ReadSubnets /\ RoutesTypeOK
  BY DEF BeginSetup, RoutesInv
<1>2. /\ seen' \in [fp : Fingerprint, subnets : SUBSET Networks] /\ seen'.fp = seen.fp
      /\ seen'.subnets \in {network.subnets, {}} /\ lapses' \in 0..MaxLapses
  BY <1>1, ReadFacts
<1>3. UNCHANGED <<config, network, roams>>
  BY <1>1 DEF environment
<1>4. UNCHANGED <<EndpointKey, NeedsPin, OurRoutes, Wanted, WantedPin>>
  BY <1>2, <1>3, Frame
<1>5. RoutesTypeOK'
  BY <1>1, <1>2, <1>3 DEF RoutesTypeOK
<1>6. KernelKnown'
  <2>1. Owned' = Owned
    BY <1>1 DEF Owned
  <2> QED BY <2>1, <1>1, <1>3, KernelKept DEF RoutesInv
<1>7. LedgerKnown'
  BY <1>1, <1>4 DEF RoutesInv, LedgerKnown, Owned
<1>8. /\ AddsKnown' /\ SetupKnown' /\ ApplyKnown' /\ UpKnown' /\ FailuresKnown'
      /\ TeardownKnown' /\ GatewayKnown' /\ PinKnown'
  BY <1>1 DEF AddsKnown, SetupKnown, ApplyKnown, UpKnown, FailuresKnown, TeardownKnown, GatewayKnown, PinKnown
<1>9. SeenKnown'
  BY <1>1, <1>2, <1>3 DEF SeenKnown
<1> QED BY <1>5, <1>6, <1>7, <1>8, <1>9 DEF RoutesInv

(* A setup has its plan.                                                   *)
LEMMA PlanSetupKeeps ==
  ASSUME OneRoutePerPrefix, RoutesInv, PlanSetup
  PROVE  RoutesInv'
<1>1. /\ pc = "begin" /\ UNCHANGED <<environment, blind, table, scoped, owned, failing, errors>>
      /\ RoutesTypeOK /\ owned = <<>> /\ failing = {} /\ pass.dels = <<>>
  BY DEF PlanSetup, RoutesInv, LedgerKnown
<1>2. UNCHANGED <<config, network, roams>>
  BY <1>1 DEF environment
<1>3. Owned = {} /\ Owned' = {}
  BY <1>1, NoRoutes DEF Owned
<1>4. KernelKnown'
  BY <1>1, <1>2, <1>3, KernelKept DEF RoutesInv
<1>5. LedgerKnown'
  <2>1. pc' \notin {"down", "begin"}
    BY DEF PlanSetup
  <2> QED BY <2>1, <1>1, <1>3 DEF RoutesInv, LedgerKnown
<1>6. CASE pc' = "setup"
  <2> DEFINE fp == [subnets |-> seen.subnets, gateway |-> IF NeedsPin THEN network.gateway ELSE NoRoute]
  <2>1. /\ NeedsPin => network.gateway # NoRoute
        /\ seen' = [seen EXCEPT !.fp = fp]
        /\ pass' = [NoPass EXCEPT !.adds = DesiredRoutes(fp)]
        /\ lapses' = lapses
    BY <1>6 DEF PlanSetup
  <2>2. fp \in Fingerprint /\ fp.subnets = seen.subnets /\ (NeedsPin => fp.gateway # NoRoute)
    BY <1>1, <2>1 DEF RoutesTypeOK, Fingerprint
  <2> HIDE DEF fp
  <2>3. /\ seen' \in [fp : Fingerprint, subnets : SUBSET Networks] /\ seen'.fp = fp /\ seen'.subnets = seen.subnets
    BY <1>1, <2>1, <2>2 DEF RoutesTypeOK
  <2>4. Wanted' = Desired(fp) /\ WantedPin' = Pin(fp.gateway) /\ NeedsPin' = NeedsPin
    BY <1>2, <2>3, SameWanted, SameConfig
  <2>5. /\ DesiredRoutes(fp) \in Seq(Route) /\ ToSet(DesiredRoutes(fp)) = Desired(fp)
        /\ KeysDiffer(DesiredRoutes(fp))
        /\ NeedsPin => DesiredRoutes(fp) # <<>> /\ Head(DesiredRoutes(fp)) = Pin(fp.gateway)
    BY <1>1, <2>2, DesiredFacts DEF RoutesTypeOK
  <2>6. pass' = [dels |-> <<>>, adds |-> DesiredRoutes(fp), retry |-> FALSE, previous |-> {}]
    BY <2>1 DEF NoPass
  <2>a. pass' \in Passes
    <3>1. PICK desired \in Seq(Route) : desired = DesiredRoutes(fp)
      BY <2>5
    <3>2. <<>> \in Seq(Route)
      OBVIOUS
    <3> QED BY <3>1, <3>2, <2>6 DEF Passes
  <2>7. RoutesTypeOK'
    BY <1>1, <1>2, <1>6, <2>1, <2>3, <2>a DEF RoutesTypeOK
  <2>8. FailedAdds' = {} /\ failing' = {}
    BY <1>1 DEF FailedAdds
  <2>9. AddsKnown' /\ SetupKnown'
    BY <1>1, <1>3, <2>4, <2>5, <2>6, <2>8 DEF AddsKnown, SetupKnown
  <2>10. /\ ApplyKnown' /\ UpKnown' /\ FailuresKnown' /\ TeardownKnown' /\ PinKnown'
    BY <1>6 DEF ApplyKnown, UpKnown, FailuresKnown, TeardownKnown, PinKnown
  <2>11. GatewayKnown'
    BY <2>2, <2>3, <2>4 DEF GatewayKnown
  <2>12. SeenKnown'
    BY <1>1, <1>2, <1>6, <2>2, <2>3 DEF RoutesInv, SeenKnown
  <2> QED BY <1>4, <1>5, <2>7, <2>9, <2>10, <2>11, <2>12 DEF RoutesInv
<1>7. CASE pc' = "rollback"
  <2>1. UNCHANGED <<seen, pass>> /\ lapses' \in 0..MaxLapses
    BY <1>1, <1>7, RoutesAssumption DEF PlanSetup, CommandFails, RoutesTypeOK
  <2>2. RoutesTypeOK'
    BY <1>1, <1>2, <1>7, <2>1 DEF RoutesTypeOK
  <2>3. /\ AddsKnown' /\ SetupKnown' /\ ApplyKnown' /\ UpKnown' /\ FailuresKnown' /\ PinKnown' /\ GatewayKnown'
    BY <1>7 DEF AddsKnown, SetupKnown, ApplyKnown, UpKnown, FailuresKnown, PinKnown, GatewayKnown
  <2>4. TeardownKnown'
    BY <1>1, <1>3, <2>1, NoRoutes DEF TeardownKnown
  <2>5. SeenKnown'
    BY <1>1, <1>7 DEF SeenKnown
  <2> QED BY <1>4, <1>5, <2>2, <2>3, <2>4, <2>5 DEF RoutesInv
<1> QED BY <1>6, <1>7 DEF PlanSetup
-----------------------------------------------------------------------------
LEMMA PassFacts ==
  ASSUME RoutesTypeOK
  PROVE  /\ pass \in Passes /\ NoPass \in Passes
         /\ pass.dels # <<>> => LET shorter == [pass EXCEPT !.dels = Tail(@)]
                                IN  /\ shorter \in Passes /\ shorter.dels = Tail(pass.dels)
                                    /\ shorter.adds = pass.adds /\ shorter.retry = pass.retry
                                    /\ shorter.previous = pass.previous
         /\ pass.adds # <<>> => LET shorter == [pass EXCEPT !.adds = Tail(@)]
                                IN  /\ shorter \in Passes /\ shorter.adds = Tail(pass.adds)
                                    /\ shorter.dels = pass.dels /\ shorter.retry = pass.retry
                                    /\ shorter.previous = pass.previous
<1>1. pass \in Passes
  BY DEF RoutesTypeOK, Passes
<1>2. <<>> \in Seq(Route)
  OBVIOUS
<1>3. NoPass \in Passes
  BY <1>2 DEF NoPass, Passes
<1>4. pass.dels \in Seq(Route) /\ pass.adds \in Seq(Route)
  BY <1>1 DEF Passes
<1>5. pass.dels # <<>> => Tail(pass.dels) \in Seq(Route)
  BY <1>4
<1>6. pass.adds # <<>> => Tail(pass.adds) \in Seq(Route)
  BY <1>4
<1> QED BY <1>1, <1>3, <1>5, <1>6 DEF Passes

(* The route whose turn it is to be added.                                 *)
LEMMA NextAdd ==
  ASSUME OneRoutePerPrefix, RoutesInv, pc \in {"setup", "apply"}, pass.adds # <<>>,
         NEW route, route = Head(pass.adds)
  PROVE  /\ route \in Route /\ route \in Wanted /\ route \in OurRoutes /\ route \notin Owned \cup FailedAdds
         /\ Tail(pass.adds) \in Seq(Route) /\ KeysDiffer(Tail(pass.adds))
         /\ ToSet(pass.adds) = {route} \cup ToSet(Tail(pass.adds)) /\ route \notin ToSet(Tail(pass.adds))
         /\ pc = "setup" => \A r \in Owned : Key(r) # Key(route)
         /\ pc = "apply" /\ pass.dels = <<>> /\ ~DeleteFailed(failing, route) =>
              \A r \in Owned : Key(r) # Key(route)
         /\ Key(route) \in network.subnets /\ lapses' # lapses /\ BlindLapse => blind'
<1>1. /\ RoutesTypeOK /\ AddsKnown /\ SetupKnown /\ ApplyKnown
  BY DEF RoutesInv
<1>2. pass.adds \in Seq(Route)
  BY <1>1 DEF RoutesTypeOK, Passes
<1>3. /\ route \in Route /\ Tail(pass.adds) \in Seq(Route)
      /\ ToSet(pass.adds) = {route} \cup ToSet(Tail(pass.adds))
      /\ KeysDiffer(pass.adds) => /\ KeysDiffer(Tail(pass.adds))
                                  /\ \A r \in ToSet(Tail(pass.adds)) : Key(r) # Key(route)
  BY <1>2, HeadTail
<1>4. /\ KeysDiffer(pass.adds) /\ ToSet(pass.adds) \subseteq Wanted
      /\ ToSet(pass.adds) \cap (Owned \cup FailedAdds) = {}
  BY <1>1 DEF AddsKnown
<1>5. /\ \A r, q \in Wanted : Key(r) = Key(q) => r = q
      /\ Wanted \subseteq OurRoutes
      /\ \A r \in Wanted : Key(r) \in seen.fp.subnets => r.via # "tunnel"
  BY <1>1, SeenFacts
<1>6. route \in Wanted /\ route \notin Owned \cup FailedAdds /\ route \in OurRoutes
  BY <1>3, <1>4, <1>5
<1>7. pc = "setup" => \A r \in Owned : Key(r) # Key(route)
  BY <1>1, <1>5, <1>6 DEF SetupKnown
<1>8. ASSUME pc = "apply", pass.dels = <<>>, ~DeleteFailed(failing, route), NEW r \in Owned
      PROVE  Key(r) # Key(route)
  <2>1. r \in Wanted \/ r \in FailedDeletes
    BY <1>1, <1>8, NoRoutes DEF ApplyKnown
  <2>2. CASE r \in Wanted
    BY <2>2, <1>5, <1>6
  <2>3. CASE r \in FailedDeletes
    BY <2>3, <1>1, <1>8, FailureFacts
  <2> QED BY <2>1, <2>2, <2>3
<1>9. ASSUME Key(route) \in network.subnets, lapses' # lapses, BlindLapse PROVE blind'
  <2>1. route.via = "tunnel"
    <3>1. Key(route) \in UNION Subnets
      BY <1>1, <1>9, NetworkFacts
    <3> QED BY <3>1, <1>1, <1>6, OurRouteFacts DEF RoutesTypeOK
  <2>2. Key(route) \notin seen.fp.subnets
    BY <2>1, <1>5, <1>6
  <2> QED BY <2>2, <1>9 DEF BlindLapse
<1> QED BY <1>3, <1>4, <1>6, <1>7, <1>8, <1>9

(* A teardown is planned: all that is owned, the last first.               *)
LEMMA Reversal ==
  ASSUME RoutesTypeOK, LedgerKnown, pass' = [NoPass EXCEPT !.dels = Reverse(owned)]
  PROVE  pass' \in Passes /\ ToSet(pass'.dels) = Owned /\ KeysDiffer(pass'.dels)
<1>1. PICK back : back = Reverse(owned)
  OBVIOUS
<1>2. back \in Seq(Route) /\ ToSet(back) = Owned /\ KeysDiffer(back)
  BY <1>1, Reversed DEF RoutesTypeOK, LedgerKnown, Owned
<1>3. pass' = [dels |-> back, adds |-> <<>>, retry |-> FALSE, previous |-> {}]
  BY <1>1 DEF NoPass
<1>4. <<>> \in Seq(Route)
  OBVIOUS
<1>5. pass' \in Passes
  <2>1. [dels |-> back, adds |-> <<>>, retry |-> FALSE, previous |-> {}] \in Passes
    BY <1>2, <1>4 DEF Passes
  <2> QED BY <1>3, <2>1
<1>6. pass'.dels = back
  BY <1>3
<1> QED BY <1>2, <1>5, <1>6

LEMMA Lapsed ==
  ASSUME RoutesTypeOK, CommandFails
  PROVE  lapses' \in 0..MaxLapses /\ lapses' # lapses
BY RoutesAssumption DEF RoutesTypeOK, CommandFails

LEMMA SetupRouteKeeps ==
  ASSUME OneRoutePerPrefix, RoutesInv, SetupRoute
  PROVE  RoutesInv'
<1> DEFINE route == Head(pass.adds)
           p == Prepare(Kernel, route)
<1>1. /\ pc = "setup" /\ pass.adds # <<>> /\ UNCHANGED <<environment, seen, failing, errors>>
      /\ BlindLapse /\ RoutesTypeOK
  BY DEF SetupRoute, RoutesInv
<1>2. UNCHANGED <<config, network, roams>> /\ (blind => blind') /\ blind' \in BOOLEAN
  BY <1>1 DEF environment, BlindLapse, RoutesTypeOK
<1>3. UNCHANGED <<EndpointKey, NeedsPin, OurRoutes, Wanted, WantedPin, FailedDeletes, FailedAdds>>
  BY <1>1, <1>2, Frame, SameFailures
<1>4. /\ route \in Route /\ route \in Wanted /\ route \in OurRoutes /\ route \notin Owned \cup FailedAdds
      /\ Tail(pass.adds) \in Seq(Route) /\ KeysDiffer(Tail(pass.adds))
      /\ ToSet(pass.adds) = {route} \cup ToSet(Tail(pass.adds)) /\ route \notin ToSet(Tail(pass.adds))
      /\ \A r \in Owned : Key(r) # Key(route)
      /\ Key(route) \in network.subnets /\ lapses' # lapses => blind'
  BY <1>1, NextAdd
<1>5. Owned \subseteq OurRoutes /\ KernelKnown /\ LedgerKnown /\ AddsKnown /\ SetupKnown
  BY DEF RoutesInv, LedgerKnown
<1>6. Key(route) \in Keys /\ (p.foreign => route.via = "tunnel")
  BY <1>1, <1>4, OurRouteFacts, Prepared DEF RoutesTypeOK
<1>7. \/ /\ p.foreign /\ KernelIs(p.kernel)
         /\ pass' = [pass EXCEPT !.adds = Tail(@)]
         /\ UNCHANGED <<owned, pc, lapses>>
      \/ /\ ~p.foreign /\ KernelIs(Added(p.kernel, route))
         /\ owned' = Append(owned, route)
         /\ pass' = [pass EXCEPT !.adds = Tail(@)]
         /\ UNCHANGED <<pc, lapses>>
      \/ /\ ~p.foreign /\ CommandFails /\ KernelIs(p.kernel)
         /\ pass' = [NoPass EXCEPT !.dels = Reverse(owned)]
         /\ pc' = "rollback"
         /\ UNCHANGED owned
  BY DEF SetupRoute
<1> HIDE DEF route
<1>8. PICK q : q = p
  OBVIOUS
<1> HIDE DEF p
<1>9. WantedPin.via # "tunnel" \/ ~NeedsPin
  BY <1>1, SeenFacts DEF RoutesInv, GatewayKnown
<1>10. CASE pc' = "setup"
  <2>1. /\ pass' \in Passes /\ pass'.adds = Tail(pass.adds) /\ lapses' = lapses
    <3>1. pass' = [pass EXCEPT !.adds = Tail(@)] /\ lapses' = lapses
      BY <1>7, <1>10
    <3> QED BY <3>1, <1>1, PassFacts
  <2>2. /\ ApplyKnown' /\ UpKnown' /\ FailuresKnown' /\ TeardownKnown' /\ PinKnown'
    BY <1>10 DEF ApplyKnown, UpKnown, FailuresKnown, TeardownKnown, PinKnown
  <2>3. GatewayKnown' /\ SeenKnown'
    BY <1>1, <1>2, <1>3, <1>10 DEF RoutesInv, GatewayKnown, SeenKnown
  <2>4. CASE p.foreign
    <3>1. KernelIs(p.kernel) /\ owned' = owned /\ Owned' = Owned
      BY <2>4, <1>7, <1>10 DEF Owned
    <3>2. table' \in [Keys -> Holders] /\ scoped' \subseteq Keys /\ KernelKnown'
      BY <3>1, <2>4, <1>1, <1>2, <1>4, <1>5, KernelPrepared DEF p
    <3>3. RoutesTypeOK'
      BY <3>1, <3>2, <2>1, <1>1, <1>2, <1>10 DEF RoutesTypeOK, Passes
    <3>4. LedgerKnown'
      BY <3>1, <1>3, <1>5, <1>10 DEF LedgerKnown
    <3>5. AddsKnown'
      BY <3>1, <2>1, <1>1, <1>3, <1>4, <1>5 DEF AddsKnown
    <3>6. SetupKnown'
      <4>1. NeedsPin => WantedPin \in Owned
        BY <2>4, <1>1, <1>5, <1>6, <1>9 DEF SetupKnown, route
      <4> QED BY <4>1, <3>1, <1>1, <1>3, <1>5 DEF SetupKnown
    <3> QED BY <2>2, <2>3, <3>2, <3>3, <3>4, <3>5, <3>6 DEF RoutesInv
  <2>5. CASE ~p.foreign
    <3>1. KernelIs(Added(p.kernel, route)) /\ owned' = Append(owned, route)
      BY <2>5, <1>7, <1>10
    <3>2. owned' \in Seq(Route) /\ Owned' = Owned \cup {route} /\ KeysDiffer(owned')
      <4>1. owned \in Seq(Route) /\ KeysDiffer(owned) /\ \A r \in ToSet(owned) : Key(r) # Key(route)
        BY <1>1, <1>4, <1>5 DEF LedgerKnown, RoutesTypeOK, Owned
      <4> QED BY <4>1, <3>1, <1>4, Appended DEF Owned
    <3>3. table' \in [Keys -> Holders] /\ scoped' \subseteq Keys /\ KernelKnown'
      BY <3>1, <3>2, <2>5, <1>1, <1>2, <1>4, <1>5, KernelAdded DEF p
    <3>4. RoutesTypeOK'
      BY <3>2, <3>3, <2>1, <1>1, <1>2, <1>10 DEF RoutesTypeOK, Passes
    <3>5. LedgerKnown'
      BY <3>2, <1>3, <1>4, <1>5, <1>10 DEF LedgerKnown
    <3>6. AddsKnown'
      BY <3>2, <2>1, <1>1, <1>3, <1>4, <1>5 DEF AddsKnown
    <3>7. SetupKnown'
      BY <3>2, <1>1, <1>3, <1>4, <1>5 DEF SetupKnown, route
    <3> QED BY <2>2, <2>3, <3>3, <3>4, <3>5, <3>6, <3>7 DEF RoutesInv
  <2> QED BY <2>4, <2>5
<1>11. CASE pc' = "rollback"
  <2>1. /\ ~p.foreign /\ CommandFails /\ KernelIs(p.kernel)
        /\ pass' = [NoPass EXCEPT !.dels = Reverse(owned)] /\ UNCHANGED owned
    BY <1>1, <1>7, <1>11
  <2>2. Owned' = Owned /\ lapses' \in 0..MaxLapses /\ lapses' # lapses
    BY <2>1, <1>1, Lapsed DEF Owned
  <2>3. pass' \in Passes /\ ToSet(pass'.dels) = Owned /\ KeysDiffer(pass'.dels)
    BY <2>1, <1>1, <1>5, Reversal
  <2>4. table' \in [Keys -> Holders] /\ scoped' \subseteq Keys /\ KernelKnown'
    BY <2>1, <2>2, <1>1, <1>2, <1>4, <1>5, KernelPrepared DEF p
  <2>5. RoutesTypeOK'
    BY <2>1, <2>2, <2>3, <2>4, <1>1, <1>2, <1>11 DEF RoutesTypeOK, Passes
  <2>6. LedgerKnown'
    BY <2>1, <2>2, <1>3, <1>5, <1>11 DEF LedgerKnown
  <2>7. /\ AddsKnown' /\ SetupKnown' /\ ApplyKnown' /\ UpKnown' /\ FailuresKnown' /\ PinKnown' /\ GatewayKnown'
    BY <1>11 DEF AddsKnown, SetupKnown, ApplyKnown, UpKnown, FailuresKnown, PinKnown, GatewayKnown
  <2>8. TeardownKnown'
    BY <2>2, <2>3 DEF TeardownKnown
  <2>9. SeenKnown'
    BY <2>2, <1>1, <1>2, <1>11 DEF SeenKnown, BlindLapse
  <2> QED BY <2>4, <2>5, <2>6, <2>7, <2>8, <2>9 DEF RoutesInv
<1> QED BY <1>1, <1>7, <1>10, <1>11
-----------------------------------------------------------------------------
LEMMA SetupDoneKeeps ==
  ASSUME OneRoutePerPrefix, RoutesInv, SetupDone
  PROVE  RoutesInv'
<1>1. /\ pc = "setup" /\ pass.adds = <<>> /\ UNCHANGED <<environment, table, scoped, owned, seen, failing, errors>>
      /\ BlindLapse /\ RoutesTypeOK
  BY DEF SetupDone, RoutesInv
<1>2. UNCHANGED <<config, network, roams>> /\ (blind => blind') /\ blind' \in BOOLEAN
  BY <1>1 DEF environment, BlindLapse, RoutesTypeOK
<1>3. UNCHANGED <<EndpointKey, NeedsPin, OurRoutes, Wanted, WantedPin, FailedDeletes, FailedAdds>>
  BY <1>1, <1>2, Frame, SameFailures
<1>4. Owned' = Owned
  BY <1>1 DEF Owned
<1>5. KernelKnown'
  BY <1>1, <1>2, <1>4, KernelKept DEF RoutesInv
<1>6. LedgerKnown /\ LedgerKnown'
  <2>1. pc' \notin {"down", "begin"}
    BY DEF SetupDone
  <2> QED BY <2>1, <1>1, <1>3, <1>4 DEF RoutesInv, LedgerKnown
<1>7. /\ AddsKnown' /\ SetupKnown' /\ ApplyKnown'
  BY DEF SetupDone, AddsKnown, SetupKnown, ApplyKnown
<1>8. CASE pc' = "up"
  <2>1. UNCHANGED <<pass, lapses>>
    BY <1>8 DEF SetupDone
  <2>2. RoutesTypeOK'
    BY <1>1, <1>2, <1>8, <2>1 DEF RoutesTypeOK
  <2>3. /\ Owned \subseteq Wanted /\ failing = {} /\ FailedDeletes = {} /\ FailedAdds = {}
        /\ (NeedsPin => WantedPin \in Owned)
    BY <1>1, NoFailures DEF RoutesInv, SetupKnown
  <2>4. UpKnown' /\ FailuresKnown' /\ TeardownKnown'
    BY <1>3, <1>4, <1>8, <2>3 DEF UpKnown, FailuresKnown, TeardownKnown
  <2>5. GatewayKnown' /\ GatewayKnown /\ SeenKnown'
    BY <1>1, <1>3, <1>8 DEF RoutesInv, GatewayKnown, SeenKnown
  <2>6. PinKnown'
    <3>1. NeedsPin => Key(WantedPin) = EndpointKey
      BY <1>1, <2>5, SeenFacts DEF GatewayKnown
    <3> QED BY <3>1, <1>3, <1>4, <1>8, <2>3 DEF PinKnown, PinOwned
  <2> QED BY <1>5, <1>6, <1>7, <2>2, <2>4, <2>5, <2>6 DEF RoutesInv
<1>9. CASE pc' = "rollback"
  <2>1. CommandFails /\ pass' = [NoPass EXCEPT !.dels = Reverse(owned)]
    BY <1>9 DEF SetupDone
  <2>2. lapses' \in 0..MaxLapses /\ lapses' # lapses
    BY <2>1, <1>1, Lapsed
  <2>3. pass' \in Passes /\ ToSet(pass'.dels) = Owned /\ KeysDiffer(pass'.dels)
    BY <2>1, <1>1, <1>6, Reversal
  <2>4. RoutesTypeOK'
    BY <1>1, <1>2, <1>9, <2>2, <2>3 DEF RoutesTypeOK, Passes
  <2>5. UpKnown' /\ FailuresKnown' /\ PinKnown' /\ GatewayKnown'
    BY <1>9 DEF UpKnown, FailuresKnown, PinKnown, GatewayKnown
  <2>6. TeardownKnown'
    BY <1>4, <2>3 DEF TeardownKnown
  <2>7. SeenKnown'
    BY <2>2, <1>1, <1>2, <1>9 DEF SeenKnown, BlindLapse
  <2> QED BY <1>5, <1>6, <1>7, <2>4, <2>5, <2>6, <2>7 DEF RoutesInv
<1> QED BY <1>8, <1>9 DEF SetupDone

LEMMA StopKeeps ==
  ASSUME OneRoutePerPrefix, RoutesInv, Stop
  PROVE  RoutesInv'
<1>1. /\ pc = "up" /\ pc' = "cleanup" /\ ReadSubnets /\ pass' = [NoPass EXCEPT !.dels = Reverse(owned)]
      /\ blind' = (blind \/ lapses' # lapses) /\ UNCHANGED <<environment, table, scoped, owned, failing, errors>>
      /\ RoutesTypeOK /\ LedgerKnown
  BY DEF Stop, RoutesInv
<1>2. UNCHANGED <<config, network, roams>> /\ (blind => blind') /\ blind' \in BOOLEAN
  BY <1>1 DEF environment, RoutesTypeOK
<1>3. /\ seen' \in [fp : Fingerprint, subnets : SUBSET Networks] /\ seen'.fp = seen.fp
      /\ lapses' \in 0..MaxLapses /\ (lapses' = lapses => seen'.subnets = network.subnets)
  BY <1>1, ReadFacts
<1>4. UNCHANGED <<EndpointKey, NeedsPin, OurRoutes, Wanted, WantedPin>>
  BY <1>2, <1>3, Frame
<1>5. Owned' = Owned
  BY <1>1 DEF Owned
<1>6. KernelKnown'
  BY <1>1, <1>2, <1>5, KernelKept DEF RoutesInv
<1>7. pass' \in Passes /\ ToSet(pass'.dels) = Owned /\ KeysDiffer(pass'.dels)
  BY <1>1, Reversal
<1>8. RoutesTypeOK'
  BY <1>1, <1>2, <1>3, <1>7 DEF RoutesTypeOK, Passes
<1>9. LedgerKnown'
  BY <1>1, <1>4, <1>5 DEF LedgerKnown
<1>10. /\ AddsKnown' /\ SetupKnown' /\ ApplyKnown' /\ UpKnown' /\ FailuresKnown' /\ PinKnown' /\ GatewayKnown'
  BY <1>1 DEF AddsKnown, SetupKnown, ApplyKnown, UpKnown, FailuresKnown, PinKnown, GatewayKnown
<1>11. TeardownKnown' /\ SeenKnown'
  BY <1>1, <1>2, <1>3, <1>5, <1>7 DEF TeardownKnown, SeenKnown
<1> QED BY <1>6, <1>8, <1>9, <1>10, <1>11 DEF RoutesInv

(* The route whose turn it is to be deleted.                               *)
LEMMA NextDelete ==
  ASSUME RoutesTypeOK, LedgerKnown, pass.dels # <<>>, ToSet(pass.dels) \subseteq Owned, KeysDiffer(pass.dels),
         NEW route, route = Head(pass.dels)
  PROVE  /\ route \in Route /\ route \in Owned /\ route \in OurRoutes
         /\ \A r \in Owned : r # route => Key(r) # Key(route)
         /\ Tail(pass.dels) \in Seq(Route) /\ KeysDiffer(Tail(pass.dels))
         /\ ToSet(pass.dels) = {route} \cup ToSet(Tail(pass.dels)) /\ route \notin ToSet(Tail(pass.dels))
<1>1. pass.dels \in Seq(Route)
  BY DEF RoutesTypeOK, Passes
<1>2. /\ route \in Route /\ Tail(pass.dels) \in Seq(Route)
      /\ ToSet(pass.dels) = {route} \cup ToSet(Tail(pass.dels))
      /\ KeysDiffer(Tail(pass.dels))
      /\ \A r \in ToSet(Tail(pass.dels)) : Key(r) # Key(route)
  BY <1>1, HeadTail
<1>3. KeysDiffer(owned) /\ Owned \subseteq OurRoutes
  BY DEF LedgerKnown
<1>4. \A r \in Owned : r # route => Key(r) # Key(route)
  BY <1>2, <1>3, Differ DEF Owned
<1> QED BY <1>2, <1>3, <1>4

(* What is owned when a route is deleted.                                  *)
LEMMA Disowned ==
  ASSUME RoutesTypeOK, LedgerKnown, NEW route, owned' = Filter(owned, ToSet(owned) \ {route})
  PROVE  owned' \in Seq(Route) /\ Owned' = Owned \ {route} /\ KeysDiffer(owned')
<1>1. owned \in Seq(Route) /\ KeysDiffer(owned)
  BY DEF RoutesTypeOK, LedgerKnown
<1>2. /\ owned' \in Seq(Route) /\ KeysDiffer(owned')
      /\ ToSet(owned') = ToSet(owned) \cap (ToSet(owned) \ {route})
  BY <1>1, Filtered
<1> QED BY <1>2 DEF Owned

LEMMA TearDownRouteKeeps ==
  ASSUME OneRoutePerPrefix, RoutesInv, TearDownRoute
  PROVE  RoutesInv'
<1> DEFINE route == Head(pass.dels)
           subnets == IF pc = "rollback" THEN seen.fp.subnets ELSE seen.subnets
<1>1. /\ pc \in {"rollback", "cleanup"} /\ pass.dels # <<>> /\ pass' = [pass EXCEPT !.dels = Tail(@)]
      /\ UNCHANGED <<environment, blind, pc, seen, failing>> /\ RoutesTypeOK /\ LedgerKnown
  BY DEF TearDownRoute, RoutesInv
<1>2. UNCHANGED <<config, network, roams>>
  BY <1>1 DEF environment
<1>3. UNCHANGED <<EndpointKey, NeedsPin, OurRoutes, Wanted, WantedPin>>
  BY <1>1, <1>2, Frame
<1>4. pass' \in Passes /\ pass'.dels = Tail(pass.dels)
  BY <1>1, PassFacts
<1>5. ToSet(pass.dels) \subseteq Owned /\ KeysDiffer(pass.dels) /\ (Owned \subseteq ToSet(pass.dels) \/ errors)
  BY <1>1 DEF RoutesInv, TeardownKnown
<1>6. /\ route \in Route /\ route \in Owned /\ route \in OurRoutes
      /\ \A r \in Owned : r # route => Key(r) # Key(route)
      /\ Tail(pass.dels) \in Seq(Route) /\ KeysDiffer(Tail(pass.dels))
      /\ ToSet(pass.dels) = {route} \cup ToSet(Tail(pass.dels)) /\ route \notin ToSet(Tail(pass.dels))
  BY <1>1, <1>5, NextDelete
<1>7. /\ AddsKnown' /\ SetupKnown' /\ ApplyKnown' /\ UpKnown' /\ FailuresKnown' /\ PinKnown' /\ GatewayKnown'
  BY <1>1 DEF AddsKnown, SetupKnown, ApplyKnown, UpKnown, FailuresKnown, PinKnown, GatewayKnown
<1>8. ~blind => subnets = network.subnets
  <2>1. owned # <<>>
    BY <1>6, NoRoutes DEF Owned
  <2> QED BY <2>1, <1>1 DEF RoutesInv, SeenKnown
<1>9. \/ /\ KernelIs(Deleted(Kernel, route, subnets))
         /\ owned' = Filter(owned, ToSet(owned) \ {route})
         /\ UNCHANGED <<errors, lapses>>
      \/ /\ CommandFails /\ errors' = TRUE /\ UNCHANGED <<table, scoped, owned>>
  BY DEF TearDownRoute
<1> HIDE DEF route, subnets
<1>10. CASE /\ KernelIs(Deleted(Kernel, route, subnets))
            /\ owned' = Filter(owned, ToSet(owned) \ {route})
            /\ UNCHANGED <<errors, lapses>>
  <2>1. owned' \in Seq(Route) /\ Owned' = Owned \ {route} /\ KeysDiffer(owned')
    BY <1>1, <1>10, Disowned
  <2>2. PICK d : d = Deleted(Kernel, route, subnets)
    OBVIOUS
  <2>3. table' \in [Keys -> Holders] /\ scoped' \subseteq Keys /\ KernelKnown'
    <3>1. /\ KernelIs(d) /\ KernelKnown /\ Owned \subseteq OurRoutes /\ UNCHANGED <<config, network, errors>>
          /\ (blind => blind')
          /\ (~blind' /\ route.via = "tunnel" /\ Key(route) \in network.subnets => Key(route) \in subnets)
      BY <1>1, <1>2, <1>8, <1>10, <2>2 DEF RoutesInv, LedgerKnown
    <3> QED BY <3>1, <2>1, <2>2, <1>1, <1>6, KernelDeleted
  <2>4. RoutesTypeOK'
    BY <1>1, <1>2, <1>4, <1>10, <2>1, <2>3 DEF RoutesTypeOK, Passes
  <2>5. LedgerKnown'
    BY <1>1, <1>3, <2>1 DEF LedgerKnown
  <2>6. TeardownKnown'
    BY <1>4, <1>5, <1>6, <1>10, <2>1 DEF TeardownKnown
  <2>7. SeenKnown'
    <3>1. owned = <<>> => Owned' = {}
      BY <2>1, NoRoutes DEF Owned
    <3>2. owned = <<>> => owned' = <<>>
      BY <3>1, <2>1, SeqIs DEF Owned
    <3> QED BY <3>2, <1>1, <1>2 DEF RoutesInv, SeenKnown
  <2> QED BY <1>7, <2>3, <2>4, <2>5, <2>6, <2>7 DEF RoutesInv
<1>11. CASE /\ CommandFails /\ errors' = TRUE /\ UNCHANGED <<table, scoped, owned>>
  <2>1. Owned' = Owned /\ lapses' \in 0..MaxLapses
    BY <1>1, <1>11, Lapsed DEF Owned
  <2>2. KernelKnown'
    BY <1>1, <1>2, <1>11, <2>1, KernelKept DEF RoutesInv
  <2>3. RoutesTypeOK'
    BY <1>1, <1>2, <1>4, <1>11, <2>1 DEF RoutesTypeOK, Passes
  <2>4. LedgerKnown'
    BY <1>1, <1>3, <1>11, <2>1 DEF LedgerKnown
  <2>5. TeardownKnown'
    BY <1>4, <1>5, <1>6, <1>11, <2>1 DEF TeardownKnown
  <2>6. SeenKnown'
    BY <1>1, <1>2, <1>11 DEF RoutesInv, SeenKnown
  <2> QED BY <1>7, <2>2, <2>3, <2>4, <2>5, <2>6 DEF RoutesInv
<1> QED BY <1>9, <1>10, <1>11
-----------------------------------------------------------------------------
LEMMA TornDownKeeps ==
  ASSUME OneRoutePerPrefix, RoutesInv, TornDown
  PROVE  RoutesInv'
<1>1. /\ pc \in {"rollback", "cleanup"} /\ pass.dels = <<>> /\ pc' = "down" /\ owned' = <<>> /\ failing' = {}
      /\ table' = [k \in Keys |-> IF table[k] = "tunnel" THEN NoRoute ELSE table[k]]
      /\ seen' = [fp |-> [subnets |-> {}, gateway |-> NoRoute], subnets |-> {}]
      /\ UNCHANGED <<environment, blind, scoped, pass, errors, lapses>> /\ RoutesTypeOK
  BY DEF TornDown, RoutesInv
<1>2. UNCHANGED <<config, network, roams>>
  BY <1>1 DEF environment
<1>3. Owned' = {} /\ (Owned = {} \/ errors) /\ KeysDiffer(owned')
  BY <1>1, NoRoutes DEF Owned, RoutesInv, TeardownKnown
<1>4. table' \in [Keys -> Holders] /\ KernelKnown'
  BY <1>1, <1>2, <1>3, KernelTornDown DEF RoutesInv
<1>5. RoutesTypeOK'
  <2>1. seen' \in [fp : Fingerprint, subnets : SUBSET Networks]
    BY <1>1 DEF Fingerprint
  <2>2. owned' \in Seq(Route)
    BY <1>1
  <2> QED BY <1>1, <1>2, <1>4, <2>1, <2>2 DEF RoutesTypeOK
<1>6. LedgerKnown'
  BY <1>1, <1>3 DEF LedgerKnown
<1>7. /\ AddsKnown' /\ SetupKnown' /\ ApplyKnown' /\ UpKnown' /\ FailuresKnown'
      /\ TeardownKnown' /\ GatewayKnown' /\ PinKnown' /\ SeenKnown'
  BY <1>1 DEF AddsKnown, SetupKnown, ApplyKnown, UpKnown, FailuresKnown, TeardownKnown, GatewayKnown, PinKnown, SeenKnown
<1> QED BY <1>4, <1>5, <1>6, <1>7 DEF RoutesInv

LEMMA TickKeeps ==
  ASSUME OneRoutePerPrefix, RoutesInv, Tick
  PROVE  RoutesInv'
<1>1. /\ pc = "up" /\ pc' = "gateway" /\ ReadSubnets
      /\ UNCHANGED <<environment, blind, table, scoped, owned, failing, pass, errors>> /\ RoutesTypeOK
  BY DEF Tick, RoutesInv
<1>2. UNCHANGED <<config, network, roams>>
  BY <1>1 DEF environment
<1>3. /\ seen' \in [fp : Fingerprint, subnets : SUBSET Networks] /\ seen'.fp = seen.fp
      /\ seen'.subnets \in {network.subnets, {}} /\ lapses' \in 0..MaxLapses
  BY <1>1, ReadFacts
<1>4. UNCHANGED <<EndpointKey, NeedsPin, OurRoutes, Wanted, WantedPin, FailedDeletes, FailedAdds>>
  BY <1>1, <1>2, <1>3, Frame, SameFailures
<1>5. Owned' = Owned
  BY <1>1 DEF Owned
<1>6. KernelKnown'
  BY <1>1, <1>2, <1>5, KernelKept DEF RoutesInv
<1>7. RoutesTypeOK'
  BY <1>1, <1>2, <1>3 DEF RoutesTypeOK
<1>8. LedgerKnown'
  BY <1>1, <1>4, <1>5 DEF RoutesInv, LedgerKnown
<1>9. /\ AddsKnown' /\ SetupKnown' /\ ApplyKnown' /\ TeardownKnown'
  BY <1>1 DEF AddsKnown, SetupKnown, ApplyKnown, TeardownKnown
<1>10. UpKnown' /\ FailuresKnown'
  BY <1>1, <1>4, <1>5 DEF RoutesInv, UpKnown, FailuresKnown
<1>11. GatewayKnown' /\ SeenKnown'
  BY <1>1, <1>2, <1>3, <1>4 DEF RoutesInv, GatewayKnown, SeenKnown
<1>12. PinKnown'
  BY <1>1, <1>4, <1>5 DEF RoutesInv, PinKnown, PinOwned, PinFailed
<1> QED BY <1>6, <1>7, <1>8, <1>9, <1>10, <1>11, <1>12 DEF RoutesInv

LEMMA PassDoneKeeps ==
  ASSUME OneRoutePerPrefix, RoutesInv, PassDone
  PROVE  RoutesInv'
<1>1. /\ pc = "apply" /\ pass.dels = <<>> /\ pass.adds = <<>> /\ pc' = "up" /\ pass' = NoPass
      /\ UNCHANGED <<environment, blind, table, scoped, owned, seen, failing, errors, lapses>> /\ RoutesTypeOK
  BY DEF PassDone, RoutesInv
<1>2. UNCHANGED <<config, network, roams>>
  BY <1>1 DEF environment
<1>3. UNCHANGED <<EndpointKey, NeedsPin, OurRoutes, Wanted, WantedPin, FailedDeletes, FailedAdds>>
  BY <1>1, <1>2, Frame, SameFailures
<1>4. Owned' = Owned
  BY <1>1 DEF Owned
<1>5. KernelKnown'
  BY <1>1, <1>2, <1>4, KernelKept DEF RoutesInv
<1>6. RoutesTypeOK'
  <2>1. pass' \in Passes
    BY <1>1, PassFacts
  <2> QED BY <1>1, <1>2, <2>1 DEF RoutesTypeOK, Passes
<1>7. LedgerKnown'
  BY <1>1, <1>3, <1>4 DEF RoutesInv, LedgerKnown
<1>8. /\ AddsKnown' /\ SetupKnown' /\ ApplyKnown' /\ TeardownKnown'
  BY <1>1 DEF AddsKnown, SetupKnown, ApplyKnown, TeardownKnown
<1>9. UpKnown' /\ FailuresKnown'
  BY <1>1, <1>3, <1>4, NoRoutes DEF RoutesInv, ApplyKnown, UpKnown, FailuresKnown
<1>10. GatewayKnown' /\ GatewayKnown /\ SeenKnown'
  BY <1>1, <1>3 DEF RoutesInv, GatewayKnown, SeenKnown
<1>11. PinKnown'
  <2>1. NeedsPin => Key(WantedPin) = EndpointKey
    BY <1>1, <1>10, SeenFacts DEF GatewayKnown
  <2>2. NeedsPin => WantedPin \in Owned \/ PinFailed
    BY <1>1, NoRoutes DEF RoutesInv, PinKnown
  <2> QED BY <2>1, <2>2, <1>1, <1>3, <1>4 DEF PinKnown, PinOwned, PinFailed
<1> QED BY <1>5, <1>6, <1>7, <1>8, <1>9, <1>10, <1>11 DEF RoutesInv

LEMMA RoamKeeps ==
  ASSUME OneRoutePerPrefix, RoutesInv,
         NEW new \in [subnets : Subnets, gateway : Gateways \cup {NoRoute}], Roam(new)
  PROVE  RoutesInv'
<1>1. /\ roams > 0 /\ roams' = roams - 1 /\ network' = new /\ blind' = (blind \/ pc \notin {"down", "up"})
      /\ UNCHANGED <<config, pc, owned, seen, failing, pass, errors, lapses>> /\ RoutesTypeOK
  BY DEF Roam, RoutesInv
<1>2. UNCHANGED <<EndpointKey, NeedsPin, OurRoutes, Wanted, WantedPin, FailedDeletes, FailedAdds>>
  BY <1>1, Frame, SameFailures
<1>3. Owned' = Owned
  BY <1>1 DEF Owned
<1>4. table' \in [Keys -> Holders] /\ scoped' \subseteq Keys /\ KernelKnown'
  BY <1>1, KernelRoam DEF RoutesInv
<1>5. RoutesTypeOK'
  BY <1>1, <1>4, RoutesAssumption DEF RoutesTypeOK
<1>6. LedgerKnown' /\ AddsKnown' /\ SetupKnown' /\ ApplyKnown' /\ TeardownKnown'
  BY <1>1, <1>2, <1>3 DEF RoutesInv, LedgerKnown, AddsKnown, SetupKnown, ApplyKnown, TeardownKnown
<1>7. UpKnown' /\ FailuresKnown' /\ GatewayKnown'
  BY <1>1, <1>2, <1>3 DEF RoutesInv, UpKnown, FailuresKnown, GatewayKnown
<1>8. PinKnown' /\ SeenKnown'
  BY <1>1, <1>2, <1>3 DEF RoutesInv, PinKnown, PinOwned, PinFailed, PinRetried, SeenKnown
<1> QED BY <1>4, <1>5, <1>6, <1>7, <1>8 DEF RoutesInv

LEMMA StutterKeeps ==
  ASSUME RoutesInv, UNCHANGED routeVars
  PROVE  RoutesInv'
<1>1. UNCHANGED <<config, network, table, scoped, pc, owned, seen, failing, pass, errors, blind, roams, lapses>>
  BY DEF routeVars
<1>2. UNCHANGED <<EndpointKey, NeedsPin, OurRoutes, Wanted, WantedPin, FailedDeletes, FailedAdds>>
  BY <1>1, Frame, SameFailures
<1>3. Owned' = Owned
  BY <1>1 DEF Owned
<1>4. KernelKnown'
  BY <1>1, <1>3, KernelKept DEF RoutesInv
<1>5. RoutesTypeOK'
  BY <1>1 DEF RoutesInv, RoutesTypeOK
<1>6. LedgerKnown' /\ AddsKnown' /\ SetupKnown' /\ ApplyKnown' /\ TeardownKnown'
  BY <1>1, <1>2, <1>3 DEF RoutesInv, LedgerKnown, AddsKnown, SetupKnown, ApplyKnown, TeardownKnown
<1>7. UpKnown' /\ FailuresKnown' /\ GatewayKnown'
  BY <1>1, <1>2, <1>3 DEF RoutesInv, UpKnown, FailuresKnown, GatewayKnown
<1>8. PinKnown' /\ SeenKnown'
  BY <1>1, <1>2, <1>3 DEF RoutesInv, PinKnown, PinOwned, PinFailed, PinRetried, SeenKnown
<1> QED BY <1>4, <1>5, <1>6, <1>7, <1>8 DEF RoutesInv

LEMMA RoutesBegin == ASSUME OneRoutePerPrefix, RoutesInit PROVE RoutesInv
<1>1. PICK left \in SUBSET {Key(RoutesOf[config][1])} :
        table = [k \in Keys |-> IF k \in network.subnets THEN "en0"
                                ELSE IF k \in left THEN "old" ELSE NoRoute]
  BY DEF RoutesInit
<1>2. /\ config \in TunnelConfigs /\ network \in [subnets : Subnets, gateway : Gateways] /\ scoped = {}
      /\ pc = "down" /\ owned = <<>> /\ failing = {} /\ pass = NoPass
      /\ seen = [fp |-> [subnets |-> {}, gateway |-> NoRoute], subnets |-> {}]
      /\ errors = FALSE /\ blind = FALSE /\ roams = MaxRoams /\ lapses = MaxLapses
  BY DEF RoutesInit
<1>3. RoutesTypeOK
  <2>1. table \in [Keys -> Holders]
    BY <1>1 DEF Holders
  <2>2. seen \in [fp : Fingerprint, subnets : SUBSET Networks]
    BY <1>2 DEF Fingerprint
  <2>3. pass \in Passes
    <3>1. <<>> \in Seq(Route)
      OBVIOUS
    <3> QED BY <3>1, <1>2 DEF NoPass, Passes
  <2>4. owned \in Seq(Route)
    BY <1>2
  <2>a. network \in [subnets : Subnets, gateway : Gateways \cup {NoRoute}]
    BY <1>2
  <2>5. scoped \subseteq Keys /\ failing \subseteq Failure /\ errors \in BOOLEAN /\ blind \in BOOLEAN
    BY <1>2, Zenon
  <2>b. roams \in 0..MaxRoams /\ lapses \in 0..MaxLapses
    <3>1. roams = MaxRoams /\ lapses = MaxLapses /\ MaxRoams \in Nat /\ MaxLapses \in Nat
      BY <1>2, RoutesAssumption, Zenon
    <3> QED BY <3>1
  <2>6. pc \in {"down", "begin", "setup", "rollback", "up", "gateway", "apply", "cleanup"}
    BY <1>2
  <2> QED BY <1>2, <2>a, <2>b, <2>1, <2>2, <2>3, <2>4, <2>5, <2>6 DEF RoutesTypeOK, Passes
<1>4. Owned = {}
  BY <1>2, NoRoutes DEF Owned
<1>5. KernelKnown
  <2>1. \A k \in Keys : table[k] \in {"en0", "old", NoRoute} /\ (k \in network.subnets => table[k] = "en0")
    BY <1>1
  <2>2. EndpointKey \in Keys /\ EndpointKey \notin UNION Subnets /\ network.subnets \subseteq Keys
    BY <1>3, NetworkFacts, OurRouteFacts DEF RoutesTypeOK
  <2>3. table[EndpointKey] = NoRoute
    <3>1. EndpointKey \notin network.subnets
      BY <2>2, <1>3, NetworkFacts
    <3>2. EndpointKey # Key(RoutesOf[config][1])
      <4>1. RoutesOf[config] \in Seq(Route) /\ RoutesOf[config] # <<>>
        BY <1>2, ConfigFacts
      <4>2. 1 \in DOMAIN RoutesOf[config]
        BY <4>1
      <4>3. RoutesOf[config][1] \in ToSet(RoutesOf[config])
        BY <4>2 DEF ToSet
      <4> QED BY <4>3, <1>2 DEF OneRoutePerPrefix, EndpointKey
    <3> QED BY <3>1, <3>2, <2>2, <1>1
  <2>4. TunnelEntries /\ PinEntry /\ Attached
    BY <2>1, <2>2, <2>3, <1>4, Owners DEF TunnelEntries, PinEntry, Attached
  <2> QED BY <2>4 DEF KernelKnown
<1>6. pass.dels = <<>>
  BY <1>2 DEF NoPass
<1>7. LedgerKnown
  BY <1>2, <1>4, <1>6, NoRoutes DEF LedgerKnown
<1>8. /\ AddsKnown /\ SetupKnown /\ ApplyKnown /\ UpKnown /\ FailuresKnown
      /\ TeardownKnown /\ GatewayKnown /\ PinKnown /\ SeenKnown
  BY <1>2 DEF AddsKnown, SetupKnown, ApplyKnown, UpKnown, FailuresKnown, TeardownKnown, GatewayKnown, PinKnown, SeenKnown
<1> QED BY <1>3, <1>5, <1>7, <1>8 DEF RoutesInv
-----------------------------------------------------------------------------
LEMMA DeleteRouteKeeps ==
  ASSUME OneRoutePerPrefix, RoutesInv, DeleteRoute
  PROVE  RoutesInv'
<1> DEFINE route == Head(pass.dels)
<1>1. /\ pc = "apply" /\ pass.dels # <<>> /\ pass' = [pass EXCEPT !.dels = Tail(@)]
      /\ UNCHANGED <<environment, blind, pc, seen, errors>> /\ RoutesTypeOK /\ LedgerKnown
  BY DEF DeleteRoute, RoutesInv
<1>2. UNCHANGED <<config, network, roams>>
  BY <1>1 DEF environment
<1>3. UNCHANGED <<EndpointKey, NeedsPin, OurRoutes, Wanted, WantedPin>>
  BY <1>1, <1>2, Frame
<1>4. /\ pass' \in Passes /\ pass'.dels = Tail(pass.dels) /\ pass'.adds = pass.adds
      /\ pass'.retry = pass.retry /\ pass'.previous = pass.previous
  BY <1>1, PassFacts
<1>5. /\ ToSet(pass.dels) \subseteq Owned \ Wanted /\ KeysDiffer(pass.dels)
      /\ Owned \ Wanted \subseteq ToSet(pass.dels) \cup FailedDeletes
      /\ ToSet(pass.dels) \cap FailedDeletes = {}
      /\ FailedDeletes \subseteq Owned \ Wanted /\ FailedAdds \subseteq Wanted \ Owned
  BY <1>1 DEF RoutesInv, ApplyKnown, FailuresKnown
<1>6. /\ route \in Route /\ route \in Owned /\ route \in OurRoutes
      /\ \A r \in Owned : r # route => Key(r) # Key(route)
      /\ Tail(pass.dels) \in Seq(Route) /\ KeysDiffer(Tail(pass.dels))
      /\ ToSet(pass.dels) = {route} \cup ToSet(Tail(pass.dels)) /\ route \notin ToSet(Tail(pass.dels))
  BY <1>1, <1>5, NextDelete
<1>a. route \notin Wanted /\ route \notin FailedDeletes
  BY <1>5, <1>6
<1>7. /\ SetupKnown' /\ UpKnown' /\ TeardownKnown'
  BY <1>1 DEF SetupKnown, UpKnown, TeardownKnown
<1>8. GatewayKnown' /\ GatewayKnown /\ SeenKnown'
  BY <1>1, <1>2, <1>3 DEF RoutesInv, GatewayKnown, SeenKnown
<1>b. NeedsPin => WantedPin \in Wanted
  BY <1>1, <1>8, SeenFacts DEF GatewayKnown
<1>9. \/ /\ KernelIs(Deleted(Kernel, route, seen.fp.subnets))
         /\ owned' = Filter(owned, ToSet(owned) \ {route})
         /\ UNCHANGED <<failing, lapses>>
      \/ /\ CommandFails
         /\ failing' = failing \cup {[route |-> route, op |-> "Delete"]}
         /\ UNCHANGED <<table, scoped, owned>>
  BY DEF DeleteRoute
<1>c. /\ KeysDiffer(pass.adds) /\ ToSet(pass.adds) \subseteq Wanted
      /\ ToSet(pass.adds) \cap (Owned \cup FailedAdds) = {}
  BY <1>1 DEF RoutesInv, AddsKnown
<1>d. NeedsPin => \/ WantedPin \in Owned \/ PinFailed
                  \/ WantedPin \in ToSet(pass.adds) /\ PinRetried
  BY <1>1 DEF RoutesInv, PinKnown
<1>e. PinRetried' = PinRetried
  BY <1>3, <1>4 DEF PinRetried
<1>10. ~blind /\ route.via = "tunnel" /\ Key(route) \in network.subnets => Key(route) \in seen.fp.subnets
  <2>1. SUFFICES ASSUME ~blind, route.via = "tunnel", seen.fp.subnets = {} PROVE FALSE
    BY <1>1 DEF RoutesInv, SeenKnown
  <2>2. route \in Tunnels
    BY <2>1, <1>1, <1>6, OurRouteFacts DEF RoutesTypeOK
  <2> QED BY <2>1, <2>2, <1>1, <1>a, SeenFacts
<1> HIDE DEF route
<1>11. CASE /\ KernelIs(Deleted(Kernel, route, seen.fp.subnets))
            /\ owned' = Filter(owned, ToSet(owned) \ {route})
            /\ UNCHANGED <<failing, lapses>>
  <2>1. owned' \in Seq(Route) /\ Owned' = Owned \ {route} /\ KeysDiffer(owned')
    BY <1>1, <1>11, Disowned
  <2>2. PICK d : d = Deleted(Kernel, route, seen.fp.subnets)
    OBVIOUS
  <2>3. table' \in [Keys -> Holders] /\ scoped' \subseteq Keys /\ KernelKnown'
    <3>1. /\ KernelIs(d) /\ KernelKnown /\ Owned \subseteq OurRoutes /\ UNCHANGED <<config, network, errors>>
          /\ (blind => blind')
          /\ (~blind' /\ route.via = "tunnel" /\ Key(route) \in network.subnets => Key(route) \in seen.fp.subnets)
      BY <1>1, <1>2, <1>10, <1>11, <2>2 DEF RoutesInv, LedgerKnown
    <3> QED BY <3>1, <2>1, <2>2, <1>1, <1>6, KernelDeleted
  <2>4. RoutesTypeOK'
    BY <1>1, <1>2, <1>4, <1>11, <2>1, <2>3 DEF RoutesTypeOK, Passes
  <2>5. LedgerKnown'
    BY <1>1, <1>3, <2>1 DEF LedgerKnown
  <2>6. UNCHANGED <<FailedDeletes, FailedAdds>>
    BY <1>11, SameFailures
  <2>7. AddsKnown'
    BY <1>3, <1>4, <1>c, <2>1, <2>6 DEF AddsKnown
  <2>8. ApplyKnown' /\ FailuresKnown'
    BY <1>3, <1>4, <1>5, <1>6, <1>a, <2>1, <2>6 DEF ApplyKnown, FailuresKnown
  <2>9. PinKnown'
    BY <1>1, <1>3, <1>4, <1>a, <1>b, <1>d, <1>e, <2>1, <2>6 DEF PinKnown, PinFailed
  <2> QED BY <1>7, <1>8, <2>3, <2>4, <2>5, <2>7, <2>8, <2>9 DEF RoutesInv
<1>12. CASE /\ CommandFails
            /\ failing' = failing \cup {[route |-> route, op |-> "Delete"]}
            /\ UNCHANGED <<table, scoped, owned>>
  <2>1. Owned' = Owned /\ lapses' \in 0..MaxLapses
    BY <1>1, <1>12, Lapsed DEF Owned
  <2>2. KernelKnown'
    BY <1>1, <1>2, <1>12, <2>1, KernelKept DEF RoutesInv
  <2>3. failing' \subseteq Failure /\ FailedDeletes' = FailedDeletes \cup {route} /\ FailedAdds' = FailedAdds
    BY <1>1, <1>6, <1>12, Failed
  <2>4. RoutesTypeOK'
    BY <1>1, <1>2, <1>4, <1>12, <2>1, <2>3 DEF RoutesTypeOK, Passes
  <2>5. LedgerKnown'
    BY <1>1, <1>3, <1>12, <2>1 DEF LedgerKnown
  <2>7. AddsKnown'
    BY <1>3, <1>4, <1>c, <2>1, <2>3 DEF AddsKnown
  <2>8. ApplyKnown' /\ FailuresKnown'
    BY <1>3, <1>4, <1>5, <1>6, <1>a, <2>1, <2>3 DEF ApplyKnown, FailuresKnown
  <2>9. PinKnown'
    BY <1>1, <1>3, <1>4, <1>d, <1>e, <2>1, <2>3 DEF PinKnown, PinFailed
  <2> QED BY <1>7, <1>8, <2>2, <2>4, <2>5, <2>7, <2>8, <2>9 DEF RoutesInv
<1> QED BY <1>9, <1>11, <1>12

LEMMA AddRouteKeeps ==
  ASSUME OneRoutePerPrefix, RoutesInv, AddRoute
  PROVE  RoutesInv'
<1> DEFINE route == Head(pass.adds)
           p == Prepare(Kernel, route)
<1>1. /\ pc = "apply" /\ pass.dels = <<>> /\ pass.adds # <<>> /\ pass' = [pass EXCEPT !.adds = Tail(@)]
      /\ UNCHANGED <<environment, pc, seen, errors>> /\ BlindLapse /\ RoutesTypeOK /\ LedgerKnown /\ KernelKnown
  BY DEF AddRoute, RoutesInv
<1>2. UNCHANGED <<config, network, roams>> /\ (blind => blind') /\ blind' \in BOOLEAN
  BY <1>1 DEF environment, BlindLapse, RoutesTypeOK
<1>3. UNCHANGED <<EndpointKey, NeedsPin, OurRoutes, Wanted, WantedPin>>
  BY <1>1, <1>2, Frame
<1>4. /\ pass' \in Passes /\ pass'.adds = Tail(pass.adds) /\ pass'.dels = <<>>
      /\ pass'.retry = pass.retry /\ pass'.previous = pass.previous
  BY <1>1, PassFacts
<1>5. /\ route \in Route /\ route \in Wanted /\ route \in OurRoutes /\ route \notin Owned \cup FailedAdds
      /\ Tail(pass.adds) \in Seq(Route) /\ KeysDiffer(Tail(pass.adds))
      /\ ToSet(pass.adds) = {route} \cup ToSet(Tail(pass.adds)) /\ route \notin ToSet(Tail(pass.adds))
      /\ (~DeleteFailed(failing, route) => \A r \in Owned : Key(r) # Key(route))
      /\ (Key(route) \in network.subnets /\ lapses' # lapses => blind')
  BY <1>1, NextAdd
<1>6. Key(route) \in Keys /\ (p.foreign => route.via = "tunnel")
  BY <1>1, <1>5, OurRouteFacts, Prepared DEF RoutesTypeOK
<1>7. /\ Owned \ Wanted \subseteq FailedDeletes
      /\ FailedDeletes \subseteq Owned \ Wanted /\ FailedAdds \subseteq Wanted \ Owned
      /\ Owned \subseteq OurRoutes
  BY <1>1, NoRoutes DEF RoutesInv, ApplyKnown, FailuresKnown, LedgerKnown
<1>8. /\ SetupKnown' /\ UpKnown' /\ TeardownKnown'
  BY <1>1 DEF SetupKnown, UpKnown, TeardownKnown
<1>9. GatewayKnown' /\ GatewayKnown /\ SeenKnown'
  BY <1>1, <1>2, <1>3 DEF RoutesInv, GatewayKnown, SeenKnown
<1>10. NeedsPin => WantedPin \in Wanted /\ Key(WantedPin) = EndpointKey /\ WantedPin.via # "tunnel"
  BY <1>1, <1>9, SeenFacts DEF GatewayKnown
<1>11. ToSet(pass.adds) \subseteq Wanted /\ ToSet(pass.adds) \cap (Owned \cup FailedAdds) = {}
  BY <1>1 DEF RoutesInv, AddsKnown
<1>12. NeedsPin => \/ WantedPin \in Owned \/ PinFailed
                   \/ WantedPin \in ToSet(pass.adds) /\ PinRetried
  BY <1>1 DEF RoutesInv, PinKnown
<1>13. PinRetried' = PinRetried
  BY <1>3, <1>4 DEF PinRetried
<1>14. ToSet(pass'.dels) = {} /\ KeysDiffer(pass'.dels)
  BY <1>4, NoRoutes
<1>15. \/ /\ ~MayAdd(route)
          /\ UNCHANGED <<table, scoped, owned, failing, lapses>>
       \/ /\ MayAdd(route) /\ p.foreign /\ KernelIs(p.kernel)
          /\ UNCHANGED <<owned, failing, lapses>>
       \/ /\ MayAdd(route) /\ ~p.foreign /\ KernelIs(Added(p.kernel, route))
          /\ owned' = Append(owned, route)
          /\ UNCHANGED <<failing, lapses>>
       \/ /\ MayAdd(route) /\ ~p.foreign /\ CommandFails /\ KernelIs(p.kernel)
          /\ failing' = failing \cup {[route |-> route, op |-> "Add"]}
          /\ UNCHANGED owned
  BY DEF AddRoute
<1>16. MayAdd(route) => \A r \in Owned : Key(r) # Key(route)
  BY <1>5 DEF MayAdd
<1> HIDE DEF route
<1>17. PICK q : q = p
  OBVIOUS
<1> HIDE DEF p
<1>18. CASE /\ ~MayAdd(route)
            /\ UNCHANGED <<table, scoped, owned, failing, lapses>>
  <2>1. Owned' = Owned /\ UNCHANGED <<FailedDeletes, FailedAdds>>
    BY <1>18, SameFailures DEF Owned
  <2>2. KernelKnown'
    BY <1>1, <1>2, <1>18, <2>1, KernelKept
  <2>3. RoutesTypeOK'
    BY <1>1, <1>2, <1>4, <1>18 DEF RoutesTypeOK, Passes
  <2>4. LedgerKnown'
    BY <1>1, <1>3, <1>18, <2>1 DEF LedgerKnown
  <2>5. AddsKnown'
    BY <1>3, <1>4, <1>5, <1>11, <2>1 DEF AddsKnown
  <2>6. ApplyKnown' /\ FailuresKnown'
    BY <1>3, <1>7, <1>14, <2>1 DEF ApplyKnown, FailuresKnown
  <2>7. PinKnown'
    <3>1. ASSUME NeedsPin, route = WantedPin, PinRetried PROVE PinFailed
      <4>1. DeleteFailed(failing, WantedPin)
        BY <1>18, <3>1 DEF MayAdd, PinRetried
      <4>2. \E r \in FailedDeletes : Key(r) = Key(WantedPin)
        BY <4>1, <1>1, FailureFacts
      <4> QED BY <4>2, <3>1, <1>10 DEF PinFailed
    <3>2. NeedsPin => \/ WantedPin \in Owned \/ PinFailed
                      \/ WantedPin \in ToSet(Tail(pass.adds)) /\ PinRetried
      BY <3>1, <1>5, <1>12
    <3>3. PinFailed' = PinFailed
      BY <2>1, <1>3 DEF PinFailed
    <3> QED BY <3>2, <3>3, <2>1, <1>1, <1>3, <1>4, <1>13 DEF PinKnown
  <2> QED BY <1>8, <1>9, <2>2, <2>3, <2>4, <2>5, <2>6, <2>7 DEF RoutesInv
<1>19. CASE /\ MayAdd(route) /\ p.foreign /\ KernelIs(p.kernel)
            /\ UNCHANGED <<owned, failing, lapses>>
  <2>1. Owned' = Owned /\ UNCHANGED <<FailedDeletes, FailedAdds>>
    BY <1>19, SameFailures DEF Owned
  <2>2. table' \in [Keys -> Holders] /\ scoped' \subseteq Keys /\ KernelKnown'
    BY <1>1, <1>2, <1>5, <1>7, <1>16, <1>19, <2>1, KernelPrepared DEF p
  <2>3. RoutesTypeOK'
    BY <1>1, <1>2, <1>4, <1>19, <2>2 DEF RoutesTypeOK, Passes
  <2>4. LedgerKnown'
    BY <1>1, <1>3, <1>19, <2>1 DEF LedgerKnown
  <2>5. AddsKnown'
    BY <1>3, <1>4, <1>5, <1>11, <2>1 DEF AddsKnown
  <2>6. ApplyKnown' /\ FailuresKnown'
    BY <1>3, <1>7, <1>14, <2>1 DEF ApplyKnown, FailuresKnown
  <2>7. PinKnown'
    <3>1. NeedsPin => route # WantedPin
      BY <1>6, <1>10, <1>19
    <3>2. PinFailed' = PinFailed
      BY <2>1, <1>3 DEF PinFailed
    <3> QED BY <3>1, <3>2, <2>1, <1>1, <1>3, <1>4, <1>5, <1>12, <1>13 DEF PinKnown
  <2> QED BY <1>8, <1>9, <2>2, <2>3, <2>4, <2>5, <2>6, <2>7 DEF RoutesInv
<1>20. CASE /\ MayAdd(route) /\ ~p.foreign /\ KernelIs(Added(p.kernel, route))
            /\ owned' = Append(owned, route)
            /\ UNCHANGED <<failing, lapses>>
  <2>1. UNCHANGED <<FailedDeletes, FailedAdds>>
    BY <1>20, SameFailures
  <2>2. owned' \in Seq(Route) /\ Owned' = Owned \cup {route} /\ KeysDiffer(owned')
    <3>1. owned \in Seq(Route) /\ KeysDiffer(owned) /\ \A r \in ToSet(owned) : Key(r) # Key(route)
      BY <1>1, <1>16, <1>20 DEF LedgerKnown, RoutesTypeOK, Owned
    <3> QED BY <3>1, <1>5, <1>20, Appended DEF Owned
  <2>3. table' \in [Keys -> Holders] /\ scoped' \subseteq Keys /\ KernelKnown'
    BY <1>1, <1>2, <1>5, <1>7, <1>16, <1>20, <2>2, KernelAdded DEF p
  <2>4. RoutesTypeOK'
    BY <1>1, <1>2, <1>4, <1>20, <2>2, <2>3 DEF RoutesTypeOK, Passes
  <2>5. LedgerKnown'
    BY <1>1, <1>3, <1>5, <1>7, <2>2 DEF LedgerKnown
  <2>6. AddsKnown'
    BY <1>3, <1>4, <1>5, <1>11, <2>1, <2>2 DEF AddsKnown
  <2>7. ApplyKnown' /\ FailuresKnown'
    BY <1>3, <1>5, <1>7, <1>14, <2>1, <2>2 DEF ApplyKnown, FailuresKnown
  <2>8. PinKnown'
    <3>2. PinFailed' = PinFailed
      BY <2>1, <1>3 DEF PinFailed
    <3> QED BY <3>2, <2>2, <1>1, <1>3, <1>4, <1>5, <1>12, <1>13 DEF PinKnown
  <2> QED BY <1>8, <1>9, <2>3, <2>4, <2>5, <2>6, <2>7, <2>8 DEF RoutesInv
<1>21. CASE /\ MayAdd(route) /\ ~p.foreign /\ CommandFails /\ KernelIs(p.kernel)
            /\ failing' = failing \cup {[route |-> route, op |-> "Add"]}
            /\ UNCHANGED owned
  <2>1. Owned' = Owned /\ lapses' \in 0..MaxLapses /\ lapses' # lapses
    BY <1>1, <1>21, Lapsed DEF Owned
  <2>2. failing' \subseteq Failure /\ FailedDeletes' = FailedDeletes /\ FailedAdds' = FailedAdds \cup {route}
    BY <1>1, <1>5, <1>21, Failed
  <2>3. table' \in [Keys -> Holders] /\ scoped' \subseteq Keys /\ KernelKnown'
    BY <1>1, <1>2, <1>5, <1>7, <1>16, <1>21, <2>1, KernelPrepared DEF p
  <2>4. RoutesTypeOK'
    BY <1>1, <1>2, <1>4, <1>21, <2>1, <2>2, <2>3 DEF RoutesTypeOK, Passes
  <2>5. LedgerKnown'
    BY <1>1, <1>3, <1>21, <2>1 DEF LedgerKnown
  <2>6. AddsKnown'
    BY <1>3, <1>4, <1>5, <1>11, <2>1, <2>2 DEF AddsKnown
  <2>7. ApplyKnown' /\ FailuresKnown'
    BY <1>3, <1>5, <1>7, <1>14, <2>1, <2>2 DEF ApplyKnown, FailuresKnown
  <2>8. PinKnown'
    <3>1. PinFailed => PinFailed'
      BY <2>2, <1>3 DEF PinFailed
    <3>2. NeedsPin /\ route = WantedPin => PinFailed'
      BY <2>2, <1>3, <1>10 DEF PinFailed
    <3> QED BY <3>1, <3>2, <2>1, <1>1, <1>3, <1>4, <1>5, <1>12, <1>13 DEF PinKnown
  <2> QED BY <1>8, <1>9, <2>3, <2>4, <2>5, <2>6, <2>7, <2>8 DEF RoutesInv
<1> QED BY <1>15, <1>18, <1>19, <1>20, <1>21
-----------------------------------------------------------------------------
LEMMA ReadGatewayKeeps ==
  ASSUME OneRoutePerPrefix, RoutesInv, ReadGateway
  PROVE  RoutesInv'
<1>1. /\ pc = "gateway" /\ UNCHANGED <<environment, blind, table, scoped, owned, errors>>
      /\ RoutesTypeOK /\ LedgerKnown
  BY DEF ReadGateway, RoutesInv
<1>2. UNCHANGED <<config, network, roams>>
  BY <1>1 DEF environment
<1> DEFINE chosen(found) == IF ~NeedsPin THEN NoRoute
                            ELSE IF found THEN network.gateway ELSE seen.fp.gateway
           fingerprint(found) == [subnets |-> seen.subnets, gateway |-> chosen(found)]
<1>a. PICK found \in {TRUE, FALSE} :
        /\ found => ~NeedsPin \/ network.gateway # NoRoute
        /\ lapses' = lapses \/ CommandFails
        /\ Plan(fingerprint(found), DesiredRoutes(fingerprint(found)))
        /\ seen' = [seen EXCEPT !.fp = fingerprint(found)]
  BY DEF ReadGateway, KeptGateway
<1>b. PICK gateway : gateway = chosen(found)
  OBVIOUS
<1>c. PICK fp : fp = fingerprint(found)
  OBVIOUS
<1>d. PICK desired : desired = DesiredRoutes(fp)
  OBVIOUS
<1>3. /\ gateway = IF ~NeedsPin THEN NoRoute
                   ELSE IF found THEN network.gateway ELSE seen.fp.gateway
      /\ fp = [subnets |-> seen.subnets, gateway |-> gateway]
      /\ found => ~NeedsPin \/ network.gateway # NoRoute
      /\ lapses' = lapses \/ CommandFails
      /\ desired = DesiredRoutes(fp)
      /\ Plan(fp, desired)
      /\ seen' = [seen EXCEPT !.fp = fp]
  BY <1>a, <1>b, <1>c, <1>d
<1> HIDE DEF chosen, fingerprint
<1>4. fp \in Fingerprint /\ fp.subnets = seen.subnets /\ (NeedsPin => fp.gateway # NoRoute)
  <2>1. seen.fp.gateway \in Gateways \cup {NoRoute} /\ seen.subnets \subseteq Networks
        /\ network.gateway \in Gateways \cup {NoRoute}
    BY <1>1 DEF RoutesTypeOK, Fingerprint
  <2>2. NeedsPin => seen.fp.gateway # NoRoute
    BY <1>1 DEF RoutesInv, GatewayKnown
  <2>3. gateway \in Gateways \cup {NoRoute} /\ (NeedsPin => gateway # NoRoute)
    BY <1>3, <2>1, <2>2
  <2> QED BY <1>3, <2>1, <2>3 DEF Fingerprint
<1>5. seen' \in [fp : Fingerprint, subnets : SUBSET Networks] /\ seen'.fp = fp /\ seen'.subnets = seen.subnets
  BY <1>1, <1>3, <1>4 DEF RoutesTypeOK
<1>6. Wanted' = Desired(fp) /\ WantedPin' = Pin(fp.gateway)
      /\ UNCHANGED <<NeedsPin, EndpointKey, OurRoutes>>
  BY <1>2, <1>5, SameWanted, SameConfig, SameRoutes
<1>7. Owned' = Owned /\ lapses' \in 0..MaxLapses
  BY <1>1, <1>3, Lapsed DEF Owned, RoutesTypeOK
<1>8. KernelKnown'
  BY <1>1, <1>2, <1>7, KernelKept DEF RoutesInv
<1>9. pc' \in {"up", "apply"}
  BY <1>3 DEF Plan
<1>10. LedgerKnown'
  BY <1>1, <1>6, <1>7, <1>9 DEF LedgerKnown
<1>11. GatewayKnown'
  BY <1>4, <1>5, <1>6 DEF GatewayKnown
<1>12. SeenKnown'
  BY <1>1, <1>2, <1>4, <1>5, <1>9 DEF RoutesInv, SeenKnown
<1>13. SetupKnown' /\ TeardownKnown'
  BY <1>9 DEF SetupKnown, TeardownKnown
<1>14. /\ Owned \ Wanted \subseteq FailedDeletes
       /\ FailedDeletes \subseteq Owned \ Wanted /\ FailedAdds \subseteq Wanted \ Owned
       /\ (NeedsPin => PinOwned \/ PinFailed)
       /\ Owned \subseteq OurRoutes /\ KeysDiffer(owned)
  BY <1>1 DEF RoutesInv, UpKnown, FailuresKnown, PinKnown, LedgerKnown
<1>15. fp = seen.fp => Wanted' = Wanted /\ WantedPin' = WantedPin
  BY <1>6 DEF Wanted, WantedPin
<1>16. CASE pc' = "up"
  <2>1. fp = seen.fp /\ UNCHANGED <<pass, failing>>
    BY <1>3, <1>16 DEF Plan
  <2>2. UNCHANGED <<FailedDeletes, FailedAdds>>
    BY <2>1, SameFailures
  <2>3. RoutesTypeOK'
    BY <1>1, <1>2, <1>5, <1>7, <1>16, <2>1 DEF RoutesTypeOK
  <2>4. AddsKnown' /\ ApplyKnown'
    BY <1>16 DEF AddsKnown, ApplyKnown
  <2>5. UpKnown' /\ FailuresKnown'
    BY <1>7, <1>14, <1>15, <2>1, <2>2 DEF UpKnown, FailuresKnown
  <2>6. PinKnown'
    BY <1>6, <1>7, <1>14, <1>16, <2>2 DEF PinKnown, PinOwned, PinFailed
  <2> QED BY <1>8, <1>10, <1>11, <1>12, <1>13, <2>3, <2>4, <2>5, <2>6 DEF RoutesInv
<1>17. CASE pc' = "apply"
  <2>1. /\ pass' = [dels     |-> Filter(owned, ToSet(owned) \ ToSet(desired)),
                    adds     |-> Filter(desired, ToSet(desired) \ ToSet(owned)),
                    retry    |-> fp = seen.fp,
                    previous |-> failing]
        /\ failing' = {}
    BY <1>3, <1>17 DEF Plan
  <2>2. desired \in Seq(Route) /\ ToSet(desired) = Wanted' /\ KeysDiffer(desired)
    BY <1>1, <1>3, <1>4, <1>6, DesiredFacts DEF RoutesTypeOK
  <2>3. owned \in Seq(Route) /\ failing \subseteq Failure
    BY <1>1 DEF RoutesTypeOK
  <2>4. PICK dels, adds : /\ dels = Filter(owned, ToSet(owned) \ ToSet(desired))
                          /\ adds = Filter(desired, ToSet(desired) \ ToSet(owned))
    OBVIOUS
  <2>5. dels \in Seq(Route) /\ ToSet(dels) = Owned \ Wanted' /\ KeysDiffer(dels)
    BY <1>14, <2>2, <2>3, <2>4, Filtered DEF Owned
  <2>6. adds \in Seq(Route) /\ ToSet(adds) = Wanted' \ Owned /\ KeysDiffer(adds)
    BY <2>2, <2>4, Filtered DEF Owned
  <2>7. PICK retry \in BOOLEAN : retry <=> fp = seen.fp
    OBVIOUS
  <2>8. pass' = [dels |-> dels, adds |-> adds, retry |-> retry, previous |-> failing]
    BY <2>1, <2>4, <2>7
  <2>9. pass' \in Passes
    <3>1. [dels |-> dels, adds |-> adds, retry |-> retry, previous |-> failing] \in Passes
      BY <2>3, <2>5, <2>6 DEF Passes
    <3> QED BY <2>8, <3>1
  <2>10. pass'.dels = dels /\ pass'.adds = adds /\ pass'.retry = retry /\ pass'.previous = failing
    BY <2>8
  <2>11. FailedDeletes' = {} /\ FailedAdds' = {}
    BY <2>1 DEF FailedDeletes, FailedAdds
  <2>12. RoutesTypeOK'
    BY <1>1, <1>2, <1>5, <1>7, <1>17, <2>1, <2>9 DEF RoutesTypeOK, Passes
  <2>13. AddsKnown'
    BY <1>7, <2>6, <2>10, <2>11 DEF AddsKnown
  <2>14. ApplyKnown'
    BY <1>7, <2>5, <2>10, <2>11 DEF ApplyKnown
  <2>15. UpKnown' /\ FailuresKnown'
    BY <1>17, <2>11 DEF UpKnown, FailuresKnown
  <2>16. PinKnown'
    <3>1. SUFFICES ASSUME NeedsPin, WantedPin' \notin Owned
                   PROVE  WantedPin' \in ToSet(pass'.adds) /\ PinRetried'
      BY <1>6, <1>7, <1>17 DEF PinKnown
    <3>2. WantedPin' \in Wanted' /\ Key(WantedPin') = EndpointKey
      BY <1>1, <1>4, <1>6, <3>1, DesiredDiffer DEF RoutesTypeOK
    <3>3. WantedPin' \in ToSet(pass'.adds)
      BY <3>1, <3>2, <2>6, <2>10
    <3>4. ASSUME retry
          PROVE  [route |-> WantedPin', op |-> "Add"] \in failing \/ DeleteFailed(failing, WantedPin')
      <4>1. Wanted' = Wanted /\ \A r \in Wanted : Key(r) = EndpointKey => r = WantedPin'
        BY <3>2, <3>4, <2>7, <1>1, <1>15, SeenFacts
      <4>2. \/ \E r \in FailedDeletes : Key(r) = EndpointKey
            \/ \E r \in FailedAdds : Key(r) = EndpointKey
        <5>1. PinOwned => \E r \in FailedDeletes : Key(r) = EndpointKey
          BY <4>1, <3>1, <1>14 DEF PinOwned
        <5> QED BY <5>1, <3>1, <1>14 DEF PinFailed
      <4>3. CASE \E r \in FailedDeletes : Key(r) = EndpointKey
        BY <4>3, <3>2, <1>1, FailureFacts
      <4>4. CASE \E r \in FailedAdds : Key(r) = EndpointKey
        BY <4>1, <4>4, <1>14 DEF FailedAdds
      <4> QED BY <4>2, <4>3, <4>4
    <3> QED BY <3>3, <3>4, <2>10 DEF PinRetried
  <2> QED BY <1>8, <1>10, <1>11, <1>12, <1>13, <2>12, <2>13, <2>14, <2>15, <2>16 DEF RoutesInv
<1> QED BY <1>9, <1>16, <1>17

-----------------------------------------------------------------------------
(***************************************************************************)
(* The theorems.                                                           *)
(***************************************************************************)

(* Every command of configure_network_macos, macos_apply_route_plan and    *)
(* cleanup_network_macos, failed or not, and every change of the network   *)
(* between two of them keeps the invariant.                                *)
LEMMA RoutesInvariant == ASSUME OneRoutePerPrefix PROVE RoutesSpec => []RoutesInv
<1>1. RoutesInit => RoutesInv
  BY RoutesBegin
<1>2. RoutesInv /\ [RoutesNext]_routeVars => RoutesInv'
  <2> SUFFICES ASSUME RoutesInv, [RoutesNext]_routeVars PROVE RoutesInv'
    OBVIOUS
  <2>1. CASE BeginSetup
    BY <2>1, BeginSetupKeeps
  <2>2. CASE Stop
    BY <2>2, StopKeeps
  <2>3. CASE HelperStep
    BY <2>3, PlanSetupKeeps, SetupRouteKeeps, SetupDoneKeeps, TearDownRouteKeeps, TornDownKeeps, TickKeeps,
       ReadGatewayKeeps, DeleteRouteKeeps, AddRouteKeeps, PassDoneKeeps DEF HelperStep
  <2>4. CASE \E new \in [subnets : Subnets, gateway : Gateways \cup {NoRoute}] : Roam(new)
    BY <2>4, RoamKeeps
  <2>5. CASE UNCHANGED routeVars
    BY <2>5, StutterKeeps
  <2> QED BY <2>1, <2>2, <2>3, <2>4, <2>5 DEF RoutesNext
<1> QED BY <1>1, <1>2, PTL DEF RoutesSpec
-----------------------------------------------------------------------------
(***************************************************************************)
(* What the invariant says.                                                *)
(***************************************************************************)

(* The entries of this tunnel, and who owns them.                          *)
LEMMA HeldFacts ==
  ASSUME OneRoutePerPrefix, RoutesInv
  PROVE  /\ \A r \in Owned : r \in OurRoutes /\ Key(r) \in Keys /\ Held(Key(r))
         /\ \A r \in Owned : r.via = "tunnel" => table[Key(r)] = "tunnel" /\ r \in Tunnels
         /\ \A r \in Owned : r.via # "tunnel" => /\ r = Pin(r.via) /\ NeedsPin /\ Key(r) = EndpointKey
                                                 /\ r.via \in Gateways
                                                 /\ ~errors => table[EndpointKey] = r.via
         /\ ~errors => \A k \in Keys : Held(k) => \E r \in Owned : Key(r) = k /\ table[k] = r.via
         /\ \A k \in Keys : table[k] = "tunnel" => \E r \in Owned : Key(r) = k /\ r.via = "tunnel"
<1>1. RoutesTypeOK /\ TunnelEntries /\ PinEntry /\ Owned \subseteq OurRoutes
  BY DEF RoutesInv, KernelKnown, LedgerKnown
<1>2. /\ \A r \in OurRoutes :
           /\ r \in Route /\ Key(r) \in Keys
           /\ r.via = "tunnel" => r \in Tunnels /\ Key(r) # EndpointKey
           /\ r.via # "tunnel" => /\ r.via \in Gateways /\ r = Pin(r.via) /\ NeedsPin
                                  /\ Key(r) = EndpointKey
  BY <1>1, OurRouteFacts DEF RoutesTypeOK
<1>3. \A r \in Owned : r.via = "tunnel" => table[Key(r)] = "tunnel"
  BY <1>1, <1>2 DEF TunnelEntries
<1>4. \A r \in Owned : r.via # "tunnel" => table[EndpointKey] \in Gateways /\ (~errors => table[EndpointKey] = r.via)
  BY <1>1 DEF PinEntry
<1>5. \A k \in Keys : table[k] = "tunnel" => \E r \in Owned : Key(r) = k /\ r.via = "tunnel"
  BY <1>1 DEF TunnelEntries
<1>6. ASSUME ~errors, NEW k \in Keys, Held(k) PROVE \E r \in Owned : Key(r) = k /\ table[k] = r.via
  <2>1. CASE table[k] = "tunnel"
    BY <1>5, <2>1
  <2>2. CASE table[k] \in Gateways
    <3>1. k = EndpointKey
      BY <1>1, <2>2 DEF PinEntry
    <3>2. PICK r \in Owned : r.via # "tunnel"
      BY <1>1, <1>6, <2>2, <3>1 DEF PinEntry
    <3>3. Key(r) = EndpointKey
      BY <1>1, <1>2, <3>2
    <3> QED BY <3>1, <3>2, <3>3, <1>4, <1>6
  <2> QED BY <1>6, <2>1, <2>2 DEF Held
<1>7. \A r \in Owned : Held(Key(r))
  BY <1>1, <1>2, <1>3, <1>4 DEF Held
<1> QED BY <1>1, <1>2, <1>3, <1>4, <1>5, <1>6, <1>7

LEMMA LedgerHolds ==
  ASSUME OneRoutePerPrefix, RoutesInv
  PROVE  LedgerInv
<1>1. RoutesTypeOK
  BY DEF RoutesInv
<1>2. LedgerIsKernel
  <2>1. SUFFICES ASSUME ~errors
                 PROVE  {[dest |-> k, via |-> table[k]] : k \in {k \in Keys : Held(k)}}
                          = {[dest |-> Key(r), via |-> r.via] : r \in Owned}
    BY DEF LedgerIsKernel, Owned
  <2>2. ASSUME NEW k \in Keys, Held(k)
        PROVE  [dest |-> k, via |-> table[k]] \in {[dest |-> Key(r), via |-> r.via] : r \in Owned}
    BY <2>1, <2>2, HeldFacts
  <2>3. ASSUME NEW r \in Owned
        PROVE  [dest |-> Key(r), via |-> r.via] \in {[dest |-> k, via |-> table[k]] : k \in {k \in Keys : Held(k)}}
    <3>1. Key(r) \in Keys /\ Held(Key(r)) /\ table[Key(r)] = r.via
      BY <2>1, HeldFacts
    <3> QED BY <3>1
  <2> QED BY <2>2, <2>3
<1>3. CleanTeardown
  <2>1. SUFFICES ASSUME pc = "down", ~errors
                 PROVE  /\ \A k \in Keys : ~Held(k)
                        /\ Sighted => \A subnet \in network.subnets : Reachable(subnet)
    BY DEF CleanTeardown
  <2>2. Owned = {}
    BY <2>1, NoRoutes DEF RoutesInv, LedgerKnown, Owned
  <2>3. \A k \in Keys : ~Held(k)
    BY <2>1, <2>2, HeldFacts
  <2>4. ASSUME Sighted, NEW subnet \in network.subnets PROVE Reachable(subnet)
    <3>1. \/ table[subnet] \in {"en0", "old", "tunnel"}
          \/ table[subnet] = NoRoute /\ subnet \in scoped
      BY <2>4 DEF RoutesInv, KernelKnown, Attached
    <3>2. table[subnet] # "tunnel"
      BY <1>1, <2>3, NetworkFacts DEF Held
    <3> QED BY <3>1, <3>2, Owners DEF Reachable, Entry, Kernel
  <2> QED BY <2>3, <2>4
<1> QED BY <1>1, <1>2, <1>3 DEF LedgerInv

(* Nothing that an up-to-date tunnel owns is not wanted.                   *)
LEMMA CurrentlyWanted ==
  ASSUME OneRoutePerPrefix, RoutesInv, UpToDate, NEW k \in Keys, table[k] = "tunnel"
  PROVE  \E r \in Tunnels : /\ Key(r) = k /\ r.dest \in Networks /\ r.dest \in ToSet(AllowedRoutes(config.allowed))
                            /\ Tunnelled(r.dest, network.subnets, LinksOf[config])
<1>1. pc = "up" /\ failing = {} /\ seen.fp.subnets = network.subnets
  BY DEF UpToDate, Current
<1>2. PICK r \in Owned : Key(r) = k /\ r.via = "tunnel" /\ r \in Tunnels
  BY HeldFacts
<1>3. r \in Wanted
  BY <1>1, NoFailures DEF RoutesInv, UpKnown
<1>4. RoutesTypeOK /\ seen.fp \in Fingerprint /\ config \in TunnelConfigs
  BY DEF RoutesInv, RoutesTypeOK
<1>5. \/ Tunnelled(r.dest, seen.fp.subnets, LinksOf[config])
      \/ NeedsPin /\ seen.fp.gateway # NoRoute /\ r = Pin(seen.fp.gateway)
  BY <1>3, <1>4, DesiredFacts DEF Wanted
<1>6. ~(NeedsPin /\ seen.fp.gateway # NoRoute /\ r = Pin(seen.fp.gateway))
  BY <1>2, <1>4, SeenFacts DEF WantedPin
<1> QED BY <1>1, <1>2, <1>4, <1>5, <1>6, ConfigFacts DEF Tunnels

LEMMA NothingCaptured ==
  ASSUME OneRoutePerPrefix, RoutesInv
  PROVE  NotCaptured
<1>1. RoutesTypeOK /\ config \in TunnelConfigs
  BY DEF RoutesInv, RoutesTypeOK
<1>2. EndpointOutside
  <2>1. SUFFICES ASSUME pc \in {"setup", "up"}, NEW k \in Keys, table[k] = "tunnel", SubnetContains(k, EndpointKey)
                 PROVE  \/ table[EndpointKey] \in Gateways
                        \/ \E f \in failing : Key(f.route) = EndpointKey
    BY DEF EndpointOutside, EndpointKey
  <2>2. PICK r \in Owned : Key(r) = k /\ r \in Tunnels
    BY <2>1, HeldFacts
  <2>3. NeedsPin
    BY <1>1, <2>1, <2>2, CoverNeedsPin
  <2>4. \/ \E q \in Owned : Key(q) = EndpointKey
        \/ PinFailed
    <3>1. CASE pc = "setup"
      <4>1. owned # <<>>
        BY <2>2, NoRoutes DEF Owned
      <4>2. WantedPin \in Owned
        BY <2>3, <3>1, <4>1 DEF RoutesInv, SetupKnown
      <4>3. Key(WantedPin) = EndpointKey
        BY <1>1, <2>3, <3>1, SeenFacts DEF RoutesInv, GatewayKnown
      <4> QED BY <4>2, <4>3
    <3>2. CASE pc = "up"
      BY <2>3, <3>2 DEF RoutesInv, PinKnown, PinOwned
    <3> QED BY <2>1, <3>1, <3>2
  <2>5. CASE \E q \in Owned : Key(q) = EndpointKey
    <3>1. PICK q \in Owned : Key(q) = EndpointKey
      BY <2>5
    <3>2. q \in OurRoutes /\ Held(EndpointKey)
      BY <3>1, HeldFacts
    <3>3. EndpointKey \in Keys
      BY <1>1, OurRouteFacts
    <3>4. table[EndpointKey] # "tunnel"
      BY <3>3, Owners DEF RoutesInv, KernelKnown, PinEntry
    <3> QED BY <3>2, <3>4 DEF Held
  <2>6. CASE PinFailed
    BY <2>6 DEF PinFailed, FailedDeletes, FailedAdds
  <2> QED BY <2>4, <2>5, <2>6
<1>3. BypassStaysOff
  <2>1. SUFFICES ASSUME UpToDate, NEW i \in DOMAIN AcceptedLinks, NEW subnet \in network.subnets,
                        SubnetContains(subnet, AcceptedLinks[i].anchor),
                        NEW prefix \in AcceptedLinks[i].bypass, NEW ip \in AddressesOf(prefix), NEW k \in Keys,
                        table[k] = "tunnel", SubnetContains(k, Host(ip))
                 PROVE  FALSE
    BY DEF BypassStaysOff
  <2>2. PICK r \in Tunnels : /\ Key(r) = k /\ r.dest \in Networks /\ r.dest \in ToSet(AllowedRoutes(config.allowed))
                             /\ Tunnelled(r.dest, network.subnets, LinksOf[config])
    BY <2>1, CurrentlyWanted
  <2>3. Host(ip) \in Networks
    BY HostFacts DEF AddressesOf
  <2>4. SubnetContains(r.dest, Host(ip))
    BY <2>1, <2>2, <2>3, ContainsTrunc DEF Key
  <2>5. /\ config.allowed \in Seq(Networks) /\ config.links \in Links
        /\ AcceptedLinks = ValidLinks(config.links, ToSet(config.allowed)) /\ AcceptedLinks \in Links
        /\ AcceptedLinks = LinksOf[config]
    BY <1>1, ConfigFacts DEF AcceptedLinks
  <2>6. \A j \in DOMAIN AcceptedLinks : IsSound(AcceptedLinks[j], ToSet(config.allowed))
    BY <2>5, ValidFacts
  <2> QED BY <2>1, <2>2, <2>4, <2>5, <2>6, SoundPromise
<1> QED BY <1>2, <1>3 DEF NotCaptured

(* The most specific of the entries that cover an address.                 *)
LEMMA MostSpecific ==
  ASSUME NEW covering \in SUBSET Networks, covering # {}
  PROVE  \E k \in covering : \A other \in covering : other.len <= k.len
<1>1. \A k \in covering : k.len \in 0..Width /\ Width \in Nat
  BY LinkRulesAssumption DEF Networks
<1> DEFINE T == {Width - k.len : k \in covering}
<1>2. T \in SUBSET Nat /\ T # {}
  BY <1>1
<1>3. PICK m \in T : \A n \in T : m <= n
  BY <1>2, LeastMember
<1>4. PICK k \in covering : m = Width - k.len
  OBVIOUS
<1>5. ASSUME NEW other \in covering PROVE other.len <= k.len
  <2>1. Width - k.len <= Width - other.len
    BY <1>3, <1>4
  <2> QED BY <2>1, <1>1
<1> QED BY <1>5

LEMMA EgressFacts ==
  ASSUME RoutesTypeOK, NEW key, NEW entry \in Keys, Entry(Kernel, entry) # NoRoute, SubnetContains(entry, key)
  PROVE  \E k \in Keys : /\ SubnetContains(k, key) /\ entry.len <= k.len /\ Entry(Kernel, k) # NoRoute
                         /\ Egress(key) = IF Entry(Kernel, k) \in Gateways THEN "en0" ELSE Entry(Kernel, k)
<1> DEFINE covering == {k \in Keys : Entry(Kernel, k) # NoRoute /\ SubnetContains(k, key)}
           winner == CHOOSE k \in covering : \A other \in covering : other.len <= k.len
<1>1. covering \in SUBSET Networks /\ covering # {} /\ entry \in covering
  BY KeysAre
<1>2. \E k \in covering : \A other \in covering : other.len <= k.len
  BY <1>1, MostSpecific
<1>3. winner \in covering /\ \A other \in covering : other.len <= winner.len
  <2> HIDE DEF covering
  <2> QED BY <1>2
<1>4. Egress(key) = IF Entry(Kernel, winner) \in Gateways THEN "en0" ELSE Entry(Kernel, winner)
  <2>1. Egress(key) = IF covering # {} THEN IF Entry(Kernel, winner) \in Gateways THEN "en0"
                                            ELSE Entry(Kernel, winner)
                      ELSE IF network.gateway # NoRoute THEN "en0" ELSE NoRoute
    BY DEF Egress
  <2> HIDE DEF covering, winner
  <2> QED BY <2>1, <1>1
<1> HIDE DEF winner
<1> QED BY <1>1, <1>3, <1>4
-----------------------------------------------------------------------------
(***************************************************************************)
(* The overview.                                                           *)
(***************************************************************************)
Rows == PinRows \cup CandidateRows \cup LeftoverRows

(* A row says that a removal has failed, or what it said before.           *)
Removal(row) == \E f \in failing : /\ f.op = "Delete" /\ Key(f.route) = row.dest
                                   /\ row.pin => f.route.via # "tunnel"

LEMMA ToldFacts ==
  /\ \A row \in Rows : row = [dest |-> row.dest, pin |-> row.pin, outcome |-> row.outcome]
  /\ \A row \in Rows : Removal(row) => row.dest \in Told("RemovalFailed")
  /\ \A row \in Rows : ~Removal(row) => row.dest \in Told(row.outcome)
  /\ \A outcome : \A key \in Told(outcome) :
       \/ \E row \in Rows : row.dest = key /\ row.outcome = outcome /\ ~Removal(row)
       \/ outcome = "RemovalFailed" /\ \E row \in Rows : row.dest = key /\ Removal(row)
<1>1. \A row \in Rows : row = [dest |-> row.dest, pin |-> row.pin, outcome |-> row.outcome]
  BY DEF Rows, PinRows, CandidateRows, LeftoverRows
<1> DEFINE marked(row) == IF Removal(row) THEN [row EXCEPT !.outcome = "RemovalFailed"] ELSE row
<1>2. Overview = {marked(row) : row \in Rows}
  BY DEF Overview, MarkFailedRemovals, Rows, Removal
<1>3. \A row \in Rows : /\ marked(row).dest = row.dest
                        /\ Removal(row) => marked(row).outcome = "RemovalFailed"
                        /\ ~Removal(row) => marked(row) = row
  BY <1>1
<1> HIDE DEF marked
<1>4. \A row \in Rows : Removal(row) => row.dest \in Told("RemovalFailed")
  BY <1>2, <1>3 DEF Told
<1>5. \A row \in Rows : ~Removal(row) => row.dest \in Told(row.outcome)
  BY <1>2, <1>3 DEF Told
<1>6. ASSUME NEW outcome, NEW key \in Told(outcome)
      PROVE  \/ \E row \in Rows : row.dest = key /\ row.outcome = outcome /\ ~Removal(row)
             \/ outcome = "RemovalFailed" /\ \E row \in Rows : row.dest = key /\ Removal(row)
  <2>1. PICK row \in Rows : key = marked(row).dest /\ marked(row).outcome = outcome
    BY <1>2 DEF Told
  <2> QED BY <2>1, <1>3
<1> QED BY <1>1, <1>4, <1>5, <1>6

(* The rows between two passes.                                            *)
LEMMA RowFacts ==
  ASSUME OneRoutePerPrefix, RoutesInv
  PROVE  /\ \A r \in Tunnels : \E row \in Rows : row.dest = Key(r) /\ ~row.pin /\ row.outcome = Outcome(r)
         /\ NeedsPin => \E row \in Rows : /\ row.dest = EndpointKey /\ row.pin
                                          /\ row.outcome \in {"EndpointPinned", "EndpointPinMissing"}
                                          /\ row.outcome = "EndpointPinned" <=> \E r \in Owned : r.via # "tunnel"
         /\ \A row \in Rows :
              \/ ~row.pin /\ \E r \in Tunnels : row.dest = Key(r) /\ row.outcome = Outcome(r)
              \/ /\ row.pin /\ row.dest = EndpointKey
                 /\ row.outcome = "EndpointPinMissing"
                      \/ (row.outcome = "EndpointPinned" /\ \E r \in Owned : r.via # "tunnel")
<1>1. Owned \subseteq OurRoutes /\ config \in TunnelConfigs
  BY DEF RoutesInv, LedgerKnown, RoutesTypeOK
<1>2. Candidates = Tunnels
  BY DEF Candidates, Tunnels
<1>3. LeftoverRows = {}
  <2>1. \A r \in Owned \ Candidates : NeedsPin /\ r.via # "tunnel"
    BY <1>1, <1>2, OurRouteFacts
  <2> QED BY <2>1 DEF LeftoverRows, Owned
<1>4. \A r \in Owned : r.via # "tunnel" => r.dest = EndpointKey
  <2>1. \A r \in Owned : r.via # "tunnel" => r = Pin(r.via)
    BY <1>1, OurRouteFacts
  <2> QED BY <2>1 DEF Pin, EndpointKey
<1>5. PICK pinned \in BOOLEAN : pinned <=> \E r \in Owned : r.via # "tunnel"
  OBVIOUS
<1>6. PICK outcome : outcome = IF pinned THEN "EndpointPinned" ELSE "EndpointPinMissing"
  OBVIOUS
<1>7. PinRows = IF NeedsPin THEN {[dest |-> EndpointKey, pin |-> TRUE, outcome |-> outcome]} ELSE {}
  <2>1. pinned <=> \E r \in ToSet(owned) : r.via # "tunnel" /\ r.dest = Host(config.endpoint)
    BY <1>4, <1>5 DEF Owned, EndpointKey
  <2> QED BY <2>1, <1>6 DEF PinRows, EndpointKey
<1>8. \A row \in PinRows : /\ row.pin /\ row.dest = EndpointKey /\ row.outcome = outcome
  BY <1>7
<1>9. \A row \in CandidateRows : ~row.pin /\ \E r \in Tunnels : row.dest = Key(r) /\ row.outcome = Outcome(r)
  BY <1>2 DEF CandidateRows
<1>10. ASSUME NEW r \in Tunnels
       PROVE  \E row \in CandidateRows : row.dest = Key(r) /\ ~row.pin /\ row.outcome = Outcome(r)
  <2>1. [dest |-> Key(r), pin |-> FALSE, outcome |-> Outcome(r)] \in CandidateRows
    BY <1>2 DEF CandidateRows
  <2> QED BY <2>1
<1>11. NeedsPin => \E row \in PinRows : row.dest = EndpointKey /\ row.pin /\ row.outcome = outcome
  BY <1>7
<1>12. Rows = PinRows \cup CandidateRows
  BY <1>3 DEF Rows
<1>13. outcome \in {"EndpointPinned", "EndpointPinMissing"} /\ (outcome = "EndpointPinned" <=> pinned)
  BY <1>6
<1>14. \A row \in Rows :
         \/ ~row.pin /\ \E r \in Tunnels : row.dest = Key(r) /\ row.outcome = Outcome(r)
         \/ /\ row.pin /\ row.dest = EndpointKey
            /\ row.outcome = "EndpointPinMissing"
                 \/ (row.outcome = "EndpointPinned" /\ \E r \in Owned : r.via # "tunnel")
  BY <1>5, <1>8, <1>9, <1>12, <1>13
<1>15. NeedsPin => \E row \in Rows : /\ row.dest = EndpointKey /\ row.pin
                                     /\ row.outcome \in {"EndpointPinned", "EndpointPinMissing"}
                                     /\ row.outcome = "EndpointPinned" <=> \E r \in Owned : r.via # "tunnel"
  <2>1. SUFFICES ASSUME NeedsPin
                 PROVE  \E row \in Rows : /\ row.dest = EndpointKey /\ row.pin
                                          /\ row.outcome \in {"EndpointPinned", "EndpointPinMissing"}
                                          /\ row.outcome = "EndpointPinned" <=> \E r \in Owned : r.via # "tunnel"
    OBVIOUS
  <2>2. PICK row \in Rows : row.dest = EndpointKey /\ row.pin /\ row.outcome = outcome
    BY <2>1, <1>11, <1>12
  <2>3. row.outcome = "EndpointPinned" <=> \E r \in Owned : r.via # "tunnel"
    BY <2>2, <1>5, <1>13
  <2> QED BY <2>2, <2>3, <1>13
<1> QED BY <1>10, <1>12, <1>14, <1>15

LEMMA OutcomeFacts ==
  ASSUME OneRoutePerPrefix, RoutesInv, NEW r \in Tunnels
  PROVE  /\ Outcome(r) = "Owned" => Held(Key(r))
         /\ r \in Owned => Outcome(r) = "Owned" \/ r \in FailedDeletes \/ pc # "up"
         /\ Outcome(r) \in {"ExcludedLocalSubnet", "LinkedStillTunneled", "ExcludedLinked", "Owned",
                            "OwnedAbsentFromKernel", "OwnedKernelDisagrees", "Blocked", "ReconcilePending"}
         /\ Outcome(r) = "LinkedStillTunneled" => StillTunneled(r)
         /\ Outcome(r) = "ExcludedLinked" => ~StillTunneled(r)
         /\ Outcome(r) = "ExcludedLocalSubnet" => InLocalSubnet(r.dest, seen.fp.subnets)
<1>1. RoutesTypeOK /\ config \in TunnelConfigs /\ seen.fp \in Fingerprint
  BY DEF RoutesInv, RoutesTypeOK
<1>2. Key(r) \in Keys
  BY <1>1, ConfigFacts DEF Tunnels
<1>3. PICK holder : holder = Entry(Kernel, Key(r))
  OBVIOUS
<1>4. PICK local, linked, still, owns, blocked \in BOOLEAN :
        /\ local <=> InLocalSubnet(r.dest, seen.fp.subnets)
        /\ linked <=> ExcludedByLink(r.dest, seen.fp.subnets, AcceptedLinks)
        /\ still <=> StillTunneled(r)
        /\ owns <=> r \in Owned
        /\ blocked <=> holder \notin {NoRoute, "tunnel", "old"}
  <2>1. PICK local \in BOOLEAN : local <=> InLocalSubnet(r.dest, seen.fp.subnets)
    OBVIOUS
  <2>2. PICK linked \in BOOLEAN : linked <=> ExcludedByLink(r.dest, seen.fp.subnets, AcceptedLinks)
    OBVIOUS
  <2>3. PICK still \in BOOLEAN : still <=> StillTunneled(r)
    OBVIOUS
  <2>4. PICK owns \in BOOLEAN : owns <=> r \in Owned
    OBVIOUS
  <2>5. PICK blocked \in BOOLEAN : blocked <=> holder \notin {NoRoute, "tunnel", "old"}
    OBVIOUS
  <2> QED BY <2>1, <2>2, <2>3, <2>4, <2>5
<1>5. Outcome(r) =
        IF local THEN "ExcludedLocalSubnet"
        ELSE IF linked THEN IF still THEN "LinkedStillTunneled" ELSE "ExcludedLinked"
        ELSE IF owns THEN IF holder = "tunnel" THEN "Owned"
                          ELSE IF holder = NoRoute THEN "OwnedAbsentFromKernel" ELSE "OwnedKernelDisagrees"
        ELSE IF blocked THEN "Blocked" ELSE "ReconcilePending"
  <2>1. (CASE holder = "tunnel" -> "Owned" [] holder = NoRoute -> "OwnedAbsentFromKernel"
           [] OTHER -> "OwnedKernelDisagrees")
          = IF holder = "tunnel" THEN "Owned"
            ELSE IF holder = NoRoute THEN "OwnedAbsentFromKernel" ELSE "OwnedKernelDisagrees"
    BY Owners
  <2> QED BY <2>1, <1>3, <1>4 DEF Outcome, Owns, Owned
<1>6. holder = "tunnel" => table[Key(r)] = "tunnel"
  BY <1>3, Owners DEF Entry, Kernel
<1>7. Outcome(r) = "Owned" => Held(Key(r))
  BY <1>5, <1>6 DEF Held
<1>8. ASSUME r \in Owned, r \notin FailedDeletes, pc = "up" PROVE Outcome(r) = "Owned"
  <2>1. r \in Wanted
    BY <1>8 DEF RoutesInv, UpKnown
  <2>2. r.via = "tunnel" /\ table[Key(r)] = "tunnel"
    BY <1>1, <1>8, HeldFacts, ConfigFacts DEF Tunnels
  <2>3. Tunnelled(r.dest, seen.fp.subnets, LinksOf[config])
    <3>1. ~(NeedsPin /\ seen.fp.gateway # NoRoute /\ r = Pin(seen.fp.gateway))
      BY <1>1, <2>2, SeenFacts DEF WantedPin
    <3> QED BY <3>1, <1>1, <2>1, DesiredFacts DEF Wanted
  <2>4. ~local /\ ~linked
    BY <2>3, <1>4 DEF Tunnelled, AcceptedLinks
  <2>5. holder = "tunnel"
    BY <2>2, <1>3, Owners DEF Entry, Kernel
  <2> QED BY <2>4, <2>5, <1>4, <1>5, <1>8
<1>9. /\ Outcome(r) = "LinkedStillTunneled" => StillTunneled(r)
      /\ Outcome(r) = "ExcludedLinked" => ~StillTunneled(r)
      /\ Outcome(r) = "ExcludedLocalSubnet" => InLocalSubnet(r.dest, seen.fp.subnets)
  BY <1>4, <1>5
<1>10. Outcome(r) \in {"ExcludedLocalSubnet", "LinkedStillTunneled", "ExcludedLinked", "Owned",
                       "OwnedAbsentFromKernel", "OwnedKernelDisagrees", "Blocked", "ReconcilePending"}
  BY <1>5
<1> QED BY <1>7, <1>8, <1>9, <1>10

LEMMA OverviewHolds ==
  ASSUME OneRoutePerPrefix, RoutesInv
  PROVE  OverviewIsTrue
<1>1. SUFFICES ASSUME pc = "up", ~errors
               PROVE  /\ {k \in Keys : Held(k)} = UNION {Told(outcome) : outcome \in Claims}
                      /\ \A key \in Told("LinkedStillTunneled") : Egress(key) = "tunnel"
                      /\ UpToDate /\ Sighted =>
                           \A key \in Told("ExcludedLocalSubnet") \cup Told("ExcludedLinked") : Egress(key) # "tunnel"
  BY DEF OverviewIsTrue, Collected
<1>2. RoutesTypeOK /\ config \in TunnelConfigs /\ FailedDeletes \subseteq Owned
  BY <1>1 DEF RoutesInv, RoutesTypeOK, FailuresKnown
<1>3. EndpointKey \in Keys /\ \A r \in Tunnels : Key(r) \in Keys
  BY <1>2, OurRouteFacts, ConfigFacts DEF Tunnels
<1>4. \A row \in Rows : Removal(row) => row.dest \in Keys /\ Held(row.dest)
  <2>1. ASSUME NEW row \in Rows, Removal(row) PROVE row.dest \in Keys /\ Held(row.dest)
    <3>1. PICK f \in failing : f.op = "Delete" /\ Key(f.route) = row.dest
      BY <2>1 DEF Removal
    <3>2. f.route \in FailedDeletes
      BY <3>1, <1>2, FailureFacts
    <3> QED BY <3>1, <3>2, <1>2, HeldFacts
  <2> QED BY <2>1
<1>5. ASSUME NEW outcome \in Claims, NEW key \in Told(outcome) PROVE key \in Keys /\ Held(key)
  <2>1. PICK row \in Rows : row.dest = key /\ (Removal(row) \/ row.outcome = outcome)
    BY ToldFacts
  <2>2. CASE Removal(row)
    BY <2>1, <2>2, <1>4
  <2>3. CASE row.outcome = outcome /\ ~row.pin
    <3>1. PICK r \in Tunnels : row.dest = Key(r) /\ row.outcome = Outcome(r)
      BY <2>3, RowFacts
    <3>2. Outcome(r) = "Owned"
      BY <3>1, <2>3, OutcomeFacts DEF Claims
    <3> QED BY <3>1, <3>2, <2>1, <1>3, OutcomeFacts
  <2>4. CASE row.outcome = outcome /\ row.pin
    <3>1. row.dest = EndpointKey /\ \E r \in Owned : r.via # "tunnel"
      <4>1. outcome # "EndpointPinMissing"
        BY DEF Claims
      <4> QED BY <4>1, <2>4, RowFacts
    <3> QED BY <3>1, <2>1, HeldFacts
  <2> QED BY <2>1, <2>2, <2>3, <2>4
<1>6. ASSUME NEW k \in Keys, Held(k) PROVE \E outcome \in Claims : k \in Told(outcome)
  <2>0. "Owned" \in Claims /\ "EndpointPinned" \in Claims /\ "RemovalFailed" \in Claims
    BY DEF Claims
  <2>1. PICK r \in Owned : Key(r) = k /\ table[k] = r.via
    BY <1>1, <1>6, HeldFacts
  <2>2. CASE r.via = "tunnel"
    <3>1. r \in Tunnels
      BY <2>2, HeldFacts
    <3>2. PICK row \in Rows : row.dest = k /\ ~row.pin /\ row.outcome = Outcome(r)
      BY <2>1, <3>1, RowFacts
    <3>3. r \in FailedDeletes => Removal(row)
      BY <2>1, <3>2 DEF FailedDeletes, Removal
    <3>4. CASE Removal(row)
      BY <3>2, <3>4, <2>0, ToldFacts
    <3>5. CASE ~Removal(row)
      <4>1. row.outcome = "Owned"
        BY <3>1, <3>2, <3>3, <3>5, <1>1, OutcomeFacts
      <4> QED BY <4>1, <3>2, <3>5, <2>0, ToldFacts
    <3> QED BY <3>4, <3>5
  <2>3. CASE r.via # "tunnel"
    <3>1. NeedsPin /\ k = EndpointKey
      BY <2>1, <2>3, HeldFacts
    <3>2. PICK row \in Rows : row.dest = k /\ row.outcome = "EndpointPinned"
      BY <3>1, <2>3, RowFacts
    <3> QED BY <3>2, <2>0, ToldFacts
  <2> QED BY <2>2, <2>3
<1>7. {k \in Keys : Held(k)} = UNION {Told(outcome) : outcome \in Claims}
  BY <1>5, <1>6
<1>8. ASSUME NEW key, NEW outcome \in {"LinkedStillTunneled", "ExcludedLocalSubnet", "ExcludedLinked"},
             key \in Told(outcome)
      PROVE  \E r \in Tunnels : key = Key(r) /\ Outcome(r) = outcome
  <2>1. PICK row \in Rows : row.dest = key /\ row.outcome = outcome
    BY <1>8, ToldFacts
  <2>2. ~row.pin
    BY <2>1, RowFacts
  <2> QED BY <2>1, <2>2, RowFacts
<1>9. ASSUME NEW key \in Told("LinkedStillTunneled") PROVE Egress(key) = "tunnel"
  <2>1. PICK r \in Tunnels : key = Key(r) /\ Outcome(r) = "LinkedStillTunneled"
    BY <1>8
  <2>2. Egress(key) = "tunnel" \/ (Egress(key) = NoRoute /\ r \in Owned)
    BY <2>1, OutcomeFacts DEF StillTunneled, Owns, Owned
  <2>3. ASSUME r \in Owned PROVE Egress(key) # NoRoute
    <3>1. key \in Keys /\ key \in Networks
      BY <2>1, <1>3, KeysAre
    <3>2. SubnetContains(key, key)
      BY <3>1, DefaultContainsAll
    <3>3. Held(key)
      BY <2>1, <2>3, HeldFacts
    <3>4. Entry(Kernel, key) # NoRoute
      BY <3>3, Owners DEF Held, Entry, Kernel
    <3> QED BY <3>1, <3>2, <3>4, <1>2, EgressFacts, Owners
  <2> QED BY <2>2, <2>3
<1>10. ASSUME UpToDate, Sighted, NEW key \in Told("ExcludedLocalSubnet") \cup Told("ExcludedLinked")
       PROVE  Egress(key) # "tunnel"
  <2>1. CASE key \in Told("ExcludedLinked")
    <3>1. PICK r \in Tunnels : key = Key(r) /\ Outcome(r) = "ExcludedLinked"
      BY <2>1, <1>8
    <3> QED BY <3>1, OutcomeFacts DEF StillTunneled
  <2>2. CASE key \in Told("ExcludedLocalSubnet")
    <3>1. PICK r \in Tunnels : key = Key(r) /\ Outcome(r) = "ExcludedLocalSubnet"
      BY <2>2, <1>8
    <3>2. InLocalSubnet(r.dest, network.subnets)
      BY <3>1, <1>10, OutcomeFacts DEF UpToDate, Current
    <3>3. PICK s \in network.subnets : SubnetContains(s, key)
      BY <3>1, <3>2 DEF InLocalSubnet, Key
    <3>4. s \in Keys /\ s \in Networks /\ key \in Networks /\ SubnetContains(s, s)
      BY <3>1, <1>2, <1>3, NetworkFacts, KeysAre
    <3>5. \A k \in Keys : table[k] = "tunnel" => ~SubnetContains(s, k)
      <4>1. SUFFICES ASSUME NEW k \in Keys, table[k] = "tunnel", SubnetContains(s, k) PROVE FALSE
        OBVIOUS
      <4>2. PICK q \in Tunnels : Key(q) = k /\ Tunnelled(q.dest, network.subnets, LinksOf[config])
        BY <4>1, <1>10, CurrentlyWanted
      <4> QED BY <4>1, <4>2 DEF Tunnelled, InLocalSubnet, Key
    <3>6. Entry(Kernel, s) # NoRoute
      <4>1. \/ table[s] \in {"en0", "old", "tunnel"}
            \/ table[s] = NoRoute /\ s \in scoped
        BY <1>10 DEF RoutesInv, KernelKnown, Attached
      <4> QED BY <4>1, Owners DEF Entry, Kernel
    <3>7. PICK k \in Keys : /\ SubnetContains(k, key) /\ s.len <= k.len /\ Entry(Kernel, k) # NoRoute
                            /\ Egress(key) = IF Entry(Kernel, k) \in Gateways THEN "en0" ELSE Entry(Kernel, k)
      BY <3>3, <3>4, <3>6, <1>2, EgressFacts
    <3>8. SubnetContains(s, k)
      <4>1. k \in Networks
        BY KeysAre
      <4> QED BY <4>1, <3>3, <3>4, <3>7, SharedAddress
    <3>9. Entry(Kernel, k) # "tunnel"
      BY <3>5, <3>8, Owners DEF Entry, Kernel
    <3> QED BY <3>7, <3>9
  <2> QED BY <1>10, <2>1, <2>2
<1> QED BY <1>7, <1>9, <1>10


(* routes_added is what the kernel has of the tunnel, from the first route *)
(* of configure_network_macos to the last delete of cleanup_network_macos: *)
(* whatever commands fail, wherever the Mac goes in between and whatever is*)
(* retried, add_macos_route never claims an entry that is another's and    *)
(* del_macos_route never forgets one that is still there.                  *)
THEOREM LedgerAgrees == ASSUME OneRoutePerPrefix PROVE RoutesSpec => []LedgerInv
<1>1. RoutesInv => LedgerInv
  BY LedgerHolds
<1> QED BY <1>1, RoutesInvariant, PTL

(* What macos_desired_routes, the pin that comes first and                 *)
(* macos_route_excluded_by_link promise of the kernel's table itself: no   *)
(* entry takes the endpoint while it is not pinned, unless that is going to*)
(* be tried again, and on a network that was seen none takes an address of *)
(* an attached LAN's bypass prefixes.                                      *)
THEOREM NothingIsCaptured == ASSUME OneRoutePerPrefix PROVE RoutesSpec => []NotCaptured
<1>1. RoutesInv => NotCaptured
  BY NothingCaptured
<1> QED BY <1>1, RoutesInvariant, PTL

(* The rows of macos_route_overview_rows with mark_failed_route_removals:  *)
(* what `wgd status` says the tunnel has is what the kernel has, whatever  *)
(* failed in the last pass, and what it calls excluded is.                 *)
THEOREM OverviewTellsTheTruth == ASSUME OneRoutePerPrefix PROVE RoutesSpec => []OverviewIsTrue
<1>1. RoutesInv => OverviewIsTrue
  BY OverviewHolds
<1> QED BY <1>1, RoutesInvariant, PTL
=============================================================================
