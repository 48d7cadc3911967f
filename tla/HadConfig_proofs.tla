--------------------------- MODULE HadConfig_proofs ---------------------------
(***************************************************************************)
(* Proofs about the interfaces and virtual addresses of a profile          *)
(* (HadConfig).                                                            *)
(***************************************************************************)
EXTENDS HadConfig, FiniteSetTheorems, WellFoundedInduction, TLAPS

-----------------------------------------------------------------------------
(* Natural numbers: least elements, and induction with the set of the       *)
(* numbers reached.                                                         *)

\* A set of natural numbers that is not empty has a least element.
LEMMA Least ==
    ASSUME NEW T, T \subseteq Nat, T # {}
    PROVE  \E x \in T : \A y \in T : x <= y
<1> DEFINE R == OpToRel(<, Nat)
<1>1. IsWellFoundedOn(R, Nat)
  BY NatLessThanWellFounded
<1>2. \A x, y \in Nat : y < x => <<y, x>> \in R
  BY DEF OpToRel
<1> HIDE DEF R
<1>3. PICK x \in T : \A y \in T : ~(<<y, x>> \in R)
  BY <1>1, WFMin
<1>4. ASSUME NEW y \in T PROVE x <= y
  <2>1. x \in Nat /\ y \in Nat
    OBVIOUS
  <2>2. ~(y < x)
    BY <1>2, <1>3, <2>1
  <2> QED BY <2>1, <2>2
<1> QED BY <1>4

\* A set with 0 and the successor of every number in it has all numbers.
LEMMA SetInduction ==
    ASSUME NEW S, 0 \in S, \A n \in Nat : n \in S => n + 1 \in S
    PROVE  Nat \subseteq S
<1> SUFFICES ASSUME Nat \ S # {} PROVE FALSE
  OBVIOUS
<1>1. PICK x \in Nat \ S : \A y \in Nat \ S : x <= y
  BY Least
<1>2. x - 1 \in Nat
  OBVIOUS
<1>3. x - 1 \in S
  BY <1>1, <1>2
<1>4. (x - 1) + 1 \in S
  BY <1>2, <1>3
<1> QED BY <1>4

\* Induction up to N
LEMMA BoundedInduction ==
    ASSUME NEW N \in Nat, NEW G, 0 \in G,
           \A n \in 0 .. N - 1 : n \in G => n + 1 \in G
    PROVE  0 .. N \subseteq G
<1> DEFINE H == {n \in Nat : n <= N => n \in G}
<1>1. 0 \in H
  OBVIOUS
<1>2. ASSUME NEW n \in Nat, n \in H PROVE n + 1 \in H
  <2>1. ASSUME n + 1 <= N PROVE n + 1 \in G
    BY <1>2, <2>1
  <2> QED BY <2>1
<1> HIDE DEF H
<1>3. Nat \subseteq H
  BY <1>1, <1>2, SetInduction
<1> USE DEF H
<1> QED BY <1>3

\* What holds of the first value of a run of N steps, and is kept by every
\* step, holds of all.
LEMMA RunInvariant ==
    ASSUME NEW N \in Nat, NEW r, NEW S, r[0] \in S,
           \A n \in 0 .. N - 1 : r[n] \in S => r[n + 1] \in S
    PROVE  \A n \in 0 .. N : r[n] \in S
<1> DEFINE G == {n \in 0 .. N : r[n] \in S}
<1>1. 0 \in G
  OBVIOUS
<1>2. \A n \in 0 .. N - 1 : n \in G => n + 1 \in G
  OBVIOUS
<1> HIDE DEF G
<1>3. 0 .. N \subseteq G
  BY <1>1, <1>2, BoundedInduction
<1> QED BY <1>3 DEF G

\* r is what iterating the functions F[0], F[1], ... makes of p.
IsRun(r, p, F, N) ==
    r[0] = p /\ \A n \in 0 .. N - 1 : r[n + 1] = F[n][r[n]]

\* Iterating functions of a set P into itself defines a run in P.
LEMMA RunExists ==
    ASSUME NEW P, NEW N \in Nat, NEW p \in P, NEW F \in [0 .. N - 1 -> [P -> P]]
    PROVE  \E r \in [0 .. N -> P] : IsRun(r, p, F, N)
<1> DEFINE Run(m, r) ==
             r[0] = p /\ \A n \in 0 .. m - 1 : r[n + 1] = F[n][r[n]]
           G == {m \in Nat : m <= N => \E r \in [0 .. m -> P] : Run(m, r)}
<1>1. 0 \in G
  <2>1. [n \in 0 .. 0 |-> p] \in [0 .. 0 -> P] /\ Run(0, [n \in 0 .. 0 |-> p])
    OBVIOUS
  <2> QED BY <2>1
<1>2. ASSUME NEW m \in Nat, m \in G PROVE m + 1 \in G
  <2> SUFFICES ASSUME m + 1 <= N
               PROVE  \E r \in [0 .. m + 1 -> P] : Run(m + 1, r)
    OBVIOUS
  <2>1. PICK r \in [0 .. m -> P] : Run(m, r)
    BY <1>2
  <2> DEFINE u == [n \in 0 .. m + 1 |-> IF n = m + 1 THEN F[m][r[m]] ELSE r[n]]
  <2>2. r[m] \in P /\ F[m] \in [P -> P]
    OBVIOUS
  <2>3. u \in [0 .. m + 1 -> P]
    BY <2>2
  <2>4. u[0] = p
    BY <2>1
  <2>5. ASSUME NEW n \in 0 .. m PROVE u[n + 1] = F[n][u[n]]
    <3>1. CASE n = m
      BY <3>1
    <3>2. CASE n # m
      <4>1. n \in 0 .. m - 1 /\ n + 1 # m + 1 /\ n + 1 \in 0 .. m + 1
        BY <3>2
      <4> QED BY <2>1, <4>1
    <3> QED BY <3>1, <3>2
  <2> HIDE DEF u
  <2>6. Run(m + 1, u)
    <3>1. (m + 1) - 1 = m
      OBVIOUS
    <3> QED BY <2>4, <2>5, <3>1
  <2> QED BY <2>3, <2>6
<1> HIDE DEF G
<1>3. Nat \subseteq G
  BY <1>1, <1>2, SetInduction
<1> USE DEF G
<1>4. N \in G
  BY <1>3
<1>5. N <= N
  OBVIOUS
<1> USE DEF G
<1> QED BY <1>4, <1>5 DEF IsRun

-----------------------------------------------------------------------------
(* The tables and the kernel's addresses while had_ipaddr_ops works on them *)

Field == {"v4", "ll", "gl"}
Addr  == If \X (Vip \cup V6 \cup {NoMask})

\* The pairs had_ipaddr_ops works on: a position that is set has a name.
Pairs ==
    {p \in [tab : [Kind -> Table], inst : SUBSET Addr] :
       \A k \in Kind : \A n \in Slot :
          p.tab[k].slot[n].set => p.tab[k].slot[n].name # None}

\* Two positions, two tables that differ only in what is deletable
SameSlot(s, u) ==
    /\ s.set = u.set /\ s.name = u.name
    /\ s.v4 = u.v4 /\ s.ll = u.ll /\ s.gl = u.gl

SameTable(t, u) ==
    /\ t.flag = u.flag /\ t.n4 = u.n4 /\ t.n6 = u.n6
    /\ \A n \in Slot : SameSlot(t.slot[n], u.slot[n])

\* q differs from p at most in what is deletable of link type k.
Near(p, q, k) ==
    /\ \A j \in Kind : SameTable(p.tab[j], q.tab[j])
    /\ \A j \in Kind : j # k => q.tab[j] = p.tab[j]

\* What had_ipaddr_op makes of p for address f of a position: it keeps the
\* types, and changes no table but in the mark of that address.
OpEffect(p, q, k, n, f, add) ==
    LET s == p.tab[k].slot[n]
        a == <<s.name, s[f]>>
    IN  /\ q \in Pairs
        /\ q.inst = IF add THEN p.inst \cup {a} ELSE p.inst \ {a}
        /\ Near(p, q, k)
        /\ \A m \in Slot : m # n => q.tab[k].slot[m] = p.tab[k].slot[m]
        /\ k # "VGATEWAY" /\ (add <=> a \notin p.inst)
             => f \in q.tab[k].slot[n].del
        /\ \A g \in Field : g # f =>
             (g \in q.tab[k].slot[n].del <=> g \in p.tab[k].slot[n].del)

\* had_ipaddr_op on an address of a position with a name has this effect.
LEMMA IpaddrOp ==
    ASSUME NEW p \in Pairs, NEW k \in Kind, NEW n \in Slot, NEW f \in Field,
           NEW add \in BOOLEAN,
           p.tab[k].slot[n].name # None, p.tab[k].slot[n][f] # None
    PROVE  OpEffect(p, ipaddr_op(p, k, n, f, add), k, n, f, add)
<1> DEFINE s  == p.tab[k].slot[n]
           a  == <<s.name, s[f]>>
           q  == ipaddr_op(p, k, n, f, add)
           ok == add <=> a \notin p.inst
           d  == IF ok THEN s.del \cup {f} ELSE s.del \ {f}
<1>1. /\ p.tab \in [Kind -> Table] /\ p.inst \in SUBSET Addr
      /\ p.tab[k] \in Table /\ p.tab[k].slot \in [Slot -> SlotState]
      /\ s \in SlotState
  BY DEF Pairs, Table
<1>2. a \in Addr
  <2>1. s.name \in If
    BY <1>1 DEF SlotState
  <2>2. s[f] \in Vip \cup V6 \cup {NoMask}
    BY <1>1 DEF SlotState, Field
  <2> QED BY <2>1, <2>2 DEF Addr
<1>3. d \in SUBSET Field
  BY <1>1 DEF SlotState, Field
<1>4. /\ q.tab = IF k = "VGATEWAY" THEN p.tab
                 ELSE [p.tab EXCEPT ![k].slot[n].del = d]
      /\ q.inst = IF ~ok THEN p.inst
                  ELSE IF add THEN p.inst \cup {a} ELSE p.inst \ {a}
      /\ q = [tab |-> q.tab, inst |-> q.inst]
  BY DEF ipaddr_op
<1>5. q.inst = IF add THEN p.inst \cup {a} ELSE p.inst \ {a}
  BY <1>4
<1>6. q.inst \in SUBSET Addr
  BY <1>1, <1>2, <1>5
<1> DEFINE v == [s EXCEPT !.del = d]
           t == [p.tab[k] EXCEPT !.slot = [p.tab[k].slot EXCEPT ![n] = v]]
<1>7. v \in SlotState /\ SameSlot(s, v) /\ v.del = d
  BY <1>1, <1>3 DEF SlotState, SameSlot, Field
<1>8. CASE k = "VGATEWAY"
  BY <1>1, <1>4, <1>5, <1>6, <1>8 DEF Pairs, Near, SameTable, SameSlot, OpEffect
<1>9. CASE k # "VGATEWAY"
  <2>1. q.tab = [p.tab EXCEPT ![k] = t]
    BY <1>1, <1>4, <1>9
  <2> HIDE DEF v
  <2>2. /\ t \in Table /\ t.slot[n] = v /\ t.flag = p.tab[k].flag
        /\ t.n4 = p.tab[k].n4 /\ t.n6 = p.tab[k].n6
        /\ \A m \in Slot : m # n => t.slot[m] = p.tab[k].slot[m]
    BY <1>1, <1>7 DEF Table
  <2> HIDE DEF t
  <2>3. /\ q.tab \in [Kind -> Table] /\ q.tab[k] = t
        /\ \A j \in Kind : j # k => q.tab[j] = p.tab[j]
    BY <1>1, <2>1, <2>2
  <2> HIDE DEF q
  <2>4. \A j \in Kind : SameTable(p.tab[j], q.tab[j])
    BY <1>7, <2>2, <2>3 DEF SameTable, SameSlot
  <2>5. q \in Pairs
    <3>1. q \in [tab : [Kind -> Table], inst : SUBSET Addr]
      BY <1>4, <1>6, <2>3
    <3> QED BY <2>4, <3>1 DEF Pairs, SameTable, SameSlot
  <2>6. /\ Near(p, q, k)
        /\ \A m \in Slot : m # n => q.tab[k].slot[m] = p.tab[k].slot[m]
    BY <2>2, <2>3, <2>4 DEF Near
  <2>7. q.tab[k].slot[n].del = d
    BY <1>7, <2>2, <2>3
  <2>8. ok => f \in q.tab[k].slot[n].del
    BY <2>7
  <2>9. \A g \in Field : g # f =>
          (g \in q.tab[k].slot[n].del <=> g \in p.tab[k].slot[n].del)
    BY <2>7
  <2> USE DEF q
  <2> QED BY <1>5, <2>5, <2>6, <2>8, <2>9 DEF OpEffect
<1> QED BY <1>8, <1>9

\* One step of the loop over the IPv4 addresses: the address of the position
\* is added or deleted when it is due, and one really added to a link is marked.
V4Effect(p, q, k, n, add) ==
    LET s == p.tab[k].slot[n]
        a == <<s.name, s.v4>>
    IN  /\ q \in Pairs
        /\ Near(p, q, k)
        /\ \A m \in Slot : m # n => q.tab[k].slot[m] = p.tab[k].slot[m]
        /\ q.inst = IF s.set /\ Due(s, k, "v4", add)
                    THEN IF add THEN p.inst \cup {a} ELSE p.inst \ {a}
                    ELSE p.inst
        /\ add /\ s.set /\ s.v4 # None /\ k # "VGATEWAY" /\ a \notin p.inst
             => "v4" \in q.tab[k].slot[n].del

\* had_ipaddr_ops at one IPv4 position: what its effect predicate says.
LEMMA OpsV4 ==
    ASSUME NEW p \in Pairs, NEW k \in Kind, NEW n \in Slot, NEW add \in BOOLEAN
    PROVE  V4Effect(p, ops_v4(p, k, n, add), k, n, add)
<1> DEFINE s == p.tab[k].slot[n]
           a == <<s.name, s.v4>>
           q == ops_v4(p, k, n, add)
           r == ipaddr_op(p, k, n, "v4", add)
<1>1. CASE s.set /\ Due(s, k, "v4", add)
  <2>1. q = r
    BY <1>1 DEF ops_v4
  <2>2. s.name # None
    BY <1>1 DEF Pairs
  <2>3. s["v4"] # None /\ s["v4"] = s.v4
    BY <1>1 DEF Due
  <2>4. OpEffect(p, r, k, n, "v4", add)
    <3>1. "v4" \in Field
      BY DEF Field
    <3> QED BY <2>2, <2>3, <3>1, IpaddrOp
  <2> HIDE DEF r
  <2> QED BY <1>1, <2>1, <2>3, <2>4 DEF OpEffect, V4Effect
<1>2. CASE ~(s.set /\ Due(s, k, "v4", add))
  <2>1. q = p
    BY <1>2 DEF ops_v4
  <2>2. ~(add /\ s.set /\ s.v4 # None)
    BY <1>2 DEF Due
  <2> HIDE DEF q
  <2>3. Near(p, q, k)
    BY <2>1 DEF Near, SameTable, SameSlot
  <2> USE DEF q
  <2> QED BY <1>2, <2>1, <2>2, <2>3 DEF V4Effect
<1> QED BY <1>1, <1>2

\* One step of the loop over the IPv6 addresses: a position without one is
\* passed over, and addresses are only added, or only deleted.
V6Effect(p, q, k, n, add) ==
    /\ q \in Pairs
    /\ Near(p, q, k)
    /\ IF add THEN p.inst \subseteq q.inst ELSE q.inst \subseteq p.inst
    /\ p.tab[k].slot[n].ll = None => q = p

\* had_ipaddr_ops at one IPv6 position: what its effect predicate says.
LEMMA OpsV6 ==
    ASSUME NEW p \in Pairs, NEW k \in Kind, NEW n \in Slot, NEW add \in BOOLEAN
    PROVE  V6Effect(p, ops_v6(p, k, n, add), k, n, add)
<1> DEFINE s == p.tab[k].slot[n]
           q == ipaddr_op(p, k, n, "ll", add)
           r == ipaddr_op(q, k, n, "gl", add)
           On == IF k = "VGATEWAY" THEN s.set ELSE s.name # None
<1>1. Near(p, p, k)
  BY DEF Near, SameTable, SameSlot
<1>2. CASE ~On \/ ~Due(s, k, "ll", add)
  <2>1. ops_v6(p, k, n, add) = p
    BY <1>2 DEF ops_v6
  <2> QED BY <1>1, <2>1 DEF V6Effect
<1>3. CASE On /\ Due(s, k, "ll", add)
  <2>1. s.name # None
    BY <1>3 DEF Pairs
  <2>2. s["ll"] # None /\ s["ll"] = s.ll
    BY <1>3 DEF Due
  <2>3. "ll" \in Field /\ "gl" \in Field
    BY DEF Field
  <2>4. OpEffect(p, q, k, n, "ll", add)
    BY <2>1, <2>2, <2>3, IpaddrOp
  <2> HIDE DEF q
  <2>5. /\ q \in Pairs /\ Near(p, q, k)
        /\ IF add THEN p.inst \subseteq q.inst ELSE q.inst \subseteq p.inst
    BY <2>4 DEF OpEffect
  <2>6. CASE Due(s, k, "gl", add)
    <3>1. SameSlot(s, q.tab[k].slot[n])
      BY <2>5 DEF Near, SameTable
    <3>2. s["gl"] # None /\ s["gl"] = s.gl
      BY <2>6 DEF Due
    <3>3. q.tab[k].slot[n].name # None /\ q.tab[k].slot[n]["gl"] # None
      BY <2>1, <3>1, <3>2 DEF SameSlot
    <3>4. OpEffect(q, r, k, n, "gl", add)
      BY <2>3, <2>5, <3>3, IpaddrOp
    <3>5. ops_v6(p, k, n, add) = r
      BY <1>3, <2>6 DEF ops_v6, q
    <3> HIDE DEF r
    <3>6. /\ r \in Pairs /\ Near(q, r, k)
          /\ IF add THEN q.inst \subseteq r.inst ELSE r.inst \subseteq q.inst
      BY <3>4 DEF OpEffect
    <3>7. Near(p, r, k)
      BY <2>5, <3>6 DEF Near, SameTable, SameSlot
    <3>8. IF add THEN p.inst \subseteq r.inst ELSE r.inst \subseteq p.inst
      BY <2>5, <3>6
    <3> QED BY <2>2, <3>5, <3>6, <3>7, <3>8 DEF V6Effect
  <2>7. CASE ~Due(s, k, "gl", add)
    <3>1. ops_v6(p, k, n, add) = q
      BY <1>3, <2>7 DEF ops_v6, q
    <3> QED BY <2>2, <2>5, <3>1 DEF V6Effect
  <2> QED BY <2>6, <2>7
<1> QED BY <1>2, <1>3

\* The loop over the IPv4 addresses of a link type is a run of its steps.
LEMMA PassV4 ==
    ASSUME NEW p \in Pairs, NEW k \in Kind, NEW add \in BOOLEAN
    PROVE  \E r \in [0 .. VRRP_LINK_MAX_CNT -> Pairs] :
             /\ r[0] = p
             /\ \A n \in Slot : V4Effect(r[n], r[n + 1], k, n, add)
             /\ pass_v4(p, k, add) = r[VRRP_LINK_MAX_CNT]
<1> DEFINE N == VRRP_LINK_MAX_CNT
           D(g) == [n \in 0 .. N |-> IF n = 0 THEN p
                                     ELSE ops_v4(g[n - 1], k, n - 1, add)]
           F == [n \in 0 .. N - 1 |-> [x \in Pairs |-> ops_v4(x, k, n, add)]]
           v == CHOOSE g : g = D(g)
<1>0. N \in Nat /\ Slot = 0 .. N - 1
  BY MaxAssumption DEF Slot
<1>1. \A n \in 0 .. N - 1 : \A x \in Pairs : ops_v4(x, k, n, add) \in Pairs
  BY <1>0, OpsV4 DEF V4Effect
<1>2. F \in [0 .. N - 1 -> [Pairs -> Pairs]]
  BY <1>1
<1>3. \A n \in 0 .. N - 1 : \A x \in Pairs : F[n][x] = ops_v4(x, k, n, add)
  OBVIOUS
<1> HIDE DEF F
<1>4. PICK u \in [0 .. N -> Pairs] : IsRun(u, p, F, N)
  BY <1>0, <1>2, RunExists
<1>5. u[0] = p /\ \A n \in 0 .. N - 1 : u[n + 1] = ops_v4(u[n], k, n, add)
  BY <1>0, <1>3, <1>4 DEF IsRun
<1>6. u = D(u)
  <2>1. ASSUME NEW n \in 0 .. N
        PROVE  u[n] = IF n = 0 THEN p ELSE ops_v4(u[n - 1], k, n - 1, add)
    <3>1. CASE n = 0
      BY <1>5, <3>1
    <3>2. CASE n # 0
      <4>1. n - 1 \in 0 .. N - 1 /\ (n - 1) + 1 = n
        BY <1>0, <3>2
      <4> QED BY <1>5, <3>2, <4>1
    <3> QED BY <3>1, <3>2
  <2> QED BY <2>1
<1>7. v = D(v)
  BY <1>6
<1>8. pass_v4(p, k, add) = v[N]
  BY DEF pass_v4
<1> HIDE DEF v
<1>9. v[0] = p /\ \A n \in 0 .. N - 1 : v[n + 1] = ops_v4(v[n], k, n, add)
  <2>1. v[0] = p
    BY <1>0, <1>7
  <2>2. ASSUME NEW n \in 0 .. N - 1
        PROVE  v[n + 1] = ops_v4(v[n], k, n, add)
    <3>1. n + 1 \in 0 .. N /\ n + 1 # 0 /\ (n + 1) - 1 = n
      BY <1>0
    <3> QED BY <1>7, <3>1
  <2> QED BY <2>1, <2>2
<1>10. \A n \in 0 .. N : v[n] \in Pairs
  BY <1>0, <1>1, <1>9, RunInvariant
<1>11. v \in [0 .. N -> Pairs]
  BY <1>7, <1>10
<1>12. \A n \in Slot : V4Effect(v[n], v[n + 1], k, n, add)
  <2>1. \A n \in Slot : n \in 0 .. N - 1 /\ n \in 0 .. N
    BY <1>0
  <2> QED BY <1>9, <1>10, <2>1, OpsV4
<1> QED BY <1>8, <1>9, <1>11, <1>12

\* The loop over the IPv6 addresses of a link type is a run of its steps.
LEMMA PassV6 ==
    ASSUME NEW p \in Pairs, NEW k \in Kind, NEW add \in BOOLEAN
    PROVE  \E r \in [0 .. VRRP_LINK_MAX_CNT -> Pairs] :
             /\ r[0] = p
             /\ \A n \in Slot : V6Effect(r[n], r[n + 1], k, n, add)
             /\ pass_v6(p, k, add) = r[VRRP_LINK_MAX_CNT]
<1> DEFINE N == VRRP_LINK_MAX_CNT
           D(g) == [n \in 0 .. N |-> IF n = 0 THEN p
                                     ELSE ops_v6(g[n - 1], k, n - 1, add)]
           F == [n \in 0 .. N - 1 |-> [x \in Pairs |-> ops_v6(x, k, n, add)]]
           v == CHOOSE g : g = D(g)
<1>0. N \in Nat /\ Slot = 0 .. N - 1
  BY MaxAssumption DEF Slot
<1>1. \A n \in 0 .. N - 1 : \A x \in Pairs : ops_v6(x, k, n, add) \in Pairs
  BY <1>0, OpsV6 DEF V6Effect
<1>2. F \in [0 .. N - 1 -> [Pairs -> Pairs]]
  BY <1>1
<1>3. \A n \in 0 .. N - 1 : \A x \in Pairs : F[n][x] = ops_v6(x, k, n, add)
  OBVIOUS
<1> HIDE DEF F
<1>4. PICK u \in [0 .. N -> Pairs] : IsRun(u, p, F, N)
  BY <1>0, <1>2, RunExists
<1>5. u[0] = p /\ \A n \in 0 .. N - 1 : u[n + 1] = ops_v6(u[n], k, n, add)
  BY <1>0, <1>3, <1>4 DEF IsRun
<1>6. u = D(u)
  <2>1. ASSUME NEW n \in 0 .. N
        PROVE  u[n] = IF n = 0 THEN p ELSE ops_v6(u[n - 1], k, n - 1, add)
    <3>1. CASE n = 0
      BY <1>5, <3>1
    <3>2. CASE n # 0
      <4>1. n - 1 \in 0 .. N - 1 /\ (n - 1) + 1 = n
        BY <1>0, <3>2
      <4> QED BY <1>5, <3>2, <4>1
    <3> QED BY <3>1, <3>2
  <2> QED BY <2>1
<1>7. v = D(v)
  BY <1>6
<1>8. pass_v6(p, k, add) = v[N]
  BY DEF pass_v6
<1> HIDE DEF v
<1>9. v[0] = p /\ \A n \in 0 .. N - 1 : v[n + 1] = ops_v6(v[n], k, n, add)
  <2>1. v[0] = p
    BY <1>0, <1>7
  <2>2. ASSUME NEW n \in 0 .. N - 1
        PROVE  v[n + 1] = ops_v6(v[n], k, n, add)
    <3>1. n + 1 \in 0 .. N /\ n + 1 # 0 /\ (n + 1) - 1 = n
      BY <1>0
    <3> QED BY <1>7, <3>1
  <2> QED BY <2>1, <2>2
<1>10. \A n \in 0 .. N : v[n] \in Pairs
  BY <1>0, <1>1, <1>9, RunInvariant
<1>11. v \in [0 .. N -> Pairs]
  BY <1>7, <1>10
<1>12. \A n \in Slot : V6Effect(v[n], v[n + 1], k, n, add)
  <2>1. \A n \in Slot : n \in 0 .. N - 1 /\ n \in 0 .. N
    BY <1>0
  <2> QED BY <1>9, <1>10, <2>1, OpsV6
<1> QED BY <1>8, <1>9, <1>11, <1>12

-----------------------------------------------------------------------------
(* One link type *)

\* Address a was installed for a position that will have it removed.
Owns(s, k, a) ==
    /\ s.set /\ s.v4 # None /\ a = <<s.name, s.v4>>
    /\ k = "VGATEWAY" \/ "v4" \in s.del

\* Every table stays the same but for the marks of link type k, and addresses
\* are only added, or only deleted.
LinkEffect(p, q, k, add) ==
    /\ q \in Pairs
    /\ Near(p, q, k)
    /\ IF add THEN p.inst \subseteq q.inst ELSE q.inst \subseteq p.inst

\* Adding: all IPv4 addresses of the link are there, and what is new is owned
\* by one of its positions.
Adds(p, q, k) ==
    /\ \A n \in Slot : LET s == p.tab[k].slot[n]
                       IN  s.set /\ s.v4 # None => <<s.name, s.v4>> \in q.inst
    /\ \A a \in q.inst \ p.inst : \E n \in Slot : Owns(q.tab[k].slot[n], k, a)

\* Deleting: what a position of the link owned is gone.
Deletes(p, q, k) ==
    \A n \in Slot : \A a \in q.inst : ~Owns(p.tab[k].slot[n], k, a)

\* Doing nothing is an effect on a link type.
LEMMA LinkEffectRefl == \A p \in Pairs : \A k, add : LinkEffect(p, p, k, add)
BY DEF LinkEffect, Near, SameTable, SameSlot

\* Two passes over a link type, both adding or both deleting, are one.
LEMMA LinkEffectTrans ==
    ASSUME NEW p, NEW q, NEW r, NEW k, NEW add \in BOOLEAN,
           LinkEffect(p, q, k, add), LinkEffect(q, r, k, add)
    PROVE  LinkEffect(p, r, k, add)
<1>1. Near(p, r, k)
  BY DEF LinkEffect, Near, SameTable, SameSlot
<1> QED BY <1>1 DEF LinkEffect

\* The IPv4 loop, all its steps
LEMMA PassV4Effect ==
    ASSUME NEW p \in Pairs, NEW k \in Kind, NEW add \in BOOLEAN
    PROVE  LET q == pass_v4(p, k, add)
           IN  /\ LinkEffect(p, q, k, add)
               /\ add => Adds(p, q, k)
               /\ ~add => Deletes(p, q, k)
<1> DEFINE N == VRRP_LINK_MAX_CNT
<1>0. N \in Nat /\ Slot = 0 .. N - 1
  BY MaxAssumption DEF Slot
<1>1. PICK r \in [0 .. N -> Pairs] :
        /\ r[0] = p
        /\ \A n \in Slot : V4Effect(r[n], r[n + 1], k, n, add)
        /\ pass_v4(p, k, add) = r[N]
  BY PassV4
<1>2. \A n \in 0 .. N - 1 : /\ V4Effect(r[n], r[n + 1], k, n, add)
                            /\ LinkEffect(r[n], r[n + 1], k, add)
  <2> SUFFICES ASSUME NEW n \in 0 .. N - 1
               PROVE  /\ V4Effect(r[n], r[n + 1], k, n, add)
                      /\ LinkEffect(r[n], r[n + 1], k, add)
    OBVIOUS
  <2>1. V4Effect(r[n], r[n + 1], k, n, add)
    BY <1>0, <1>1
  <2> QED BY <2>1 DEF V4Effect, LinkEffect
<1>3. \A n \in 0 .. N : LinkEffect(p, r[n], k, add)
  <2> DEFINE S == {q \in Pairs : LinkEffect(p, q, k, add)}
  <2>1. r[0] \in S
    BY <1>1, LinkEffectRefl
  <2>2. ASSUME NEW n \in 0 .. N - 1, r[n] \in S PROVE r[n + 1] \in S
    <3>1. LinkEffect(p, r[n + 1], k, add)
      BY <1>2, <2>2, LinkEffectTrans
    <3> QED BY <3>1 DEF LinkEffect
  <2> HIDE DEF S
  <2>3. \A n \in 0 .. N : r[n] \in S
    BY <1>0, <2>1, <2>2, RunInvariant
  <2> QED BY <2>3 DEF S
<1>4. \A n \in 0 .. N : \A m \in Slot :
        SameSlot(p.tab[k].slot[m], r[n].tab[k].slot[m])
  BY <1>3 DEF LinkEffect, Near, SameTable
<1>5. ASSUME add, NEW m \in Slot,
             p.tab[k].slot[m].set, p.tab[k].slot[m].v4 # None
      PROVE  <<p.tab[k].slot[m].name, p.tab[k].slot[m].v4>> \in r[N].inst
  <2> DEFINE a == <<p.tab[k].slot[m].name, p.tab[k].slot[m].v4>>
             G == {n \in 0 .. N : n > m => a \in r[n].inst}
  <2>0. m \in 0 .. N /\ m \in 0 .. N - 1
    BY <1>0
  <2>1. 0 \in G
    BY <1>0
  <2>2. ASSUME NEW n \in 0 .. N - 1, n \in G PROVE n + 1 \in G
    <3>1. CASE n > m
      <4>1. a \in r[n].inst
        BY <2>2, <3>1
      <4>2. r[n].inst \subseteq r[n + 1].inst
        BY <1>2, <1>5 DEF LinkEffect
      <4> QED BY <1>0, <4>1, <4>2
    <3>2. CASE n = m
      <4>1. SameSlot(p.tab[k].slot[m], r[n].tab[k].slot[m])
        BY <1>4, <2>0, <3>2
      <4>2. Due(r[n].tab[k].slot[m], k, "v4", add)
        BY <1>5, <4>1 DEF SameSlot, Due
      <4>3. a \in r[n + 1].inst
        BY <1>2, <1>5, <3>2, <4>1, <4>2 DEF V4Effect, SameSlot
      <4> QED BY <1>0, <4>3
    <3>3. CASE n < m
      BY <1>0, <3>3
    <3> QED BY <1>0, <3>1, <3>2, <3>3
  <2> HIDE DEF G
  <2>3. 0 .. N \subseteq G
    BY <1>0, <2>1, <2>2, BoundedInduction
  <2> QED BY <1>0, <2>3 DEF G
<1>6. ASSUME add, NEW a \in r[N].inst \ p.inst
      PROVE  \E m \in Slot : Owns(r[N].tab[k].slot[m], k, a)
  <2> DEFINE G == {n \in 0 .. N :
                     a \in r[n].inst =>
                       \E m \in Slot : m < n /\ Owns(r[n].tab[k].slot[m], k, a)}
  <2>1. 0 \in G
    BY <1>0, <1>1, <1>6
  <2>2. ASSUME NEW n \in 0 .. N - 1, n \in G PROVE n + 1 \in G
    <3> DEFINE s == r[n].tab[k].slot[n]
    <3> SUFFICES ASSUME a \in r[n + 1].inst
                 PROVE  \E m \in Slot :
                          m < n + 1 /\ Owns(r[n + 1].tab[k].slot[m], k, a)
      BY <1>0
    <3>1. V4Effect(r[n], r[n + 1], k, n, add)
      BY <1>2
    <3>2. CASE a \in r[n].inst
      <4>1. PICK m \in Slot : m < n /\ Owns(r[n].tab[k].slot[m], k, a)
        BY <2>2, <3>2
      <4>2. m # n /\ m < n + 1
        BY <1>0, <4>1
      <4>3. r[n + 1].tab[k].slot[m] = r[n].tab[k].slot[m]
        BY <3>1, <4>2 DEF V4Effect
      <4> QED BY <4>1, <4>2, <4>3
    <3>3. CASE a \notin r[n].inst
      <4>1. s.set /\ Due(s, k, "v4", add) /\ a = <<s.name, s.v4>>
        BY <1>6, <3>1, <3>3 DEF V4Effect
      <4>2. s.v4 # None
        BY <4>1 DEF Due
      <4>3. k # "VGATEWAY" => "v4" \in r[n + 1].tab[k].slot[n].del
        BY <1>6, <3>1, <3>3, <4>1, <4>2 DEF V4Effect
      <4>4. n \in Slot /\ n < n + 1
        BY <1>0
      <4>5. SameSlot(s, r[n + 1].tab[k].slot[n])
        BY <3>1, <4>4 DEF V4Effect, Near, SameTable
      <4>6. Owns(r[n + 1].tab[k].slot[n], k, a)
        BY <4>1, <4>2, <4>3, <4>5 DEF Owns, SameSlot
      <4> QED BY <4>4, <4>6
    <3> QED BY <3>2, <3>3
  <2> HIDE DEF G
  <2>3. 0 .. N \subseteq G
    BY <1>0, <2>1, <2>2, BoundedInduction
  <2>4. N \in 0 .. N
    BY <1>0
  <2> QED BY <1>6, <2>3, <2>4 DEF G
<1>7. ASSUME ~add, NEW m \in Slot, NEW a, Owns(p.tab[k].slot[m], k, a)
      PROVE  a \notin r[N].inst
  <2> DEFINE G == {n \in 0 .. N :
                     IF n <= m THEN r[n].tab[k].slot[m] = p.tab[k].slot[m]
                     ELSE a \notin r[n].inst}
  <2>1. 0 \in G
    BY <1>0, <1>1
  <2>2. ASSUME NEW n \in 0 .. N - 1, n \in G PROVE n + 1 \in G
    <3>1. V4Effect(r[n], r[n + 1], k, n, add)
      BY <1>2
    <3>2. CASE n < m
      <4>1. n + 1 <= m /\ n <= m /\ n # m
        BY <1>0, <3>2
      <4>2. r[n + 1].tab[k].slot[m] = r[n].tab[k].slot[m]
        BY <3>1, <4>1 DEF V4Effect
      <4> QED BY <1>0, <2>2, <4>1, <4>2
    <3>3. CASE n = m
      <4>1. n <= m /\ ~(n + 1 <= m)
        BY <1>0, <3>3
      <4>2. r[n].tab[k].slot[m] = p.tab[k].slot[m]
        BY <2>2, <4>1
      <4>3. /\ Due(p.tab[k].slot[m], k, "v4", add) /\ p.tab[k].slot[m].set
            /\ a = <<p.tab[k].slot[m].name, p.tab[k].slot[m].v4>>
        BY <1>7 DEF Owns, Due
      <4>4. a \notin r[n + 1].inst
        BY <1>7, <3>1, <3>3, <4>2, <4>3 DEF V4Effect
      <4> QED BY <1>0, <4>1, <4>4
    <3>4. CASE n > m
      <4>1. ~(n <= m) /\ ~(n + 1 <= m)
        BY <1>0, <3>4
      <4>2. a \notin r[n + 1].inst
        BY <1>2, <1>7, <2>2, <4>1 DEF LinkEffect
      <4> QED BY <1>0, <4>1, <4>2
    <3> QED BY <1>0, <3>2, <3>3, <3>4
  <2> HIDE DEF G
  <2>3. 0 .. N \subseteq G
    BY <1>0, <2>1, <2>2, BoundedInduction
  <2>4. N \in 0 .. N /\ ~(N <= m)
    BY <1>0
  <2> QED BY <2>3, <2>4 DEF G
<1>8. LinkEffect(p, r[N], k, add)
  BY <1>0, <1>3
<1>9. add => Adds(p, r[N], k)
  BY <1>5, <1>6 DEF Adds
<1>10. ~add => Deletes(p, r[N], k)
  BY <1>7 DEF Deletes
<1> QED BY <1>1, <1>8, <1>9, <1>10

\* The IPv6 loop only adds or only deletes, and does nothing on a link without
\* IPv6 addresses.
LEMMA PassV6Effect ==
    ASSUME NEW p \in Pairs, NEW k \in Kind, NEW add \in BOOLEAN
    PROVE  LET q == pass_v6(p, k, add)
           IN  /\ LinkEffect(p, q, k, add)
               /\ (\A n \in Slot : p.tab[k].slot[n].ll = None) => q = p
<1> DEFINE N == VRRP_LINK_MAX_CNT
<1>0. N \in Nat /\ Slot = 0 .. N - 1
  BY MaxAssumption DEF Slot
<1>1. PICK r \in [0 .. N -> Pairs] :
        /\ r[0] = p
        /\ \A n \in Slot : V6Effect(r[n], r[n + 1], k, n, add)
        /\ pass_v6(p, k, add) = r[N]
  BY PassV6
<1>2. ASSUME NEW n \in 0 .. N - 1
      PROVE  /\ V6Effect(r[n], r[n + 1], k, n, add)
             /\ LinkEffect(r[n], r[n + 1], k, add)
  <2>1. V6Effect(r[n], r[n + 1], k, n, add)
    BY <1>0, <1>1
  <2> QED BY <2>1 DEF V6Effect, LinkEffect
<1>3. \A n \in 0 .. N : LinkEffect(p, r[n], k, add)
  <2> DEFINE S == {q \in Pairs : LinkEffect(p, q, k, add)}
  <2>1. r[0] \in S
    BY <1>1, LinkEffectRefl
  <2>2. ASSUME NEW n \in 0 .. N - 1, r[n] \in S PROVE r[n + 1] \in S
    <3>1. LinkEffect(p, r[n + 1], k, add)
      BY <1>2, <2>2, LinkEffectTrans
    <3> QED BY <3>1 DEF LinkEffect
  <2> HIDE DEF S
  <2>3. \A n \in 0 .. N : r[n] \in S
    BY <1>0, <2>1, <2>2, RunInvariant
  <2> QED BY <2>3 DEF S
<1>4. ASSUME \A n \in Slot : p.tab[k].slot[n].ll = None
      PROVE  r[N] = p
  <2> DEFINE S == {p}
  <2>1. r[0] \in S
    BY <1>1
  <2>2. \A n \in 0 .. N - 1 : r[n] \in S => r[n + 1] \in S
    BY <1>0, <1>2, <1>4 DEF V6Effect
  <2> HIDE DEF S
  <2>3. \A n \in 0 .. N : r[n] \in S
    BY <1>0, <2>1, <2>2, RunInvariant
  <2> QED BY <1>0, <2>3 DEF S
<1>5. LinkEffect(p, r[N], k, add)
  BY <1>0, <1>3
<1> QED BY <1>1, <1>4, <1>5

\* had_ipaddr_ops on one link type; one that is not looked at, or whose flag
\* is not set, is left as it is.
LEMMA OpsLink ==
    ASSUME NEW p \in Pairs, NEW k, NEW add \in BOOLEAN
    PROVE  LinkEffect(p, ops_link(p, k, add), k, add)
<1>1. CASE k \notin Kind \/ ~p.tab[k].flag
  BY <1>1, LinkEffectRefl DEF ops_link
<1>2. CASE k \in Kind /\ p.tab[k].flag
  <2> DEFINE q == pass_v4(p, k, add)
  <2>1. LinkEffect(p, q, k, add)
    BY <1>2, PassV4Effect
  <2>2. q \in Pairs
    BY <2>1 DEF LinkEffect
  <2>3. LinkEffect(q, pass_v6(q, k, add), k, add)
    BY <1>2, <2>2, PassV6Effect
  <2>4. ops_link(p, k, add) = pass_v6(q, k, add)
    BY <1>2 DEF ops_link
  <2> HIDE DEF q
  <2> QED BY <2>1, <2>3, <2>4, LinkEffectTrans
<1> QED BY <1>1, <1>2

\* Adding installs every IPv4 address of a link whose flag is set.
LEMMA OpsLinkAdds ==
    ASSUME NEW p \in Pairs, NEW k \in Kind, p.tab[k].flag, NEW n \in Slot,
           p.tab[k].slot[n].set, p.tab[k].slot[n].v4 # None
    PROVE  <<p.tab[k].slot[n].name, p.tab[k].slot[n].v4>>
             \in ops_link(p, k, TRUE).inst
<1> DEFINE q == pass_v4(p, k, TRUE)
<1>1. LinkEffect(p, q, k, TRUE) /\ Adds(p, q, k)
  BY PassV4Effect
<1>2. q \in Pairs
  BY <1>1 DEF LinkEffect
<1>3. LinkEffect(q, pass_v6(q, k, TRUE), k, TRUE)
  BY <1>2, PassV6Effect
<1>4. ops_link(p, k, TRUE) = pass_v6(q, k, TRUE)
  BY DEF ops_link
<1> HIDE DEF q
<1>5. <<p.tab[k].slot[n].name, p.tab[k].slot[n].v4>> \in q.inst
  BY <1>1 DEF Adds
<1> QED BY <1>3, <1>4, <1>5 DEF LinkEffect

\* On a link without IPv6 addresses the IPv6 loop is as if it were not there.
LEMMA OpsLinkV4 ==
    ASSUME NEW p \in Pairs, NEW k \in Kind, NEW add \in BOOLEAN, p.tab[k].flag,
           \A n \in Slot : p.tab[k].slot[n].ll = None
    PROVE  ops_link(p, k, add) = pass_v4(p, k, add)
<1> DEFINE q == pass_v4(p, k, add)
<1>1. LinkEffect(p, q, k, add)
  BY PassV4Effect
<1>2. ops_link(p, k, add) = pass_v6(q, k, add)
  BY DEF ops_link
<1> HIDE DEF q
<1>3. q \in Pairs /\ \A n \in Slot : q.tab[k].slot[n].ll = None
  BY <1>1 DEF LinkEffect, Near, SameTable, SameSlot
<1>4. pass_v6(q, k, add) = q
  BY <1>3, PassV6Effect
<1> QED BY <1>2, <1>4 DEF q

-----------------------------------------------------------------------------
(* All link types *)

NoV6(T) == \A k \in Kind : \A n \in Slot : T[k].slot[n].ll = None
Covers(T) == \A k \in Kind : \A n \in Slot : T[k].slot[n].set => T[k].flag

Owned(T, a) == \E k \in Kind : \E n \in Slot : Owns(T[k].slot[n], k, a)

\* Every table stays the same but for the marks.
OpsEffect(p, q, add) ==
    /\ q \in Pairs
    /\ \A k \in Kind : SameTable(p.tab[k], q.tab[k])
    /\ IF add THEN p.inst \subseteq q.inst ELSE q.inst \subseteq p.inst

\* Doing nothing is an effect on all link types.
LEMMA OpsEffectRefl == \A p \in Pairs : \A add : OpsEffect(p, p, add)
BY DEF OpsEffect, SameTable, SameSlot

\* Two passes over the link types, both adding or both deleting, are one.
LEMMA OpsEffectTrans ==
    ASSUME NEW p, NEW q, NEW r, NEW add \in BOOLEAN,
           OpsEffect(p, q, add), OpsEffect(q, r, add)
    PROVE  OpsEffect(p, r, add)
BY DEF OpsEffect, SameTable, SameSlot

\* An effect on one link type is an effect on all of them.
LEMMA LinkIsOps ==
    ASSUME NEW p, NEW q, NEW k, NEW add, LinkEffect(p, q, k, add)
    PROVE  OpsEffect(p, q, add)
BY DEF LinkEffect, OpsEffect, Near

\* had_ipaddr_ops: the three link types one after the other.  Stage names the
\* pairs between them.
Stage(p, add) ==
    LET u == ops_link(p, "UPLINK", add)
        d == ops_link(u, "DOWNLINK", add)
    IN  <<p, u, d, ops_link(d, "VGATEWAY", add)>>

Links == <<"UPLINK", "DOWNLINK", "VGATEWAY">>

\* had_ipaddr_ops as its three stages, one per link type in the code's order;
\* the tables stay the same throughout but for the marks.
LEMMA Stages ==
    ASSUME NEW p \in Pairs, NEW add \in BOOLEAN
    PROVE  LET s == Stage(p, add)
           IN  /\ s[1] = p /\ s[4] = ipaddr_ops(p, add)
               /\ \A i \in 1 .. 4 : s[i] \in Pairs /\ OpsEffect(p, s[i], add)
               /\ \A i \in 1 .. 3 : /\ s[i + 1] = ops_link(s[i], Links[i], add)
                                    /\ LinkEffect(s[i], s[i + 1], Links[i], add)
               /\ \A i \in 1 .. 4 : OpsEffect(s[i], s[4], add)
<1> DEFINE u == ops_link(p, "UPLINK", add)
           d == ops_link(u, "DOWNLINK", add)
           g == ops_link(d, "VGATEWAY", add)
<1>1. LinkEffect(p, u, "UPLINK", add)
  BY OpsLink
<1>2. u \in Pairs /\ OpsEffect(p, u, add)
  BY <1>1, LinkIsOps DEF LinkEffect
<1>3. LinkEffect(u, d, "DOWNLINK", add)
  BY <1>2, OpsLink
<1>4. d \in Pairs /\ OpsEffect(u, d, add)
  BY <1>3, LinkIsOps DEF LinkEffect
<1>5. LinkEffect(d, g, "VGATEWAY", add)
  BY <1>4, OpsLink
<1>6. g \in Pairs /\ OpsEffect(d, g, add)
  BY <1>5, LinkIsOps DEF LinkEffect
<1>7. Stage(p, add) = <<p, u, d, g>> /\ ipaddr_ops(p, add) = g
  BY DEF Stage, ipaddr_ops
<1>8. Links[1] = "UPLINK" /\ Links[2] = "DOWNLINK" /\ Links[3] = "VGATEWAY"
  BY DEF Links
<1>11. u = ops_link(p, "UPLINK", add) /\ d = ops_link(u, "DOWNLINK", add)
       /\ g = ops_link(d, "VGATEWAY", add)
  OBVIOUS
<1> HIDE DEF u, d, g
<1>9. /\ OpsEffect(p, p, add) /\ OpsEffect(p, d, add) /\ OpsEffect(p, g, add)
      /\ OpsEffect(u, g, add) /\ OpsEffect(g, g, add)
  BY <1>2, <1>4, <1>6, OpsEffectRefl, OpsEffectTrans
<1> DEFINE s == Stage(p, add)
<1>10. s[1] = p /\ s[2] = u /\ s[3] = d /\ s[4] = g
  BY <1>7
<1> HIDE DEF s
<1>12. \A i \in 1 .. 4 : i = 1 \/ i = 2 \/ i = 3 \/ i = 4
  OBVIOUS
<1>13. \A i \in 1 .. 4 : s[i] \in Pairs /\ OpsEffect(p, s[i], add)
  BY <1>2, <1>4, <1>6, <1>9, <1>10, <1>12
<1>14. \A i \in 1 .. 3 : /\ s[i + 1] = ops_link(s[i], Links[i], add)
                         /\ LinkEffect(s[i], s[i + 1], Links[i], add)
  <2> SUFFICES ASSUME NEW i \in 1 .. 3
               PROVE  /\ s[i + 1] = ops_link(s[i], Links[i], add)
                      /\ LinkEffect(s[i], s[i + 1], Links[i], add)
    OBVIOUS
  <2>1. CASE i = 1
    BY <1>1, <1>8, <1>10, <1>11, <2>1
  <2>2. CASE i = 2
    BY <1>3, <1>8, <1>10, <1>11, <2>2
  <2>3. CASE i = 3
    BY <1>5, <1>8, <1>10, <1>11, <2>3
  <2> QED BY <2>1, <2>2, <2>3
<1>15. \A i \in 1 .. 4 : OpsEffect(s[i], s[4], add)
  BY <1>6, <1>9, <1>10, <1>12
<1> QED BY <1>7, <1>10, <1>13, <1>14, <1>15 DEF s

\* Every link type has its turn.
LEMMA LinkTurn ==
    /\ \A k \in Kind : \E i \in 1 .. 3 : Links[i] = k
    /\ \A i, j \in 1 .. 3 : i # j => Links[i] # Links[j]
BY KindAssumption DEF Links

\* What had_ipaddr_ops does as a whole.
LEMMA OpsAll ==
    ASSUME NEW p \in Pairs, NEW add \in BOOLEAN
    PROVE  OpsEffect(p, ipaddr_ops(p, add), add)
<1>1. 4 \in 1 .. 4
  OBVIOUS
<1> QED BY <1>1, Stages

\* had_ipaddr_ops adds every IPv4 address of the tables.
LEMMA OpsAddAll ==
    ASSUME NEW p \in Pairs, Covers(p.tab), NEW k \in Kind, NEW n \in Slot,
           p.tab[k].slot[n].set, p.tab[k].slot[n].v4 # None
    PROVE  <<p.tab[k].slot[n].name, p.tab[k].slot[n].v4>>
             \in ipaddr_ops(p, TRUE).inst
<1> DEFINE s == Stage(p, TRUE)
<1>1. PICK i \in 1 .. 3 : Links[i] = k
  BY LinkTurn
<1>2. /\ s[4] = ipaddr_ops(p, TRUE)
      /\ \A j \in 1 .. 4 : s[j] \in Pairs /\ OpsEffect(p, s[j], TRUE)
      /\ \A j \in 1 .. 3 : s[j + 1] = ops_link(s[j], Links[j], TRUE)
      /\ \A j \in 1 .. 4 : OpsEffect(s[j], s[4], TRUE)
  BY Stages
<1> HIDE DEF s
<1>3. i \in 1 .. 4 /\ i + 1 \in 1 .. 4
  OBVIOUS
<1>4. SameTable(p.tab[k], s[i].tab[k])
  BY <1>2, <1>3 DEF OpsEffect
<1>5. /\ s[i].tab[k].flag /\ s[i].tab[k].slot[n].set
      /\ s[i].tab[k].slot[n].v4 = p.tab[k].slot[n].v4
      /\ s[i].tab[k].slot[n].name = p.tab[k].slot[n].name
  BY <1>4 DEF SameTable, SameSlot, Covers
<1>6. <<p.tab[k].slot[n].name, p.tab[k].slot[n].v4>>
        \in ops_link(s[i], k, TRUE).inst
  <2>1. s[i] \in Pairs
    BY <1>2, <1>3
  <2>2. s[i].tab[k].slot[n].v4 # None
    BY <1>5
  <2>3. <<s[i].tab[k].slot[n].name, s[i].tab[k].slot[n].v4>>
          \in ops_link(s[i], k, TRUE).inst
    BY <1>5, <2>1, <2>2, OpsLinkAdds
  <2> QED BY <1>5, <2>3
<1>7. s[i + 1].inst \subseteq s[4].inst
  BY <1>2, <1>3 DEF OpsEffect
<1> QED BY <1>1, <1>2, <1>6, <1>7

\* Without IPv6 addresses, whatever it added to a kernel that had no virtual
\* address is owned by a position.
LEMMA OpsOwned ==
    ASSUME NEW p \in Pairs, NoV6(p.tab), p.inst = {},
           NEW a \in ipaddr_ops(p, TRUE).inst
    PROVE  Owned(ipaddr_ops(p, TRUE).tab, a)
<1> DEFINE s == Stage(p, TRUE)
           B(i) == a \in s[i].inst =>
                     \E j \in 1 .. 3 : /\ j < i /\ Links[j] \in Kind
                                       /\ \E n \in Slot :
                                            Owns(s[i].tab[Links[j]].slot[n],
                                                 Links[j], a)
<1>1. /\ s[1] = p /\ s[4] = ipaddr_ops(p, TRUE)
      /\ \A j \in 1 .. 4 : s[j] \in Pairs /\ OpsEffect(p, s[j], TRUE)
      /\ \A j \in 1 .. 3 : /\ s[j + 1] = ops_link(s[j], Links[j], TRUE)
                           /\ LinkEffect(s[j], s[j + 1], Links[j], TRUE)
  BY Stages
<1> HIDE DEF s
<1>2. B(1)
  BY <1>1
<1>3. ASSUME NEW i \in 1 .. 3, B(i) PROVE B(i + 1)
  <2> DEFINE k == Links[i]
  <2> SUFFICES ASSUME a \in s[i + 1].inst
               PROVE  \E j \in 1 .. 3 : /\ j < i + 1 /\ Links[j] \in Kind
                                        /\ \E n \in Slot :
                                             Owns(s[i + 1].tab[Links[j]].slot[n],
                                                  Links[j], a)
    OBVIOUS
  <2>0. i \in 1 .. 4
    OBVIOUS
  <2>1. CASE a \in s[i].inst
    <3>1. PICK j \in 1 .. 3 : /\ j < i /\ Links[j] \in Kind
                              /\ \E n \in Slot :
                                   Owns(s[i].tab[Links[j]].slot[n], Links[j], a)
      BY <1>3, <2>1
    <3>2. Links[j] # Links[i] /\ j < i + 1
      BY <3>1, LinkTurn
    <3>3. s[i + 1].tab[Links[j]] = s[i].tab[Links[j]]
      BY <1>1, <3>1, <3>2 DEF LinkEffect, Near
    <3> QED BY <3>1, <3>2, <3>3
  <2>2. CASE a \notin s[i].inst
    <3>1. k \in Kind /\ s[i].tab[k].flag
      <4>1. s[i + 1] # s[i]
        BY <2>2
      <4> QED BY <1>1, <4>1 DEF ops_link
    <3>2. \A n \in Slot : s[i].tab[k].slot[n].ll = None
      <4>1. SameTable(p.tab[k], s[i].tab[k])
        BY <1>1, <2>0, <3>1 DEF OpsEffect
      <4> QED BY <3>1, <4>1 DEF SameTable, SameSlot, NoV6
    <3>3. s[i + 1] = pass_v4(s[i], k, TRUE)
      BY <1>1, <2>0, <3>1, <3>2, OpsLinkV4
    <3>4. Adds(s[i], s[i + 1], k)
      BY <1>1, <2>0, <3>1, <3>3, PassV4Effect
    <3>5. \E n \in Slot : Owns(s[i + 1].tab[k].slot[n], k, a)
      BY <2>2, <3>4 DEF Adds
    <3>6. i < i + 1
      OBVIOUS
    <3> QED BY <3>1, <3>5, <3>6
  <2> QED BY <2>1, <2>2
<1>4. B(4)
  <2>1. B(2)
    BY <1>2, <1>3
  <2>2. B(3)
    BY <1>3, <2>1
  <2> QED BY <1>3, <2>2
<1> QED BY <1>1, <1>4 DEF Owned

\* And what is owned is removed.
LEMMA OpsGone ==
    ASSUME NEW p \in Pairs, NoV6(p.tab), Covers(p.tab),
           \A a \in p.inst : Owned(p.tab, a)
    PROVE  ipaddr_ops(p, FALSE).inst = {}
<1> DEFINE s == Stage(p, FALSE)
<1> SUFFICES ASSUME NEW a \in ipaddr_ops(p, FALSE).inst PROVE FALSE
  OBVIOUS
<1>1. /\ s[1] = p /\ s[4] = ipaddr_ops(p, FALSE)
      /\ \A j \in 1 .. 4 : s[j] \in Pairs /\ OpsEffect(p, s[j], FALSE)
      /\ \A j \in 1 .. 3 : /\ s[j + 1] = ops_link(s[j], Links[j], FALSE)
                           /\ LinkEffect(s[j], s[j + 1], Links[j], FALSE)
      /\ \A j \in 1 .. 4 : OpsEffect(s[j], s[4], FALSE)
  BY Stages
<1> HIDE DEF s
<1>2. a \in p.inst
  <2>1. 4 \in 1 .. 4
    OBVIOUS
  <2> QED BY <1>1, <2>1 DEF OpsEffect
<1>3. PICK k \in Kind : \E n \in Slot : Owns(p.tab[k].slot[n], k, a)
  BY <1>2 DEF Owned
<1>4. PICK n \in Slot : Owns(p.tab[k].slot[n], k, a)
  BY <1>3
<1>5. PICK i \in 1 .. 3 : Links[i] = k
  BY LinkTurn
<1>6. s[i].tab[k] = p.tab[k]
  <2>1. ASSUME NEW j \in 1 .. 3, j < i PROVE s[j + 1].tab[k] = s[j].tab[k]
    <3>1. Links[j] # k
      BY <1>5, <2>1, LinkTurn
    <3> QED BY <1>1, <3>1 DEF LinkEffect, Near
  <2>2. i = 1 \/ i = 2 \/ i = 3
    OBVIOUS
  <2>3. 1 < i => s[2].tab[k] = s[1].tab[k]
    BY <2>1
  <2>4. 2 < i => s[3].tab[k] = s[2].tab[k]
    BY <2>1
  <2> QED BY <1>1, <2>2, <2>3, <2>4
<1>7. i \in 1 .. 4 /\ i + 1 \in 1 .. 4
  OBVIOUS
<1>8. s[i].tab[k].flag /\ \A m \in Slot : s[i].tab[k].slot[m].ll = None
  BY <1>4, <1>6 DEF Covers, NoV6, Owns
<1>9. s[i + 1] = pass_v4(s[i], k, FALSE)
  BY <1>1, <1>5, <1>7, <1>8, OpsLinkV4
<1>10. Deletes(s[i], s[i + 1], k)
  BY <1>1, <1>7, <1>9, PassV4Effect
<1>11. a \notin s[i + 1].inst
  BY <1>4, <1>6, <1>10 DEF Deletes
<1>12. s[4].inst \subseteq s[i + 1].inst
  BY <1>1, <1>7 DEF OpsEffect
<1> QED BY <1>1, <1>11, <1>12

-----------------------------------------------------------------------------
(* One table *)

\* What every table is: a position that is set has a name and is covered by
\* the flag of its link, and neither a name nor an address is there twice, but for
\* the name that had_ipv6_start may have given to position 0.
Good(k, t) ==
    /\ t \in Table
    /\ \A n \in Slot : t.slot[n].set => t.slot[n].name # None /\ t.flag
    /\ \A m, n \in Slot : /\ t.slot[m].set /\ t.slot[n].set
                          /\ t.slot[m].name = t.slot[n].name
                          => m = n \/ (0 \in {m, n} /\ Renamed(k, t.slot[n].name))
    /\ \A m, n \in Slot : /\ t.slot[m].v4 = t.slot[n].v4
                          /\ t.slot[m].v4 \notin {None, NoMask}
                          => m = n

Values(f) == IF f = "v4" THEN Vip \cup {None, NoMask} ELSE V6 \cup {None}

\* The tables t and u agree outside position n.
Elsewhere(t, u, n) == \A m \in Slot : m # n => u.slot[m] = t.slot[m]

\* The positions of a link type's array.
LEMMA SlotFacts ==
    /\ 0 \in Slot /\ LastSlot \in Slot
    /\ Slot \subseteq Nat /\ -1 \notin Slot
    /\ Slot = 0 .. VRRP_LINK_MAX_CNT - 1
BY MaxAssumption DEF Slot, LastSlot

\* An array just cleared is well formed.
LEMMA EmptyGood == EmptyTable \in Table /\ \A k : Good(k, EmptyTable)
<1>1. EmptySlot \in SlotState
  BY DEF EmptySlot, SlotState
<1>2. EmptyTable \in Table
  BY <1>1 DEF EmptyTable, Table
<1>3. \A n \in Slot : EmptyTable.slot[n] = EmptySlot
  BY DEF EmptyTable
<1>4. EmptySlot.set = FALSE /\ EmptySlot.v4 = None
  BY DEF EmptySlot
<1> QED BY <1>2, <1>3, <1>4 DEF Good

\* Well-formedness does not depend on the marks.
LEMMA SameGood ==
    ASSUME NEW k, NEW t, NEW u \in Table, Good(k, t), SameTable(t, u)
    PROVE  Good(k, u)
BY DEF Good, SameTable, SameSlot

\* Put writes one address of one position.
LEMMA PutEffect ==
    ASSUME NEW t \in Table, NEW n \in Slot, NEW f \in Field,
           NEW a \in Values(f)
    PROVE  LET u == Put(t, n, f, a)
           IN  /\ u \in Table /\ Elsewhere(t, u, n)
               /\ u.flag = t.flag /\ u.n4 = t.n4 /\ u.n6 = t.n6
               /\ u.slot[n].set = t.slot[n].set
               /\ u.slot[n].name = t.slot[n].name
               /\ u.slot[n].v4 = IF f = "v4" THEN a ELSE t.slot[n].v4
               /\ u.slot[n].ll = IF f = "ll" THEN a ELSE t.slot[n].ll
               /\ u.slot[n].gl = IF f = "gl" THEN a ELSE t.slot[n].gl
<1> DEFINE s == t.slot[n]
           x == [s EXCEPT ![f] = a, !.del = s.del \ {f}]
           u == Put(t, n, f, a)
<1>1. t.slot \in [Slot -> SlotState] /\ s \in SlotState
  BY DEF Table
<1>2. /\ x \in SlotState /\ x.set = s.set /\ x.name = s.name
      /\ x.v4 = IF f = "v4" THEN a ELSE s.v4
      /\ x.ll = IF f = "ll" THEN a ELSE s.ll
      /\ x.gl = IF f = "gl" THEN a ELSE s.gl
  <2>1. CASE f = "v4"
    BY <1>1, <2>1 DEF SlotState, Values
  <2>2. CASE f = "ll"
    BY <1>1, <2>2 DEF SlotState, Values
  <2>3. CASE f = "gl"
    BY <1>1, <2>3 DEF SlotState, Values
  <2> QED BY <2>1, <2>2, <2>3 DEF Field
<1>3. u = [t EXCEPT !.slot = [t.slot EXCEPT ![n] = x]]
  <2>1. CASE f = "v4"
    BY <1>1, <2>1 DEF Put, Table, SlotState
  <2>2. CASE f = "ll"
    BY <1>1, <2>2 DEF Put, Table, SlotState
  <2>3. CASE f = "gl"
    BY <1>1, <2>3 DEF Put, Table, SlotState
  <2> QED BY <2>1, <2>2, <2>3 DEF Field
<1> HIDE DEF x, u
<1>4. /\ u \in Table /\ u.slot[n] = x /\ Elsewhere(t, u, n)
      /\ u.flag = t.flag /\ u.n4 = t.n4 /\ u.n6 = t.n6
  BY <1>1, <1>2, <1>3 DEF Table, Elsewhere
<1> QED BY <1>2, <1>4 DEF u

\* had_add_vip_to_linkvif writes the name, and on success the two flags.
LEMMA AddLinkEffect ==
    ASSUME NEW t \in Table, NEW n \in Slot, NEW i \in If, NEW ok \in BOOLEAN
    PROVE  LET u == add_to_linkvif(t, n, i, ok)
           IN  /\ u \in Table /\ Elsewhere(t, u, n)
               /\ u.flag = (ok \/ t.flag) /\ u.n4 = t.n4 /\ u.n6 = t.n6
               /\ u.slot[n].set = (ok \/ t.slot[n].set)
               /\ u.slot[n].name = i
               /\ u.slot[n].v4 = t.slot[n].v4
               /\ u.slot[n].ll = t.slot[n].ll
               /\ u.slot[n].gl = t.slot[n].gl
<1> DEFINE s == t.slot[n]
           x == [s EXCEPT !.set = ok \/ s.set, !.name = i]
           u == add_to_linkvif(t, n, i, ok)
<1>1. t.slot \in [Slot -> SlotState] /\ s \in SlotState
  BY DEF Table
<1>2. /\ x \in SlotState /\ x.set = (ok \/ s.set) /\ x.name = i
      /\ x.v4 = s.v4 /\ x.ll = s.ll /\ x.gl = s.gl
  BY <1>1 DEF SlotState
<1>3. u = [t EXCEPT !.flag = ok \/ t.flag, !.slot = [t.slot EXCEPT ![n] = x]]
  <2>1. CASE ok
    BY <1>1, <2>1 DEF add_to_linkvif, Table, SlotState
  <2>2. CASE ~ok
    BY <1>1, <2>2 DEF add_to_linkvif, Table, SlotState
  <2> QED BY <2>1, <2>2
<1> HIDE DEF x, u
<1>4. /\ u \in Table /\ u.slot[n] = x /\ Elsewhere(t, u, n)
      /\ u.flag = (ok \/ t.flag) /\ u.n4 = t.n4 /\ u.n6 = t.n6
  BY <1>1, <1>2, <1>3 DEF Table, Elsewhere
<1> QED BY <1>2, <1>4 DEF u

\* had_del_vip_from_linkvif gives a position without addresses back, and clears
\* the flag of a link without positions.
LEMMA DelLinkEffect ==
    ASSUME NEW t \in Table, NEW n \in Slot
    PROVE  LET u == del_from_linkvif(t, n)
               s == t.slot[n]
               e == s.v4 = None /\ s.ll = None /\ s.gl = None
           IN  /\ u \in Table /\ Elsewhere(t, u, n)
               /\ u.n4 = t.n4 /\ u.n6 = t.n6
               /\ u.flag = t.flag \/ \A m \in Slot : ~u.slot[m].set
               /\ u.slot[n].set = (~e /\ s.set)
               /\ u.slot[n].name = IF e THEN None ELSE s.name
               /\ u.slot[n].v4 = s.v4 /\ u.slot[n].ll = s.ll
               /\ u.slot[n].gl = s.gl
<1> DEFINE s == t.slot[n]
           e == s.v4 = None /\ s.ll = None /\ s.gl = None
           x == [s EXCEPT !.set = ~e /\ s.set, !.name = IF e THEN None ELSE s.name]
           v == [t EXCEPT !.slot = [t.slot EXCEPT ![n] = x]]
           w == IF e THEN [t EXCEPT !.slot[n].set = FALSE, !.slot[n].name = None]
                ELSE t
           u == del_from_linkvif(t, n)
<1>1. t.slot \in [Slot -> SlotState] /\ s \in SlotState
  BY DEF Table
<1>2. /\ x \in SlotState /\ x.set = (~e /\ s.set)
      /\ x.name = IF e THEN None ELSE s.name
      /\ x.v4 = s.v4 /\ x.ll = s.ll /\ x.gl = s.gl
  BY <1>1 DEF SlotState
<1>3. w = v
  <2>1. CASE e
    BY <1>1, <2>1 DEF Table, SlotState
  <2>2. CASE ~e
    <3>1. x = s
      BY <1>1, <2>2 DEF SlotState
    <3> HIDE DEF x
    <3> QED BY <1>1, <2>2, <3>1 DEF Table
  <2> QED BY <2>1, <2>2
<1>4. u = IF Unset(w) = Slot THEN [w EXCEPT !.flag = FALSE] ELSE w
  BY DEF del_from_linkvif
<1> HIDE DEF x, u, w
<1>5. /\ v \in Table /\ v.slot[n] = x /\ Elsewhere(t, v, n)
      /\ v.flag = t.flag /\ v.n4 = t.n4 /\ v.n6 = t.n6
  BY <1>1, <1>2 DEF Table, Elsewhere
<1> HIDE DEF v
<1>6. /\ u \in Table /\ u.slot = v.slot /\ u.n4 = v.n4 /\ u.n6 = v.n6
      /\ u.flag = v.flag \/ Unset(v) = Slot
  BY <1>3, <1>4, <1>5 DEF Table
<1>7. Elsewhere(t, u, n) /\ u.slot[n] = x
  BY <1>5, <1>6 DEF Elsewhere
<1>8. u.flag = t.flag \/ \A m \in Slot : ~u.slot[m].set
  BY <1>5, <1>6 DEF Unset
<1> QED BY <1>2, <1>5, <1>6, <1>7, <1>8 DEF u

\* u is t with the addresses of position n changed, and the counters.
Rewritten(t, u, n) ==
    /\ u \in Table /\ Elsewhere(t, u, n) /\ u.flag = t.flag
    /\ u.slot[n].set = t.slot[n].set /\ u.slot[n].name = t.slot[n].name

\* had_cfg_vlink_add_ipaddr writes one position's IPv4 address and counts it.
LEMMA AddIpaddrEffect ==
    ASSUME NEW t \in Table, NEW n \in Slot, NEW a \in Vip
    PROVE  LET u == add_ipaddr(t, n, a)
           IN  /\ Rewritten(t, u, n)
               /\ u.n4 = t.n4 + 1
               /\ u.slot[n].v4 = a /\ u.slot[n].ll = t.slot[n].ll
               /\ u.slot[n].gl = t.slot[n].gl
<1> DEFINE v == Put(t, n, "v4", a)
<1>1. "v4" \in Field /\ a \in Values("v4")
  BY DEF Field, Values
<1>2. /\ v \in Table /\ Elsewhere(t, v, n)
      /\ v.flag = t.flag /\ v.n4 = t.n4
      /\ v.slot[n].set = t.slot[n].set /\ v.slot[n].name = t.slot[n].name
      /\ v.slot[n].v4 = a /\ v.slot[n].ll = t.slot[n].ll
      /\ v.slot[n].gl = t.slot[n].gl
  BY <1>1, PutEffect
<1>3. add_ipaddr(t, n, a) = [v EXCEPT !.n4 = v.n4 + 1]
  BY DEF add_ipaddr
<1> HIDE DEF v
<1>4. v.n4 + 1 \in Int
  BY <1>2 DEF Table
<1> DEFINE u == add_ipaddr(t, n, a)
<1>5. u \in Table /\ u.slot = v.slot /\ u.flag = v.flag /\ u.n4 = v.n4 + 1
  BY <1>2, <1>3, <1>4 DEF Table
<1> HIDE DEF u
<1>6. Rewritten(t, u, n)
  BY <1>2, <1>5 DEF Rewritten, Elsewhere
<1> QED BY <1>2, <1>5, <1>6 DEF u

\* The deletion of an address clears it, and the count goes down for IPv4.
LEMMA DelAddrEffect ==
    ASSUME NEW t \in Table, NEW n \in Slot, NEW f \in Field
    PROVE  LET u == del_addr(t, n, f)
           IN  /\ Rewritten(t, u, n)
               /\ u.n4 = IF f = "v4" THEN t.n4 - 1 ELSE t.n4
               /\ u.slot[n].v4 = IF f = "v4" THEN None ELSE t.slot[n].v4
               /\ u.slot[n].ll = IF f = "ll" THEN None ELSE t.slot[n].ll
               /\ u.slot[n].gl = IF f = "gl" THEN None ELSE t.slot[n].gl
<1> DEFINE v == Put(t, n, f, None)
           u == del_addr(t, n, f)
<1>1. None \in Values(f)
  BY DEF Field, Values
<1>2. /\ v \in Table /\ Elsewhere(t, v, n)
      /\ v.flag = t.flag /\ v.n4 = t.n4
      /\ v.slot[n].set = t.slot[n].set /\ v.slot[n].name = t.slot[n].name
      /\ v.slot[n].v4 = IF f = "v4" THEN None ELSE t.slot[n].v4
      /\ v.slot[n].ll = IF f = "ll" THEN None ELSE t.slot[n].ll
      /\ v.slot[n].gl = IF f = "gl" THEN None ELSE t.slot[n].gl
  BY <1>1, PutEffect
<1>3. u = IF f = "v4" THEN [v EXCEPT !.n4 = v.n4 - 1]
          ELSE IF f = "ll" THEN [v EXCEPT !.n6 = v.n6 - 1] ELSE v
  BY DEF del_addr, del_ipaddr, del_ip6addr
<1> HIDE DEF v, u
<1>4. v.n4 - 1 \in Int /\ v.n6 - 1 \in Int
  BY <1>2 DEF Table
<1>5. /\ u \in Table /\ u.slot = v.slot /\ u.flag = v.flag
      /\ u.n4 = IF f = "v4" THEN v.n4 - 1 ELSE v.n4
  <2>1. CASE f = "v4"
    BY <1>2, <1>3, <1>4, <2>1 DEF Table
  <2>2. CASE f = "ll"
    BY <1>2, <1>3, <1>4, <2>2 DEF Table
  <2>3. CASE f = "gl"
    BY <1>2, <1>3, <2>3
  <2> QED BY <2>1, <2>2, <2>3 DEF Field
<1>6. Rewritten(t, u, n)
  BY <1>2, <1>5 DEF Rewritten, Elsewhere
<1> QED BY <1>2, <1>5, <1>6 DEF u

\* The addition of an IPv6 address leaves the IPv4 one of its position alone.
LEMMA AddIp6Effect ==
    ASSUME NEW t \in Table, NEW n \in Slot, NEW f \in {"ll", "gl"}, NEW a \in V6
    PROVE  LET u == add_ip6addr(t, n, f, a)
           IN  /\ Rewritten(t, u, n)
               /\ u.slot[n].v4 = t.slot[n].v4 /\ u.n4 = t.n4
<1> DEFINE v == Put(t, n, f, a)
           u == add_ip6addr(t, n, f, a)
<1>1. f \in Field /\ a \in Values(f)
  BY DEF Field, Values
<1>2. /\ v \in Table /\ Elsewhere(t, v, n) /\ v.flag = t.flag /\ v.n4 = t.n4
      /\ v.slot[n].set = t.slot[n].set /\ v.slot[n].name = t.slot[n].name
      /\ v.slot[n].v4 = IF f = "v4" THEN a ELSE t.slot[n].v4
  BY <1>1, PutEffect
<1>3. u = [v EXCEPT !.n6 = v.n6 + 1] \/ u = v \/ u = t
  BY DEF add_ip6addr
<1> HIDE DEF v, u
<1>4. v.n6 + 1 \in Int
  BY <1>2 DEF Table
<1>5. \/ u = t
      \/ u \in Table /\ u.slot = v.slot /\ u.flag = v.flag /\ u.n4 = v.n4
  BY <1>2, <1>3, <1>4 DEF Table
<1>6. Rewritten(t, u, n) /\ u.slot[n].v4 = t.slot[n].v4 /\ u.n4 = t.n4
  <2>1. CASE u = t
    BY <2>1 DEF Rewritten, Elsewhere
  <2>2. CASE u # t
    BY <1>2, <1>5, <2>2 DEF Rewritten, Elsewhere
  <2> QED BY <2>1, <2>2
<1> QED BY <1>6 DEF u

\* A table stays good when a position is given another address that is not in
\* the table, or a null one.
LEMMA RewrittenGood ==
    ASSUME NEW k, NEW t, NEW u, NEW n \in Slot, Good(k, t), Rewritten(t, u, n),
           \/ u.slot[n].v4 = t.slot[n].v4
           \/ u.slot[n].v4 \in {None, NoMask}
           \/ ~vip_exist(t, u.slot[n].v4)
    PROVE  Good(k, u)
<1>1. \A m \in Slot : /\ u.slot[m].set = t.slot[m].set
                      /\ u.slot[m].name = t.slot[m].name
  BY DEF Rewritten, Elsewhere
<1>2. \A m \in Slot : m # n => u.slot[m].v4 = t.slot[m].v4
  BY DEF Rewritten, Elsewhere
<1>3. \A l, m \in Slot : /\ u.slot[l].v4 = u.slot[m].v4
                         /\ u.slot[l].v4 \notin {None, NoMask}
                         => l = m
  BY <1>2 DEF Good, vip_exist
<1> QED BY <1>1, <1>3 DEF Good, Rewritten

\* had_add_vip_to_linkvif on a position of that interface or, when it has none,
\* on one that is not set
LEMMA AddLinkGood ==
    ASSUME NEW k, NEW t, NEW n \in Slot, NEW i \in If, NEW ok \in BOOLEAN,
           Good(k, t),
           n \in Named(t, i) \/ (Named(t, i) = {} /\ n \in Unset(t))
    PROVE  Good(k, add_to_linkvif(t, n, i, ok))
<1> DEFINE u == add_to_linkvif(t, n, i, ok)
<1>0. t \in Table
  BY DEF Good
<1>1. /\ u \in Table /\ Elsewhere(t, u, n)
      /\ u.flag = (ok \/ t.flag)
      /\ u.slot[n].set = (ok \/ t.slot[n].set)
      /\ u.slot[n].name = i
      /\ u.slot[n].v4 = t.slot[n].v4
  BY <1>0, AddLinkEffect
<1> HIDE DEF u
<1>2. \A m \in Slot : u.slot[m].v4 = t.slot[m].v4
  BY <1>1 DEF Elsewhere
<1>3. \A m \in Slot : m # n => u.slot[m] = t.slot[m]
  BY <1>1 DEF Elsewhere
<1>4. i # None
  BY NullAssumption
<1>5. \A m \in Slot : u.slot[m].set => u.slot[m].name # None /\ u.flag
  <2>1. u.slot[n].set => u.flag
    BY <1>0, <1>1 DEF Good, Table, SlotState
  <2>2. \A m \in Slot : m # n /\ u.slot[m].set => u.slot[m].name # None /\ u.flag
    BY <1>1, <1>3 DEF Good
  <2> QED BY <1>1, <1>4, <2>1, <2>2
<1>6. \A l, m \in Slot : /\ u.slot[l].set /\ u.slot[m].set
                         /\ u.slot[l].name = u.slot[m].name
                         => l = m \/ (0 \in {l, m} /\ Renamed(k, u.slot[m].name))
  <2>1. CASE n \in Named(t, i)
    <3>1. \A m \in Slot : u.slot[m].set = t.slot[m].set
                          /\ u.slot[m].name = t.slot[m].name
      BY <1>0, <1>1, <1>3, <2>1 DEF Named, Table, SlotState
    <3> QED BY <3>1 DEF Good
  <2>2. CASE Named(t, i) = {}
    <3>1. \A m \in Slot : t.slot[m].set => t.slot[m].name # i
      BY <2>2 DEF Named
    <3> QED BY <1>1, <1>3, <3>1 DEF Good
  <2> QED BY <2>1, <2>2
<1>7. Good(k, u)
  BY <1>1, <1>2, <1>5, <1>6 DEF Good
<1> QED BY <1>7 DEF u

\* had_del_vip_from_linkvif, which may clear the link's flag, leaves no set
\* position without it.
LEMMA DelLinkGood ==
    ASSUME NEW k, NEW t, NEW n \in Slot, Good(k, t)
    PROVE  Good(k, del_from_linkvif(t, n))
<1> DEFINE u == del_from_linkvif(t, n)
           s == t.slot[n]
           e == s.v4 = None /\ s.ll = None /\ s.gl = None
<1>0. t \in Table
  BY DEF Good
<1>1. /\ u \in Table /\ Elsewhere(t, u, n)
      /\ u.flag = t.flag \/ \A m \in Slot : ~u.slot[m].set
      /\ u.slot[n].set = (~e /\ s.set)
      /\ u.slot[n].name = IF e THEN None ELSE s.name
      /\ u.slot[n].v4 = s.v4
  BY <1>0, DelLinkEffect
<1> HIDE DEF u
<1>2. \A m \in Slot : u.slot[m].v4 = t.slot[m].v4
  BY <1>1 DEF Elsewhere
<1>3. \A m \in Slot : u.slot[m].set => /\ t.slot[m].set
                                       /\ u.slot[m].name = t.slot[m].name
  BY <1>1 DEF Elsewhere
<1>4. Good(k, u)
  BY <1>1, <1>2, <1>3 DEF Good
<1> QED BY <1>4 DEF u

\* had_get_link_index_by_ifname finds the position of the interface, or one
\* that is not set.
LEMMA Index ==
    ASSUME NEW t, NEW i
    PROVE  /\ Named(t, i) # {} => index(t, i) \in Named(t, i)
           /\ Named(t, i) = {} /\ index(t, i) # -1 => index(t, i) \in Unset(t)
<1>1. ASSUME NEW S, S \subseteq Slot, S # {} PROVE Min(S) \in S
  <2>1. S \subseteq Nat
    BY <1>1, SlotFacts
  <2>2. \E x \in S : \A y \in S : x <= y
    BY <1>1, <2>1, Least
  <2> QED BY <2>2 DEF Min
<1>2. Named(t, i) \subseteq Slot /\ Unset(t) \subseteq Slot
  BY DEF Named, Unset
<1>3. CASE Named(t, i) # {}
  BY <1>1, <1>2, <1>3 DEF index
<1>4. CASE Named(t, i) = {} /\ index(t, i) # -1
  BY <1>1, <1>2, <1>4 DEF index
<1> QED BY <1>3, <1>4

-----------------------------------------------------------------------------
(* All tables *)

GoodTabs(T) == T \in [Kind -> Table] /\ \A k \in Kind : Good(k, T[k])

\* Rewriting one link type's array keeps the others well formed.
LEMMA OneTable ==
    ASSUME NEW T, GoodTabs(T), NEW k \in Kind, NEW u, Good(k, u)
    PROVE  GoodTabs([T EXCEPT ![k] = u])
BY DEF GoodTabs, Good

\* An instance just allocated is well formed.
LEMMA NoTablesGood == GoodTabs(NoTables)
BY EmptyGood DEF GoodTabs, NoTables

\* A counter may be anything.
LEMMA CountGood ==
    ASSUME NEW k, NEW t, Good(k, t), NEW x \in Int
    PROVE  Good(k, [t EXCEPT !.n4 = x]) /\ Good(k, [t EXCEPT !.n6 = x])
<1>0. t \in Table
  BY DEF Good
<1> DEFINE u == [t EXCEPT !.n4 = x]
           v == [t EXCEPT !.n6 = x]
<1>1. u \in Table /\ u.slot = t.slot /\ u.flag = t.flag
  BY <1>0 DEF Table
<1>2. v \in Table /\ v.slot = t.slot /\ v.flag = t.flag
  BY <1>0 DEF Table
<1> HIDE DEF u, v
<1>3. Good(k, u) /\ Good(k, v)
  BY <1>1, <1>2 DEF Good
<1> QED BY <1>3 DEF u, v

\* A write through index -1 that lands in the neighbouring array keeps it well
\* formed.
LEMMA WipeGood ==
    ASSUME NEW T, GoodTabs(T), NEW k, NEW f \in Field
    PROVE  GoodTabs(Wipe(T, k, f))
<1>1. CASE k \in Kind
  <2> DEFINE t == T[k]
             u == Put(t, LastSlot, f, None)
  <2>1. Good(k, t) /\ t \in Table /\ LastSlot \in Slot /\ None \in Values(f)
    BY <1>1, SlotFacts DEF GoodTabs, Good, Values
  <2>2. /\ u \in Table /\ Elsewhere(t, u, LastSlot) /\ u.flag = t.flag
        /\ u.slot[LastSlot].set = t.slot[LastSlot].set
        /\ u.slot[LastSlot].name = t.slot[LastSlot].name
        /\ u.slot[LastSlot].v4 = IF f = "v4" THEN None ELSE t.slot[LastSlot].v4
    BY <2>1, PutEffect
  <2> HIDE DEF t, u
  <2>3. Rewritten(t, u, LastSlot)
    BY <2>2 DEF Rewritten
  <2>4. Good(k, u)
    BY <2>1, <2>2, <2>3, RewrittenGood
  <2>5. Wipe(T, k, f) = [T EXCEPT ![k] = u]
    BY <1>1 DEF Wipe, t, u
  <2>6. GoodTabs([T EXCEPT ![k] = u])
    BY <1>1, <2>4, OneTable
  <2> QED BY <2>5, <2>6
<1>2. CASE k \notin Kind
  <2>1. Wipe(T, k, f) = T
    BY <1>2 DEF Wipe
  <2> QED BY <2>1
<1> QED BY <1>1, <1>2

\* Not even a deletion at index -1 makes a table bad.
LEMMA StrayGood ==
    ASSUME NEW T, GoodTabs(T), NEW k \in Kind, NEW f \in Field
    PROVE  GoodTabs(stray(T, k, f))
<1>0. /\ T[k] \in Table /\ Good(k, T[k]) /\ T[k].n4 - 1 \in Int
      /\ T[k].n6 - 1 \in Int
  BY DEF GoodTabs, Table
<1>1. k = "UPLINK" \/ k = "DOWNLINK" \/ k = "VGATEWAY"
  BY KindAssumption
<1> DEFINE T4 == [T EXCEPT ![k] = [T[k] EXCEPT !.n4 = T[k].n4 - 1]]
           T6 == [T EXCEPT ![k] = [T[k] EXCEPT !.n6 = T[k].n6 - 1]]
<1>2. GoodTabs(T4) /\ GoodTabs(T6)
  BY <1>0, CountGood, OneTable
<1>3. stray(T, k, f) = CASE f = "v4" -> stray_v4(T4, k)
                         [] f = "ll" -> stray_ll(T6, k)
                         [] f = "gl" -> stray_gl(T, k)
  BY <1>0 DEF stray, GoodTabs, Table
<1> HIDE DEF T4, T6
<1>4. GoodTabs(stray_v4(T4, k))
  <2>1. CASE k = "UPLINK"
    <3>1. ASSUME NEW j \in Kind
          PROVE  Good(j, [T4[j] EXCEPT !.n4 = 0]) /\ Good(j, T4[j])
      <4>1. Good(j, T4[j]) /\ 0 \in Int
        BY <1>2 DEF GoodTabs
      <4> QED BY <4>1, CountGood
    <3>2. stray_v4(T4, k) = [j \in Kind |-> IF j = k THEN T4[j]
                                            ELSE [T4[j] EXCEPT !.n4 = 0]]
      BY <2>1 DEF stray_v4
    <3> QED BY <3>1, <3>2 DEF GoodTabs, Good
  <2>2. "v4" \in Field
    BY DEF Field
  <2>3. CASE k = "DOWNLINK"
    <3>1. stray_v4(T4, k) = Wipe(T4, "UPLINK", "v4")
      BY <2>3 DEF stray_v4
    <3> QED BY <1>2, <2>2, <3>1, WipeGood
  <2>4. CASE k = "VGATEWAY"
    <3>1. stray_v4(T4, k) = Wipe(T4, "DOWNLINK", "v4")
      BY <2>4 DEF stray_v4
    <3> QED BY <1>2, <2>2, <3>1, WipeGood
  <2> QED BY <1>1, <2>1, <2>3, <2>4
<1>5. GoodTabs(stray_ll(T6, k))
  <2>1. CASE k = "UPLINK"
    <3> DEFINE c(j) == [T6[j] EXCEPT !.n6 = 0]
               d(j) == IF j = "VGATEWAY" /\ c(j).slot[LastSlot].v4 # None
                       THEN [c(j) EXCEPT !.slot[LastSlot].v4 = NoMask] ELSE c(j)
    <3>1. ASSUME NEW j \in Kind PROVE Good(j, d(j))
      <4> DEFINE t == c(j)
                 x == [t.slot[LastSlot] EXCEPT !.v4 = NoMask]
                 u == [t EXCEPT !.slot = [t.slot EXCEPT ![LastSlot] = x]]
      <4>1. Good(j, t)
        <5>1. Good(j, T6[j]) /\ 0 \in Int
          BY <1>2 DEF GoodTabs
        <5> QED BY <5>1, CountGood
      <4> HIDE DEF c
      <4>2. t \in Table /\ LastSlot \in Slot /\ t.slot[LastSlot] \in SlotState
        BY <4>1, SlotFacts DEF Good, Table
      <4>3. /\ x \in SlotState /\ x.set = t.slot[LastSlot].set
            /\ x.name = t.slot[LastSlot].name /\ x.v4 = NoMask
        BY <4>2 DEF SlotState
      <4> HIDE DEF x
      <4>4. /\ u \in Table /\ Elsewhere(t, u, LastSlot) /\ u.flag = t.flag
            /\ u.slot[LastSlot] = x
        BY <4>2, <4>3 DEF Table, Elsewhere
      <4>6. [t EXCEPT !.slot[LastSlot].v4 = NoMask] = u
        BY <4>2 DEF Table, x
      <4> HIDE DEF u, t
      <4>5. Good(j, u)
        <5>1. Rewritten(t, u, LastSlot)
          BY <4>3, <4>4 DEF Rewritten
        <5>2. u.slot[LastSlot].v4 \in {None, NoMask}
          BY <4>3, <4>4
        <5> QED BY <4>1, <4>2, <5>1, <5>2, RewrittenGood
      <4>7. d(j) = u \/ d(j) = t
        BY <4>6 DEF t
      <4> QED BY <4>1, <4>5, <4>7
    <3>2. stray_ll(T6, k) = [j \in Kind |-> d(j)]
      BY <2>1 DEF stray_ll
    <3> HIDE DEF d
    <3> QED BY <3>1, <3>2 DEF GoodTabs, Good
  <2>2. "gl" \in Field
    BY DEF Field
  <2>3. CASE k = "DOWNLINK"
    <3>1. stray_ll(T6, k) = Wipe(T6, "UPLINK", "gl")
      BY <2>3 DEF stray_ll
    <3> QED BY <1>2, <2>2, <3>1, WipeGood
  <2>4. CASE k = "VGATEWAY"
    <3>1. stray_ll(T6, k) = Wipe(T6, "DOWNLINK", "gl")
      BY <2>4 DEF stray_ll
    <3> QED BY <1>2, <2>2, <3>1, WipeGood
  <2> QED BY <1>1, <2>1, <2>3, <2>4
<1>6. GoodTabs(stray_gl(T, k))
  BY WipeGood DEF stray_gl, Field
<1> QED BY <1>3, <1>4, <1>5, <1>6 DEF Field

-----------------------------------------------------------------------------
(* What the handlers make of a table *)

\* had_add_vip, had_v_gateway
LEMMA AddVipGood ==
    ASSUME NEW k, NEW t, Good(k, t), NEW n \in Slot, NEW i \in If, NEW a \in Vip,
           NEW ok \in BOOLEAN,
           Named(t, i) = {}, n \in Unset(t), ~vip_exist(t, a)
    PROVE  LET u == add_to_linkvif(t, n, i, ok)
           IN  Good(k, IF ok THEN add_ipaddr(u, n, a) ELSE u)
<1> DEFINE u == add_to_linkvif(t, n, i, ok)
           v == add_ipaddr(u, n, a)
<1>1. Good(k, u)
  BY AddLinkGood
<1>2. t \in Table /\ u \in Table
  BY <1>1 DEF Good
<1>3. Elsewhere(t, u, n) /\ u.slot[n].v4 = t.slot[n].v4
  BY <1>2, AddLinkEffect
<1> HIDE DEF u
<1>4. Rewritten(u, v, n) /\ v.slot[n].v4 = a
  BY <1>2, AddIpaddrEffect
<1>5. ~vip_exist(u, a)
  BY <1>3 DEF vip_exist, Elsewhere
<1> HIDE DEF v
<1>6. Good(k, v)
  BY <1>1, <1>4, <1>5, RewrittenGood
<1> QED BY <1>1, <1>6 DEF u, v

\* had_add_vipv6, had_vip6_gateway
LEMMA AddVip6Good ==
    ASSUME NEW k, NEW t, Good(k, t), NEW n \in Slot, NEW i \in If, NEW a \in V6,
           NEW f \in {"ll", "gl"}, NEW ok \in BOOLEAN,
           n \in Named(t, i) \/ (Named(t, i) = {} /\ n \in Unset(t))
    PROVE  LET u == add_to_linkvif(t, n, i, ok)
           IN  Good(k, IF ok THEN add_ip6addr(u, n, f, a) ELSE u)
<1> DEFINE u == add_to_linkvif(t, n, i, ok)
           v == add_ip6addr(u, n, f, a)
<1>1. Good(k, u)
  BY AddLinkGood
<1>2. u \in Table
  BY <1>1 DEF Good
<1> HIDE DEF u
<1>3. Rewritten(u, v, n) /\ v.slot[n].v4 = u.slot[n].v4
  BY <1>2, AddIp6Effect
<1> HIDE DEF v
<1>4. Good(k, v)
  BY <1>1, <1>3, RewrittenGood
<1> QED BY <1>1, <1>4 DEF u, v

\* had_delete_vip, had_delete_vipv6, had_no_v_gateway
LEMMA DeleteGood ==
    ASSUME NEW k, NEW t, Good(k, t), NEW n \in Slot, NEW f \in Field
    PROVE  Good(k, del_from_linkvif(del_addr(t, n, f), n))
<1> DEFINE u == del_addr(t, n, f)
<1>1. t \in Table
  BY DEF Good
<1>2. /\ Rewritten(t, u, n)
      /\ u.slot[n].v4 = IF f = "v4" THEN None ELSE t.slot[n].v4
  BY <1>1, DelAddrEffect
<1> HIDE DEF u
<1>3. Good(k, u)
  BY <1>2, RewrittenGood
<1>4. Good(k, del_from_linkvif(u, n))
  BY <1>3, DelLinkGood
<1> QED BY <1>4 DEF u

\* had_ipv6_start on a link: position 0 gets a name it did not have, or keeps it,
\* or has a name that begins with the new one.
LEMMA NameGood ==
    ASSUME NEW k, NEW t, Good(k, t), NEW i \in If, NEW b \in BOOLEAN,
           t.slot[0].name \in {None, i} \/ Renamed(k, i)
    PROVE  Good(k, [t EXCEPT !.flag = b \/ t.flag, !.slot[0].name = i])
<1> DEFINE x == [t.slot[0] EXCEPT !.name = i]
           u == [t EXCEPT !.flag = b \/ t.flag,
                          !.slot = [t.slot EXCEPT ![0] = x]]
<1>1. /\ t \in Table /\ 0 \in Slot /\ t.slot \in [Slot -> SlotState]
      /\ t.slot[0] \in SlotState
  BY SlotFacts DEF Good, Table
<1>2. /\ x \in SlotState /\ x.set = t.slot[0].set /\ x.v4 = t.slot[0].v4
      /\ x.name = i
  BY <1>1 DEF SlotState
<1>3. [t EXCEPT !.flag = b \/ t.flag, !.slot[0].name = i] = u
  BY <1>1 DEF Table
<1> HIDE DEF x
<1>4. /\ u \in Table /\ u.flag = (b \/ t.flag) /\ u.slot[0] = x
      /\ \A m \in Slot : m # 0 => u.slot[m] = t.slot[m]
  BY <1>1, <1>2 DEF Table
<1> HIDE DEF u
<1>5. \A m \in Slot : /\ u.slot[m].set = t.slot[m].set
                      /\ u.slot[m].v4 = t.slot[m].v4
  BY <1>1, <1>2, <1>4
<1>6. t.flag => u.flag
  BY <1>4
<1>7. \A m \in Slot : u.slot[m].set => u.slot[m].name # None /\ u.flag
  BY <1>1, <1>2, <1>4, <1>5, <1>6, NullAssumption DEF Good
<1>8. \A l, m \in Slot : /\ u.slot[l].set /\ u.slot[m].set
                         /\ u.slot[l].name = u.slot[m].name
                         => l = m \/ (0 \in {l, m} /\ Renamed(k, u.slot[m].name))
  <2>1. CASE Renamed(k, i)
    BY <1>1, <1>2, <1>4, <1>5, <2>1 DEF Good
  <2>2. CASE t.slot[0].name \in {None, i}
    <3>1. \A m \in Slot : u.slot[m].set => u.slot[m].name = t.slot[m].name
      BY <1>1, <1>2, <1>4, <2>2 DEF Good
    <3> QED BY <1>5, <3>1 DEF Good
  <2> QED BY <2>1, <2>2
<1>9. Good(k, u)
  BY <1>4, <1>5, <1>7, <1>8 DEF Good
<1> QED BY <1>3, <1>9

\* Setting a link's flag keeps it well formed.
LEMMA FlagGood ==
    ASSUME NEW k, NEW t, Good(k, t)
    PROVE  Good(k, [t EXCEPT !.flag = TRUE])
<1> DEFINE u == [t EXCEPT !.flag = TRUE]
<1>1. u \in Table /\ u.slot = t.slot /\ u.flag
  BY DEF Table, Good
<1> HIDE DEF u
<1>2. Good(k, u)
  BY <1>1 DEF Good
<1> QED BY <1>2 DEF u

\* An IPv6 address at the first position keeps the array well formed.
LEMMA AddIp6Good ==
    ASSUME NEW k, NEW t, Good(k, t), NEW f \in {"ll", "gl"}, NEW a \in V6
    PROVE  Good(k, add_ip6addr(t, 0, f, a))
<1> DEFINE v == add_ip6addr(t, 0, f, a)
<1>1. t \in Table /\ 0 \in Slot
  BY SlotFacts DEF Good
<1>2. Rewritten(t, v, 0) /\ v.slot[0].v4 = t.slot[0].v4
  BY <1>1, AddIp6Effect
<1> HIDE DEF v
<1>3. Good(k, v)
  BY <1>1, <1>2, RewrittenGood
<1> QED BY <1>3 DEF v

\* The IPv6 start of an uplink and of a downlink keep the array well formed.
LEMMA Start6Good ==
    ASSUME NEW k, NEW t, Good(k, t), NEW i \in If, NEW a \in V6, NEW f \in {"ll", "gl"},
           NEW bad \in BOOLEAN
    PROVE  /\ Good(k, start6_up(t, i, a, f, bad))
           /\ k = "DOWNLINK" /\ Passes(t.slot[0].name, i)
                  => Good(k, start6_down(t, i, a, f, bad))
<1>0. t \in Table
  BY DEF Good
<1>1. Good(k, start6_up(t, i, a, f, bad))
  <2> DEFINE w == [t EXCEPT !.flag = TRUE, !.slot[0].name = i]
             u == IF t.slot[0].name = None THEN w ELSE t
  <2>1. t.slot[0].name = None
          => Good(k, [t EXCEPT !.flag = TRUE \/ t.flag, !.slot[0].name = i])
    BY NameGood
  <2>2. (TRUE \/ t.flag) = TRUE
    OBVIOUS
  <2>3. t.slot[0].name = None => Good(k, w)
    BY <2>1, <2>2
  <2> HIDE DEF w
  <2>4. Good(k, u)
    BY <2>3
  <2>5. start6_up(t, i, a, f, bad) = IF bad THEN u ELSE add_ip6addr(u, 0, f, a)
    BY DEF start6_up, w
  <2> HIDE DEF u
  <2>6. Good(k, add_ip6addr(u, 0, f, a))
    BY <2>4, AddIp6Good
  <2> QED BY <2>4, <2>5, <2>6
<1>2. ASSUME k = "DOWNLINK", Passes(t.slot[0].name, i)
      PROVE  Good(k, start6_down(t, i, a, f, bad))
  <2> DEFINE u == [t EXCEPT !.slot[0].name = i]
             v == add_ip6addr(u, 0, f, a)
  <2>0. t.slot[0].name \in {None, i} \/ Renamed(k, i)
    BY <1>2, BeginsAssumption DEF Passes, Renamed
  <2>1. Good(k, [t EXCEPT !.flag = FALSE \/ t.flag, !.slot[0].name = i])
    BY <2>0, NameGood
  <2>2. [t EXCEPT !.flag = FALSE \/ t.flag, !.slot[0].name = i] = u
    BY <1>0, SlotFacts DEF Table
  <2>3. Good(k, u)
    BY <2>1, <2>2
  <2>4. start6_down(t, i, a, f, bad) = IF bad THEN u
                                       ELSE [v EXCEPT !.flag = TRUE]
    BY DEF start6_down
  <2> HIDE DEF u
  <2>5. Good(k, v)
    BY <2>3, AddIp6Good
  <2> HIDE DEF v
  <2>6. Good(k, [v EXCEPT !.flag = TRUE])
    BY <2>5, FlagGood
  <2> QED BY <2>3, <2>4, <2>6
<1> QED BY <1>1, <1>2

\* had_start: the tables it builds
LEMMA StartedTable ==
    ASSUME NEW i \in If, NEW a \in Vip
    PROVE  LET t == add_ipaddr(add_to_linkvif(EmptyTable, 0, i, TRUE), 0, a)
           IN  /\ \A k : Good(k, t)
               /\ t.n4 = 1
               /\ t.slot[0].set /\ t.slot[0].v4 = a
               /\ \A n \in Slot : /\ n # 0 => t.slot[n] = EmptySlot
                                  /\ t.slot[n].ll = None /\ t.slot[n].gl = None
<1> DEFINE u == add_to_linkvif(EmptyTable, 0, i, TRUE)
           t == add_ipaddr(u, 0, a)
<1>1. 0 \in Slot /\ (\A k : Good(k, EmptyTable)) /\ EmptyTable \in Table
  BY SlotFacts, EmptyGood
<1>2. /\ \A n \in Slot : EmptyTable.slot[n] = EmptySlot
      /\ EmptyTable.n4 = 0
      /\ EmptySlot.set = FALSE /\ EmptySlot.v4 = None
      /\ EmptySlot.ll = None /\ EmptySlot.gl = None
  BY DEF EmptyTable, EmptySlot
<1>3. Named(EmptyTable, i) = {} /\ 0 \in Unset(EmptyTable)
  BY <1>1, <1>2 DEF Named, Unset
<1>4. ~vip_exist(EmptyTable, a)
  BY <1>2, NullAssumption DEF vip_exist
<1>5. ASSUME NEW k PROVE Good(k, t)
  BY <1>1, <1>3, <1>4, AddVipGood
<1>6. /\ u \in Table /\ Elsewhere(EmptyTable, u, 0) /\ u.n4 = 0
      /\ u.slot[0].set /\ u.slot[0].ll = None /\ u.slot[0].gl = None
  <2>1. PICK ok \in BOOLEAN : ok = TRUE
    OBVIOUS
  <2> DEFINE w == add_to_linkvif(EmptyTable, 0, i, ok)
  <2>2. /\ w \in Table /\ Elsewhere(EmptyTable, w, 0)
        /\ w.n4 = EmptyTable.n4
        /\ w.slot[0].set = (ok \/ EmptyTable.slot[0].set)
        /\ w.slot[0].ll = EmptyTable.slot[0].ll
        /\ w.slot[0].gl = EmptyTable.slot[0].gl
    BY <1>1, AddLinkEffect
  <2>3. u = w
    BY <2>1 DEF add_to_linkvif
  <2> HIDE DEF u, w
  <2> QED BY <1>1, <1>2, <2>1, <2>2, <2>3
<1> HIDE DEF u
<1>7. /\ Rewritten(u, t, 0) /\ t.n4 = u.n4 + 1
      /\ t.slot[0].v4 = a /\ t.slot[0].ll = u.slot[0].ll
      /\ t.slot[0].gl = u.slot[0].gl
  BY <1>1, <1>6, AddIpaddrEffect
<1> HIDE DEF t
<1>8. t.n4 = 1 /\ t.slot[0].set
  BY <1>6, <1>7 DEF Rewritten
<1>9. \A n \in Slot : n # 0 => t.slot[n] = EmptySlot
  BY <1>2, <1>6, <1>7 DEF Rewritten, Elsewhere
<1> QED BY <1>2, <1>5, <1>6, <1>7, <1>8, <1>9 DEF u, t

-----------------------------------------------------------------------------
(* The inductive invariant *)

IInv ==
    /\ vrrp \in BOOLEAN /\ svc \in BOOLEAN /\ mast \in BOOLEAN
    /\ svc \/ mast => vrrp
    /\ GoodTabs(tab)
    /\ installed \subseteq Addr

\* The inductive invariant has the checked ones as consequences.
LEMMA InvImplies ==
    ASSUME IInv
    PROVE  TypeOK /\ NamesDistinct /\ VipsDistinct /\ FlagCovers
<1>1. TypeOK
  BY DEF IInv, GoodTabs, TypeOK, Addr
<1>2. NamesDistinct
  BY DEF IInv, GoodTabs, Good, NamesDistinct
<1>3. VipsDistinct
  BY DEF IInv, GoodTabs, Good, VipsDistinct
<1>4. FlagCovers
  BY DEF IInv, GoodTabs, Good, FlagCovers
<1> QED BY <1>1, <1>2, <1>3, <1>4

Now == [tab |-> tab, inst |-> installed]

\* What had_ipaddr_ops is given by a handler has its type.
LEMMA NowPairs ==
    ASSUME IInv
    PROVE  /\ Now \in Pairs /\ Now.tab = tab /\ Now.inst = installed
           /\ \A add : after_ops(add) = ipaddr_ops(Now, add)
<1>1. Now.tab = tab /\ Now.inst = installed
  BY DEF Now
<1>2. Now \in [tab : [Kind -> Table], inst : SUBSET Addr]
  BY DEF Now, IInv, GoodTabs
<1>3. Now \in Pairs
  BY <1>1, <1>2 DEF IInv, GoodTabs, Good, Pairs
<1>4. \A add : after_ops(add) = ipaddr_ops(Now, add)
  BY DEF after_ops, Now
<1> QED BY <1>1, <1>3, <1>4

\* had_ipaddr_ops leaves good tables and typed addresses.
LEMMA AfterOps ==
    ASSUME IInv, NEW add \in BOOLEAN
    PROVE  GoodTabs(after_ops(add).tab) /\ after_ops(add).inst \subseteq Addr
<1> DEFINE q == after_ops(add)
<1>1. OpsEffect(Now, q, add) /\ Now.tab = tab
  BY NowPairs, OpsAll
<1> HIDE DEF q
<1>2. q \in Pairs /\ \A k \in Kind : SameTable(tab[k], q.tab[k])
  BY <1>1 DEF OpsEffect
<1>3. q.tab \in [Kind -> Table] /\ q.inst \subseteq Addr
  BY <1>2 DEF Pairs
<1>4. ASSUME NEW k \in Kind PROVE Good(k, q.tab[k])
  <2>1. Good(k, tab[k]) /\ q.tab[k] \in Table /\ SameTable(tab[k], q.tab[k])
    BY <1>2, <1>3 DEF IInv, GoodTabs
  <2> QED BY <2>1, SameGood
<1>5. GoodTabs(q.tab)
  BY <1>3, <1>4 DEF GoodTabs
<1> QED BY <1>3, <1>5 DEF q

\* had_end keeps the types.
LEMMA EndTyped ==
    ASSUME IInv, NEW T, end(T)
    PROVE  mast' = FALSE /\ tab' = T /\ installed' \subseteq Addr
<1>1. FALSE \in BOOLEAN
  OBVIOUS
<1>2. after_ops(FALSE).inst \subseteq Addr
  BY <1>1, AfterOps
<1> QED BY <1>2 DEF end, IInv

\* The arrays had_start leaves are well formed.
LEMMA StartedGood ==
    ASSUME NEW K \in SUBSET (Link \cap Kind), NEW c \in [K -> If \X Vip]
    PROVE  GoodTabs(started(c))
<1>1. ASSUME NEW k \in Kind
      PROVE  Good(k, started(c)[k])
  <2>1. CASE k \in K
    <3>1. c[k][1] \in If /\ c[k][2] \in Vip
      BY <2>1
    <3>2. started(c)[k]
            = add_ipaddr(add_to_linkvif(EmptyTable, 0, c[k][1], TRUE), 0, c[k][2])
      BY <2>1 DEF started
    <3> QED BY <3>1, <3>2, StartedTable
  <2>2. CASE k \notin K
    <3>1. started(c)[k] = EmptyTable
      BY <2>2 DEF started
    <3> QED BY <3>1, EmptyGood
  <2> QED BY <2>1, <2>2
<1>2. started(c) = [k \in Kind |-> started(c)[k]]
  BY DEF started
<1> QED BY <1>1, <1>2 DEF GoodTabs, Good

\* A handler that edits tables leaves the rest alone.
Edit ==
    /\ Idle
    /\ GoodTabs(tab')
    /\ UNCHANGED <<vrrp, svc, mast, installed>>

\* The IPv6 start, its errors among them, leaves well-formed arrays.
LEMMA Start6Edit ==
    ASSUME IInv, NEW K \in SUBSET (Link \cap Kind), NEW c \in [K -> If \X V6],
           NEW f \in {"ll", "gl"}, NEW ok \in SUBSET K, Start6(c, f, ok)
    PROVE  Edit
<1> DEFINE fail(k) == start6_fails(tab, k, f, ok)
           up == "UPLINK" \in DOMAIN c
           T  == IF up THEN [tab EXCEPT !["UPLINK"] =
                               start6_up(tab["UPLINK"], c["UPLINK"][1],
                                         c["UPLINK"][2], f, fail("UPLINK"))]
                 ELSE tab
           U  == [T EXCEPT !["DOWNLINK"] =
                    start6_down(T["DOWNLINK"], c["DOWNLINK"][1],
                                c["DOWNLINK"][2], f, fail("DOWNLINK"))]
<1>1. Idle /\ UNCHANGED <<vrrp, svc, mast, installed>>
  BY DEF Start6, start6
<1>2. tab' = T \/ ("DOWNLINK" \in K /\ tab' = U)
  BY DEF Start6, start6
<1>3. ASSUME NEW k \in K
      PROVE  /\ k \in Kind /\ c[k][1] \in If /\ c[k][2] \in V6
             /\ fail(k) \in BOOLEAN
             /\ Passes(tab[k].slot[0].name, c[k][1])
  BY <1>3 DEF Start6, start6, start6_fails
<1>4. GoodTabs(T)
  <2>1. CASE up
    <3>1. "UPLINK" \in K
      BY <2>1
    <3> DEFINE u == start6_up(tab["UPLINK"], c["UPLINK"][1], c["UPLINK"][2],
                              f, fail("UPLINK"))
    <3>2. Good("UPLINK", tab["UPLINK"])
      BY <1>3, <3>1 DEF IInv, GoodTabs
    <3> HIDE DEF fail
    <3>3. Good("UPLINK", u)
      BY <1>3, <3>1, <3>2, Start6Good
    <3> HIDE DEF u
    <3>4. GoodTabs([tab EXCEPT !["UPLINK"] = u])
      BY <1>3, <3>1, <3>3, OneTable DEF IInv
    <3> QED BY <2>1, <3>4 DEF u
  <2>2. CASE ~up
    <3>1. T = tab
      BY <2>2
    <3> QED BY <3>1 DEF IInv
  <2> QED BY <2>1, <2>2
<1>5. "DOWNLINK" \in K => T["DOWNLINK"] = tab["DOWNLINK"]
  BY DEF IInv, GoodTabs
<1> HIDE DEF T, fail
<1>6. ASSUME "DOWNLINK" \in K PROVE GoodTabs(U)
  <2> DEFINE u == start6_down(T["DOWNLINK"], c["DOWNLINK"][1],
                              c["DOWNLINK"][2], f, fail("DOWNLINK"))
  <2>1. Good("DOWNLINK", T["DOWNLINK"])
    BY <1>3, <1>4, <1>6 DEF GoodTabs
  <2>2. Good("DOWNLINK", u)
    BY <1>3, <1>5, <1>6, <2>1, Start6Good
  <2> HIDE DEF u
  <2>3. GoodTabs([T EXCEPT !["DOWNLINK"] = u])
    BY <1>3, <1>4, <1>6, <2>2, OneTable
  <2> QED BY <2>3 DEF u
<1> QED BY <1>1, <1>2, <1>4, <1>6 DEF Edit

\* An added IPv4 address, refused or not, leaves well-formed arrays.
LEMMA AddVipEdit ==
    ASSUME IInv, NEW k \in Kind, NEW i \in If, NEW a \in Vip,
           NEW ok \in BOOLEAN, add_vip(k, i, a, ok)
    PROVE  Edit
<1> DEFINE n == index(tab[k], i)
           t == add_to_linkvif(tab[k], n, i, ok)
           u == IF ok THEN add_ipaddr(t, n, a) ELSE t
<1>1. /\ Idle /\ UNCHANGED <<vrrp, svc, mast, installed>>
      /\ Named(tab[k], i) = {} /\ ~vip_exist(tab[k], a) /\ n # -1
      /\ tab' = [tab EXCEPT ![k] = u]
  BY DEF add_vip
<1>2. n \in Unset(tab[k])
  BY <1>1, Index
<1>3. n \in Slot
  BY <1>2 DEF Unset
<1>4. Good(k, tab[k])
  BY DEF IInv, GoodTabs
<1> HIDE DEF n
<1>5. Good(k, u)
  BY <1>1, <1>2, <1>3, <1>4, AddVipGood
<1> HIDE DEF u
<1>6. GoodTabs([tab EXCEPT ![k] = u])
  BY <1>5, OneTable DEF IInv
<1> QED BY <1>1, <1>6 DEF Edit

\* An added IPv6 address, refused or not, leaves well-formed arrays.
LEMMA AddVip6Edit ==
    ASSUME IInv, NEW k \in Kind, NEW i \in If, NEW a \in V6,
           NEW f \in {"ll", "gl"}, NEW ok \in BOOLEAN, add_vipv6(k, i, a, f, ok)
    PROVE  Edit
<1> DEFINE n == index(tab[k], i)
           t == add_to_linkvif(tab[k], n, i, ok)
           u == IF ok THEN add_ip6addr(t, n, f, a) ELSE t
<1>1. /\ Idle /\ UNCHANGED <<vrrp, svc, mast, installed>> /\ n # -1
      /\ tab' = [tab EXCEPT ![k] = u]
  BY DEF add_vipv6
<1>2. n \in Named(tab[k], i) \/ (Named(tab[k], i) = {} /\ n \in Unset(tab[k]))
  BY <1>1, Index
<1>3. n \in Slot
  BY <1>2 DEF Unset, Named
<1>4. Good(k, tab[k])
  BY DEF IInv, GoodTabs
<1> HIDE DEF n
<1>5. Good(k, u)
  BY <1>1, <1>2, <1>3, <1>4, AddVip6Good
<1> HIDE DEF u
<1>6. GoodTabs([tab EXCEPT ![k] = u])
  BY <1>5, OneTable DEF IInv
<1> QED BY <1>1, <1>6 DEF Edit

\* A deleted address leaves well-formed arrays, whichever index the handler goes
\* on with.
LEMMA DeleteEdit ==
    ASSUME IInv, NEW k \in Kind, NEW i \in If, NEW f \in Field, NEW x,
           delete(k, i, f, x)
    PROVE  Edit
<1> DEFINE n == index(tab[k], i)
           u == del_from_linkvif(del_addr(tab[k], n, f), n)
<1>1. /\ Idle /\ UNCHANGED <<vrrp, svc, mast, installed>>
      /\ tab' = IF Named(tab[k], i) # {} THEN [tab EXCEPT ![k] = u]
                ELSE stray(tab, k, f)
  BY DEF delete
<1>2. CASE Named(tab[k], i) # {}
  <2>1. n \in Slot
    BY <1>2, Index DEF Named
  <2>2. Good(k, tab[k])
    BY DEF IInv, GoodTabs
  <2> HIDE DEF n
  <2>3. Good(k, u)
    BY <2>1, <2>2, DeleteGood
  <2> HIDE DEF u
  <2>4. GoodTabs([tab EXCEPT ![k] = u])
    BY <2>3, OneTable DEF IInv
  <2> QED BY <1>1, <1>2, <2>4 DEF Edit
<1>3. CASE Named(tab[k], i) = {}
  <2>1. GoodTabs(stray(tab, k, f))
    BY StrayGood DEF IInv
  <2> QED BY <1>1, <1>3, <2>1 DEF Edit
<1> QED BY <1>2, <1>3

\* The steps are those that edit tables and the others.
LEMMA Steps ==
    ASSUME IInv, Next
    PROVE  \/ Edit
           \/ \E K \in (SUBSET (Link \cap Kind)) \ {{}} :
                \E c \in [K -> If \X Vip], ok \in BOOLEAN : Start(c, ok)
           \/ End \/ Enable \/ Disable \/ GotoMaster \/ LeaveMaster
<1>0. "v4" \in Field /\ \A f \in {"ll", "gl"} : f \in Field
  BY DEF Field
<1>1. CASE \E K \in (SUBSET (Link \cap Kind)) \ {{}} :
             \E c \in [K -> If \X V6], f \in {"ll", "gl"}, ok \in SUBSET K :
               Start6(c, f, ok)
  <2>0. PICK K \in (SUBSET (Link \cap Kind)) \ {{}} :
          \E c \in [K -> If \X V6], f \in {"ll", "gl"}, ok \in SUBSET K :
            Start6(c, f, ok)
    BY <1>1
  <2>1. PICK c \in [K -> If \X V6], f \in {"ll", "gl"}, ok \in SUBSET K :
          Start6(c, f, ok)
    BY <2>0
  <2>2. K \in SUBSET (Link \cap Kind)
    OBVIOUS
  <2>3. Edit
    BY <2>1, <2>2, Start6Edit
  <2> QED BY <2>3
<1>2. CASE \E k \in Kind \cap Link, i \in If :
             DelVip(k, i) \/ \E a \in Vip, ok \in BOOLEAN : AddVip(k, i, a, ok)
  <2>1. PICK k \in Kind \cap Link, i \in If :
             DelVip(k, i) \/ \E a \in Vip, ok \in BOOLEAN : AddVip(k, i, a, ok)
    BY <1>2
  <2>2. CASE DelVip(k, i)
    <3>1. delete(k, i, "v4", tab[k].n4)
      BY <2>2 DEF DelVip, delete_vip
    <3>2. Edit
      BY <1>0, <3>1, DeleteEdit
    <3> QED BY <3>2
  <2>3. CASE \E a \in Vip, ok \in BOOLEAN : AddVip(k, i, a, ok)
    <3>1. PICK a \in Vip, ok \in BOOLEAN : add_vip(k, i, a, ok)
      BY <2>3 DEF AddVip
    <3>2. Edit
      BY <3>1, AddVipEdit
    <3> QED BY <3>2
  <2> QED BY <2>1, <2>2, <2>3
<1>3. CASE \E k \in Kind \cap {"VGATEWAY"}, i \in If, a \in Vip :
             NoVGateway(i, a) \/ \E ok \in BOOLEAN : VGateway(i, a, ok)
  <2>1. PICK k \in Kind \cap {"VGATEWAY"}, i \in If, a \in Vip :
             NoVGateway(i, a) \/ \E ok \in BOOLEAN : VGateway(i, a, ok)
    BY <1>3
  <2>0. "VGATEWAY" \in Kind
    OBVIOUS
  <2>2. CASE NoVGateway(i, a)
    <3>1. delete("VGATEWAY", i, "v4", tab["VGATEWAY"].n4)
      BY <2>2 DEF NoVGateway, delete_vip
    <3>2. Edit
      BY <1>0, <2>0, <3>1, DeleteEdit
    <3> QED BY <3>2
  <2>3. CASE \E ok \in BOOLEAN : VGateway(i, a, ok)
    <3>1. PICK ok \in BOOLEAN : add_vip("VGATEWAY", i, a, ok)
      BY <2>3 DEF VGateway
    <3>2. Edit
      BY <2>0, <3>1, AddVipEdit
    <3> QED BY <3>2
  <2> QED BY <2>1, <2>2, <2>3
<1>4. CASE \E k \in Kind, i \in If, f \in {"ll", "gl"} :
             \/ DelVip6(k, i, f)
             \/ \E a \in V6, ok \in BOOLEAN : AddVip6(k, i, a, f, ok)
  <2>1. PICK k \in Kind, i \in If, f \in {"ll", "gl"} :
             \/ DelVip6(k, i, f)
             \/ \E a \in V6, ok \in BOOLEAN : AddVip6(k, i, a, f, ok)
    BY <1>4
  <2>2. CASE DelVip6(k, i, f)
    <3>1. delete(k, i, f, tab[k].n6)
      BY <2>2 DEF DelVip6, delete_vipv6
    <3>2. Edit
      BY <1>0, <3>1, DeleteEdit
    <3> QED BY <3>2
  <2>3. CASE \E a \in V6, ok \in BOOLEAN : AddVip6(k, i, a, f, ok)
    <3>1. PICK a \in V6, ok \in BOOLEAN : add_vipv6(k, i, a, f, ok)
      BY <2>3 DEF AddVip6
    <3>2. Edit
      BY <3>1, AddVip6Edit
    <3> QED BY <3>2
  <2> QED BY <2>1, <2>2, <2>3
<1> QED BY <1>1, <1>2, <1>3, <1>4 DEF Next

\* The inductive invariant holds at the start.
LEMMA InitInv == Init => IInv
BY NoTablesGood DEF Init, IInv

\* Every step keeps the inductive invariant.
LEMMA StepInv == IInv /\ [Next]_vars => IInv'
<1> SUFFICES ASSUME IInv, [Next]_vars PROVE IInv'
  OBVIOUS
<1>0. TRUE \in BOOLEAN /\ FALSE \in BOOLEAN
  OBVIOUS
<1>1. CASE Edit
  BY <1>1 DEF Edit, IInv
<1>2. CASE \E K \in (SUBSET (Link \cap Kind)) \ {{}} :
             \E c \in [K -> If \X Vip], ok \in BOOLEAN : Start(c, ok)
  <2>0. PICK K \in (SUBSET (Link \cap Kind)) \ {{}} :
          \E c \in [K -> If \X Vip], ok \in BOOLEAN : Start(c, ok)
    BY <1>2
  <2>1. PICK c \in [K -> If \X Vip], ok \in BOOLEAN : Start(c, ok)
    BY <2>0
  <2> DEFINE T == IF ok THEN started(c) ELSE NoTables
  <2>2. ~svc /\ vrrp' = ok /\ svc' = svc /\ end(T)
    BY <2>1 DEF Start, start
  <2>3. GoodTabs(T)
    BY StartedGood, NoTablesGood
  <2> HIDE DEF T
  <2>4. mast' = FALSE /\ tab' = T /\ installed' \subseteq Addr
    BY <2>2, EndTyped
  <2> QED BY <2>2, <2>3, <2>4 DEF IInv
<1>3. CASE End
  <2>1. vrrp' = FALSE /\ svc' = FALSE /\ end(NoTables)
    BY <1>3 DEF End
  <2>2. mast' = FALSE /\ tab' = NoTables /\ installed' \subseteq Addr
    BY <2>1, EndTyped
  <2> QED BY <2>1, <2>2, NoTablesGood DEF IInv
<1>4. CASE Enable
  BY <1>4 DEF Enable, Idle, IInv
<1>5. CASE Disable
  <2> DEFINE T == IF mast THEN after_ops(FALSE).tab ELSE tab
  <2>1. svc' = FALSE /\ vrrp' = vrrp /\ end(T)
    BY <1>5 DEF Disable
  <2>2. GoodTabs(after_ops(FALSE).tab) /\ GoodTabs(tab)
    BY <1>0, AfterOps DEF IInv
  <2>3. GoodTabs(T)
    BY <2>2
  <2> HIDE DEF T
  <2>4. mast' = FALSE /\ tab' = T /\ installed' \subseteq Addr
    BY <2>1, EndTyped
  <2> QED BY <2>1, <2>3, <2>4 DEF IInv
<1>6. CASE GotoMaster
  <2>1. /\ vrrp /\ mast' = TRUE /\ vrrp' = vrrp /\ svc' = svc
        /\ tab' = after_ops(TRUE).tab /\ installed' = after_ops(TRUE).inst
    BY <1>6 DEF GotoMaster
  <2>2. GoodTabs(after_ops(TRUE).tab) /\ after_ops(TRUE).inst \subseteq Addr
    BY <1>0, AfterOps
  <2> QED BY <2>1, <2>2 DEF IInv
<1>7. CASE LeaveMaster
  <2>1. /\ vrrp /\ mast' = FALSE /\ vrrp' = vrrp /\ svc' = svc
        /\ tab' = after_ops(FALSE).tab /\ installed' = after_ops(FALSE).inst
    BY <1>7 DEF LeaveMaster
  <2>2. GoodTabs(after_ops(FALSE).tab) /\ after_ops(FALSE).inst \subseteq Addr
    BY <1>0, AfterOps
  <2> QED BY <2>1, <2>2 DEF IInv
<1>8. CASE UNCHANGED vars
  BY <1>8 DEF vars, IInv, GoodTabs, Good
<1> QED BY <1>1, <1>2, <1>3, <1>4, <1>5, <1>6, <1>7, <1>8, Steps

\* The inductive invariant holds always.
LEMMA Invariance == Spec => []IInv
BY InitInv, StepInv, PTL DEF Spec

\* Every table, counter and installed address keeps its type, whatever the
\* handlers are called with and hmd does, and a node without an instance is
\* neither enabled nor master.
THEOREM ConfigTyped == Spec => []TypeOK
BY Invariance, InvImplies, PTL

\* An interface has two positions of a link that are set only where had_ipv6_start
\* renamed position 0 of a downlink from a name that begins with the new one.
THEOREM NamesStayDistinct == Spec => []NamesDistinct
BY Invariance, InvImplies, PTL

\* An IPv4 virtual address is never in two positions of a link.
THEOREM VipsStayDistinct == Spec => []VipsDistinct
BY Invariance, InvImplies, PTL

\* No position that is set hides behind a link flag that is not.
THEOREM FlagAlwaysCovers == Spec => []FlagCovers
BY Invariance, InvImplies, PTL

-----------------------------------------------------------------------------
(* What is installed.  When hmd switches no node whose service is disabled, *)
(* the tables do not change under a master.                                 *)

MasterInv ==
    /\ mast => svc
    /\ AllInstalled

\* Every step keeps a master's addresses installed.
LEMMA StepMaster ==
    ASSUME HmdSwitch = FALSE
    PROVE  IInv /\ MasterInv /\ [Next]_vars => MasterInv'
<1> SUFFICES ASSUME IInv, MasterInv, [Next]_vars PROVE MasterInv'
  OBVIOUS
<1>1. CASE mast' = FALSE
  BY <1>1 DEF MasterInv, AllInstalled
<1>2. CASE Edit
  <2>1. ~mast
    BY <1>2 DEF Edit, Idle, MasterInv
  <2>2. mast' = FALSE
    BY <1>2, <2>1 DEF Edit, IInv
  <2> QED BY <1>1, <2>2
<1>3. CASE Enable
  BY <1>3 DEF Enable, MasterInv, AllInstalled
<1>4. CASE UNCHANGED vars
  BY <1>4 DEF vars, MasterInv, AllInstalled
<1>5. CASE GotoMaster
  <2> DEFINE q == after_ops(TRUE)
  <2>1. svc' /\ tab' = q.tab /\ installed' = q.inst
    BY <1>5 DEF GotoMaster
  <2>2. q = ipaddr_ops(Now, TRUE) /\ Now \in Pairs /\ Now.tab = tab
    BY NowPairs
  <2>3. Covers(Now.tab)
    BY <2>2 DEF IInv, GoodTabs, Good, Covers
  <2>4. OpsEffect(Now, q, TRUE)
    BY <2>2, OpsAll
  <2>5. ASSUME NEW k \in Kind, NEW n \in Slot,
               q.tab[k].slot[n].set, q.tab[k].slot[n].v4 # None
        PROVE  <<q.tab[k].slot[n].name, q.tab[k].slot[n].v4>> \in q.inst
    <3> HIDE DEF q
    <3>1. SameSlot(tab[k].slot[n], q.tab[k].slot[n])
      BY <2>2, <2>4 DEF OpsEffect, SameTable
    <3>2. /\ tab[k].slot[n].set /\ tab[k].slot[n].v4 # None
          /\ tab[k].slot[n].name = q.tab[k].slot[n].name
          /\ tab[k].slot[n].v4 = q.tab[k].slot[n].v4
      BY <2>5, <3>1 DEF SameSlot
    <3>3. <<tab[k].slot[n].name, tab[k].slot[n].v4>> \in q.inst
      BY <2>2, <2>3, <3>2, OpsAddAll
    <3> QED BY <3>2, <3>3
  <2> HIDE DEF q
  <2> QED BY <2>1, <2>5 DEF MasterInv, AllInstalled
<1>6. CASE \E K \in (SUBSET (Link \cap Kind)) \ {{}} :
             \E c \in [K -> If \X Vip], ok \in BOOLEAN : Start(c, ok)
  BY <1>1, <1>6 DEF Start, start, end
<1>7. CASE End \/ Disable \/ LeaveMaster
  BY <1>1, <1>7 DEF End, Disable, LeaveMaster, end
<1> QED BY <1>2, <1>3, <1>4, <1>5, <1>6, <1>7, Steps

\* When hmd switches no node whose service is disabled, a master holds every
\* IPv4 virtual address of its configuration, with IPv6 addresses or without.
THEOREM MasterHoldsAll ==
    ASSUME HmdSwitch = FALSE
    PROVE  Spec => []AllInstalled
<1>1. Init => MasterInv
  BY DEF Init, MasterInv, AllInstalled
<1>2. IInv /\ MasterInv /\ [Next]_vars => MasterInv'
  BY StepMaster
<1>3. MasterInv => AllInstalled
  BY DEF MasterInv
<1> QED BY <1>1, <1>2, <1>3, Invariance, PTL DEF Spec

\* Without IPv6 addresses, what a master holds is owned by a position, and a
\* node that is not master holds nothing.
OwnInv ==
    /\ NothingLeft
    /\ mast => svc /\ \A a \in installed : Owned(tab, a)

\* Every step keeps each installed address owned by a position.
LEMMA StepOwn ==
    ASSUME HmdSwitch = FALSE, V6 = {}
    PROVE  IInv /\ OwnInv /\ [Next]_vars => OwnInv'
<1> SUFFICES ASSUME IInv, OwnInv, [Next]_vars PROVE OwnInv'
  OBVIOUS
<1>1. NoV6(tab) /\ Covers(tab)
  BY DEF IInv, GoodTabs, Good, Table, SlotState, NoV6, Covers
<1>2. mast \in BOOLEAN /\ Now \in Pairs /\ Now.tab = tab /\ Now.inst = installed
  BY NowPairs DEF IInv
<1>3. \A add : after_ops(add) = ipaddr_ops(Now, add)
  BY NowPairs
<1>4. after_ops(FALSE).inst = {}
  <2>1. \A a \in Now.inst : Owned(Now.tab, a)
    BY <1>2 DEF OwnInv, NothingLeft
  <2>2. ipaddr_ops(Now, FALSE).inst = {}
    BY <1>1, <1>2, <2>1, OpsGone
  <2> QED BY <1>3, <2>2
<1>5. ASSUME NEW T, end(T) PROVE OwnInv'
  <2>1. mast' = FALSE /\ installed' = {}
    BY <1>4, <1>5 DEF end, OwnInv, NothingLeft
  <2> QED BY <2>1 DEF OwnInv, NothingLeft
<1>6. CASE Edit
  <2>1. ~mast /\ mast' = mast /\ installed' = installed
    BY <1>6 DEF Edit, Idle, OwnInv
  <2> QED BY <2>1 DEF OwnInv, NothingLeft
<1>7. CASE Enable
  <2>1. svc' /\ UNCHANGED <<mast, tab, installed>>
    BY <1>7 DEF Enable
  <2> QED BY <2>1 DEF OwnInv, NothingLeft
<1>8. CASE UNCHANGED vars
  BY <1>8 DEF vars, OwnInv, NothingLeft
<1>9. CASE GotoMaster
  <2> DEFINE q == after_ops(TRUE)
  <2>1. mast' = TRUE /\ svc' /\ tab' = q.tab /\ installed' = q.inst /\ ~mast
    BY <1>9 DEF GotoMaster
  <2>2. Now.inst = {}
    BY <1>2, <2>1 DEF OwnInv, NothingLeft
  <2>3. \A a \in ipaddr_ops(Now, TRUE).inst : Owned(ipaddr_ops(Now, TRUE).tab, a)
    BY <1>1, <1>2, <2>2, OpsOwned
  <2>4. \A a \in q.inst : Owned(q.tab, a)
    BY <1>3, <2>3
  <2> HIDE DEF q
  <2>5. \A a \in installed' : Owned(tab', a)
    BY <2>1, <2>4
  <2>6. \A a : Owned(tab', a) => Owned(tab, a)'
    BY DEF Owned
  <2> QED BY <2>1, <2>5, <2>6 DEF OwnInv, NothingLeft
<1>10. CASE LeaveMaster
  <2>1. mast' = FALSE /\ installed' = after_ops(FALSE).inst
    BY <1>10 DEF LeaveMaster
  <2> QED BY <1>4, <2>1 DEF OwnInv, NothingLeft
<1>11. CASE \E K \in (SUBSET (Link \cap Kind)) \ {{}} :
              \E c \in [K -> If \X Vip], ok \in BOOLEAN : Start(c, ok)
  BY <1>5, <1>11 DEF Start, start
<1>12. CASE End \/ Disable
  BY <1>5, <1>12 DEF End, Disable
<1> QED BY <1>6, <1>7, <1>8, <1>9, <1>10, <1>11, <1>12, Steps

\* Without IPv6 addresses, and when hmd switches no node whose service is
\* disabled, a node that is not master, or has no instance any more, holds no
\* virtual address: had_ipaddr_ops removed all it had installed, those that two
\* links share among them.
THEOREM NothingIsLeft ==
    ASSUME HmdSwitch = FALSE, V6 = {}
    PROVE  Spec => []NothingLeft
<1>1. Init => OwnInv
  BY DEF Init, OwnInv, NothingLeft
<1>2. IInv /\ OwnInv /\ [Next]_vars => OwnInv'
  BY StepOwn
<1>3. OwnInv => NothingLeft
  BY DEF OwnInv
<1> QED BY <1>1, <1>2, <1>3, Invariance, PTL DEF Spec

-----------------------------------------------------------------------------
(* How many addresses there are.  When there are no more interfaces than    *)
(* positions, and where had_ipv6_start can give an interface two of them    *)
(* fewer, no handler goes on with index -1.                                 *)

Few ==
    /\ IsFiniteSet(If) /\ Cardinality(If) <= VRRP_LINK_MAX_CNT
    /\ V6 = {} \/ Begins = {} \/ Cardinality(If) < VRRP_LINK_MAX_CNT

Used(t) == {n \in Slot : t.slot[n].v4 # None}

\* Without IPv6 addresses a position is set as long as it has its address, and
\* these are counted.
Tight(t) ==
    /\ \A n \in Slot : t.slot[n].set <=> t.slot[n].v4 # None
    /\ t.n4 = Cardinality(Used(t))

\* The used positions can be counted.
LEMMA UsedFinite ==
    ASSUME NEW t
    PROVE  IsFiniteSet(Used(t)) /\ Cardinality(Used(t)) \in Nat
<1>1. IsFiniteSet(Slot)
  BY SlotFacts, FS_Interval, MaxAssumption
<1>2. Used(t) \in SUBSET Slot
  BY DEF Used
<1>3. IsFiniteSet(Used(t))
  BY <1>1, <1>2, FS_Subset
<1> QED BY <1>3, FS_CardinalityType

\* An interface that is not in the table finds a position.
LEMMA NoOverrun ==
    ASSUME Few, NEW k, NEW t, Good(k, t), NEW i \in If, Named(t, i) = {}
    PROVE  Unset(t) # {}
<1> SUFFICES ASSUME Unset(t) = {} PROVE FALSE
  OBVIOUS
<1> DEFINE S == If \ {i}
           once == \A j : ~ Renamed(k, j)
           D == IF once THEN Slot ELSE Slot \ {0}
           g == [n \in D |-> t.slot[n].name]
<1>1. IsFiniteSet(Slot) /\ Cardinality(Slot) = VRRP_LINK_MAX_CNT
  <2>1. /\ 0 \in Int /\ VRRP_LINK_MAX_CNT - 1 \in Int
        /\ ~(0 > VRRP_LINK_MAX_CNT - 1)
        /\ (VRRP_LINK_MAX_CNT - 1) - 0 + 1 = VRRP_LINK_MAX_CNT
    BY MaxAssumption
  <2> QED BY <2>1, SlotFacts, FS_Interval
<1>2. IsFiniteSet(S) /\ Cardinality(S) = Cardinality(If) - 1
  BY FS_RemoveElement DEF Few
<1>3. IsFiniteSet(D) /\ Cardinality(S) < Cardinality(D)
  <2>1. Cardinality(If) \in Nat
    BY FS_CardinalityType DEF Few
  <2>2. CASE once
    BY <1>1, <1>2, <2>1, <2>2, MaxAssumption DEF Few
  <2>3. CASE ~ once
    <3>1. Cardinality(If) < VRRP_LINK_MAX_CNT
      BY <2>3 DEF Few, Renamed
    <3>2. /\ IsFiniteSet(Slot \ {0})
          /\ Cardinality(Slot \ {0}) = VRRP_LINK_MAX_CNT - 1
      BY <1>1, SlotFacts, FS_RemoveElement
    <3> QED BY <1>2, <2>1, <2>3, <3>1, <3>2, MaxAssumption
  <2> QED BY <2>2, <2>3
<1>4. \A n \in Slot : t.slot[n].set /\ t.slot[n].name \in S
  <2> SUFFICES ASSUME NEW n \in Slot
               PROVE  t.slot[n].set /\ t.slot[n].name \in S
    OBVIOUS
  <2>1. t.slot[n].set
    BY DEF Unset
  <2>2. t.slot[n].name # i
    BY <2>1 DEF Named
  <2>3. t.slot[n].name \in If
    BY <2>1 DEF Good, Table, SlotState
  <2> QED BY <2>1, <2>2, <2>3
<1>5. g \in [D -> S]
  BY <1>4
<1> HIDE DEF S, g, D
<1>6. \E m, n \in D : m # n /\ g[m] = g[n]
  BY <1>2, <1>3, <1>5, FS_PigeonHole
<1>7. PICK m \in D, n \in D : m # n /\ t.slot[m].name = t.slot[n].name
  BY <1>6 DEF g
<1>8. m \in Slot /\ n \in Slot /\ (once \/ 0 \notin {m, n})
  BY DEF D
<1> QED BY <1>4, <1>7, <1>8 DEF Good

\* The count does not depend on the marks.
LEMMA TightSame ==
    ASSUME NEW t, NEW u, Tight(t), SameTable(t, u)
    PROVE  Tight(u)
<1>1. Used(u) = Used(t)
  BY DEF Used, SameTable, SameSlot
<1> QED BY <1>1 DEF Tight, SameTable, SameSlot

\* An array just cleared counts no address.
LEMMA TightEmpty == Tight(EmptyTable) /\ EmptyTable.n4 = 0
<1>1. /\ \A n \in Slot : EmptyTable.slot[n] = EmptySlot
      /\ EmptyTable.n4 = 0 /\ EmptySlot.set = FALSE /\ EmptySlot.v4 = None
  BY DEF EmptyTable, EmptySlot
<1>2. Used(EmptyTable) = {}
  BY <1>1 DEF Used
<1> QED BY <1>1, <1>2, FS_EmptySet DEF Tight

\* The array of a link type just started counts one.
LEMMA TightStarted ==
    ASSUME NEW i \in If, NEW a \in Vip
    PROVE  LET t == add_ipaddr(add_to_linkvif(EmptyTable, 0, i, TRUE), 0, a)
           IN  Tight(t) /\ t.n4 = 1
<1> DEFINE t == add_ipaddr(add_to_linkvif(EmptyTable, 0, i, TRUE), 0, a)
<1>0. /\ \A k : Good(k, t)
      /\ t.n4 = 1
      /\ t.slot[0].set /\ t.slot[0].v4 = a
      /\ \A n \in Slot : /\ n # 0 => t.slot[n] = EmptySlot
                         /\ t.slot[n].ll = None /\ t.slot[n].gl = None
  BY ONLY StartedTable, i \in If, a \in Vip
<1>1. /\ t.n4 = 1 /\ t.slot[0].set /\ t.slot[0].v4 = a
      /\ \A n \in Slot : n # 0 => t.slot[n] = EmptySlot
  BY <1>0
<1> HIDE DEF t
<1>2. EmptySlot.set = FALSE /\ EmptySlot.v4 = None /\ a # None /\ 0 \in Slot
  BY NullAssumption, SlotFacts DEF EmptySlot
<1>3. Used(t) = {0}
  BY <1>1, <1>2 DEF Used
<1>4. Cardinality({0}) = 1
  BY FS_Singleton
<1>5. \A n \in Slot : t.slot[n].set <=> t.slot[n].v4 # None
  BY <1>1, <1>2
<1>6. Tight(t)
  BY <1>1, <1>3, <1>4, <1>5 DEF Tight
<1> QED BY <1>1, <1>6 DEF t

\* had_add_vip adds one and counts it.
LEMMA TightAdd ==
    ASSUME NEW k, NEW t, Good(k, t), Tight(t), NEW n \in Unset(t), NEW i \in If,
           NEW a \in Vip, NEW ok \in BOOLEAN
    PROVE  LET u == add_to_linkvif(t, n, i, ok)
               v == IF ok THEN add_ipaddr(u, n, a) ELSE u
           IN  Tight(v) /\ v.n4 >= t.n4
<1> DEFINE u == add_to_linkvif(t, n, i, ok)
           w == add_ipaddr(u, n, a)
<1>1. t \in Table /\ n \in Slot /\ ~t.slot[n].set /\ t.slot[n].v4 = None
  BY DEF Good, Unset, Tight
<1>2. /\ u \in Table /\ Elsewhere(t, u, n) /\ u.n4 = t.n4
      /\ u.slot[n].set = (ok \/ t.slot[n].set) /\ u.slot[n].v4 = t.slot[n].v4
  BY <1>1, AddLinkEffect
<1> HIDE DEF u
<1>3. /\ Rewritten(u, w, n) /\ w.n4 = u.n4 + 1 /\ w.slot[n].v4 = a
  BY <1>1, <1>2, AddIpaddrEffect
<1> HIDE DEF w
<1>4. a # None /\ t.n4 \in Int
  BY <1>1, NullAssumption DEF Table
<1>5. ASSUME ok PROVE Tight(w) /\ w.n4 >= t.n4
  <2>1. Used(w) = Used(t) \cup {n}
    BY <1>1, <1>2, <1>3, <1>4 DEF Used, Rewritten, Elsewhere
  <2>2. n \notin Used(t)
    BY <1>1 DEF Used
  <2>3. Cardinality(Used(w)) = Cardinality(Used(t)) + 1
    BY <2>1, <2>2, UsedFinite, FS_AddElement
  <2>4. \A m \in Slot : w.slot[m].set <=> w.slot[m].v4 # None
    <3>1. w.slot[n].set /\ w.slot[n].v4 # None
      BY <1>2, <1>3, <1>4, <1>5 DEF Rewritten
    <3>2. \A m \in Slot : m # n => w.slot[m] = t.slot[m]
      BY <1>2, <1>3 DEF Rewritten, Elsewhere
    <3> QED BY <3>1, <3>2 DEF Tight
  <2>5. w.n4 = t.n4 + 1
    BY <1>2, <1>3
  <2> QED BY <1>4, <2>3, <2>4, <2>5 DEF Tight
<1>6. ASSUME ~ok PROVE Tight(u) /\ u.n4 >= t.n4
  <2>1. Used(u) = Used(t)
    BY <1>1, <1>2 DEF Used, Elsewhere
  <2>2. \A m \in Slot : u.slot[m].set <=> u.slot[m].v4 # None
    BY <1>1, <1>2, <1>6 DEF Elsewhere, Tight
  <2> QED BY <1>2, <1>4, <2>1, <2>2 DEF Tight
<1> QED BY <1>5, <1>6 DEF u, w

\* had_delete_vip takes one away and counts that.
LEMMA TightDelete ==
    ASSUME V6 = {}, NEW k, NEW t, Good(k, t), Tight(t), NEW n \in Slot, t.slot[n].set
    PROVE  LET v == del_from_linkvif(del_addr(t, n, "v4"), n)
           IN  Tight(v) /\ v.n4 = t.n4 - 1 /\ t.n4 >= 1
<1> DEFINE u == del_addr(t, n, "v4")
           v == del_from_linkvif(u, n)
<1>1. t \in Table /\ t.slot[n].v4 # None /\ "v4" \in Field
  BY DEF Good, Tight, Field
<1>2. /\ t.slot[n] \in SlotState /\ t.n4 \in Int
      /\ t.slot[n].ll = None /\ t.slot[n].gl = None
  BY <1>1 DEF Table, SlotState
<1>3. /\ Rewritten(t, u, n) /\ u.n4 = t.n4 - 1 /\ u.slot[n].v4 = None
      /\ u.slot[n].ll = None /\ u.slot[n].gl = None
  BY <1>1, <1>2, DelAddrEffect
<1>4. u \in Table
  BY <1>3 DEF Rewritten
<1> HIDE DEF u
<1>5. /\ Elsewhere(u, v, n) /\ v.n4 = u.n4
      /\ v.slot[n].set = FALSE /\ v.slot[n].v4 = None
  <2>1. /\ Elsewhere(u, v, n) /\ v.n4 = u.n4
        /\ v.slot[n].set = (~(u.slot[n].v4 = None /\ u.slot[n].ll = None
                                /\ u.slot[n].gl = None) /\ u.slot[n].set)
        /\ v.slot[n].v4 = u.slot[n].v4
    BY <1>4, DelLinkEffect
  <2> QED BY <1>3, <2>1
<1> HIDE DEF v
<1>6. \A m \in Slot : m # n => v.slot[m] = t.slot[m]
  BY <1>3, <1>5 DEF Rewritten, Elsewhere
<1>7. Used(v) = Used(t) \ {n}
  BY <1>5, <1>6 DEF Used
<1>8. n \in Used(t)
  BY <1>1 DEF Used
<1>9. Cardinality(Used(v)) = Cardinality(Used(t)) - 1
  BY <1>7, <1>8, UsedFinite, FS_RemoveElement
<1>10. \A m \in Slot : v.slot[m].set <=> v.slot[m].v4 # None
  BY <1>5, <1>6 DEF Tight
<1>11. Cardinality(Used(v)) \in Nat /\ Cardinality(Used(t)) \in Nat
  BY UsedFinite
<1>12. v.n4 = t.n4 - 1
  BY <1>3, <1>5
<1>13. Tight(v) /\ t.n4 >= 1
  BY <1>9, <1>10, <1>11, <1>12 DEF Tight
<1> QED BY <1>12, <1>13 DEF u, v

CountInv == \A k \in Kind : Tight(tab[k])

\* had_ipaddr_ops changes no count.
LEMMA SameCounts ==
    ASSUME IInv, CountInv, NEW add \in BOOLEAN
    PROVE  LET T == after_ops(add).tab
           IN  \A k \in Kind : Tight(T[k])
<1> DEFINE q == after_ops(add)
<1>1. OpsEffect(Now, q, add) /\ Now.tab = tab
  BY NowPairs, OpsAll
<1> HIDE DEF q
<1>2. \A k \in Kind : SameTable(tab[k], q.tab[k])
  BY <1>1 DEF OpsEffect
<1>3. \A k \in Kind : Tight(q.tab[k])
  BY <1>2, TightSame DEF CountInv
<1> QED BY <1>3 DEF q

\* One table changed: the counts of the others are still right.
LEMMA OneCounted ==
    ASSUME IInv, CountInv, NEW k \in Kind, NEW u, Tight(u),
           tab' = [tab EXCEPT ![k] = u]
    PROVE  CountInv'
<1>1. tab'[k] = u /\ \A j \in Kind : j # k => tab'[j] = tab[j]
  BY DEF IInv, GoodTabs
<1>2. \A j \in Kind : Tight(tab'[j])
  BY <1>1 DEF CountInv
<1>3. \A j \in Kind : Tight(tab'[j]) => Tight(tab[j])'
  BY DEF Tight, Used
<1> QED BY <1>2, <1>3 DEF CountInv

\* An added address is counted.
LEMMA AddVipCounted ==
    ASSUME IInv, CountInv, NEW k \in Kind, NEW i \in If, NEW a \in Vip,
           NEW ok \in BOOLEAN, add_vip(k, i, a, ok)
    PROVE  CountInv'
<1> DEFINE n == index(tab[k], i)
           t == add_to_linkvif(tab[k], n, i, ok)
           u == IF ok THEN add_ipaddr(t, n, a) ELSE t
<1>1. /\ tab' = [tab EXCEPT ![k] = u]
      /\ Named(tab[k], i) = {} /\ n # -1
  BY DEF add_vip
<1>2. n \in Unset(tab[k])
  BY <1>1, Index
<1>3. Good(k, tab[k]) /\ Tight(tab[k])
  BY DEF IInv, GoodTabs, CountInv
<1> HIDE DEF n
<1>4. Tight(u)
  BY <1>2, <1>3, TightAdd
<1> HIDE DEF u
<1> QED BY <1>1, <1>4, OneCounted

\* A deleted address is no longer counted, and no handler goes on with index -1.
LEMMA DeleteCounted ==
    ASSUME V6 = {}, Few, IInv, CountInv, NEW k \in Kind, NEW i \in If,
           delete_vip(k, i)
    PROVE  CountInv'
<1> DEFINE n == index(tab[k], i)
           u == del_from_linkvif(del_addr(tab[k], n, "v4"), n)
<1>1. Good(k, tab[k]) /\ Tight(tab[k])
  BY DEF IInv, GoodTabs, CountInv
<1>2. Named(tab[k], i) # {}
  <2>1. Named(tab[k], i) # {} \/ Unset(tab[k]) = {}
    BY DEF delete_vip, delete
  <2> QED BY <1>1, <2>1, NoOverrun
<1>3. tab' = [tab EXCEPT ![k] = u]
  BY <1>2 DEF delete_vip, delete
<1>4. n \in Slot /\ tab[k].slot[n].set
  BY <1>2, Index DEF Named
<1> HIDE DEF n
<1>5. Tight(u)
  BY <1>1, <1>4, TightDelete
<1> HIDE DEF u
<1> QED BY <1>3, <1>5, OneCounted

\* The arrays had_start leaves are counted.
LEMMA StartCounted ==
    ASSUME NEW K \in SUBSET (Link \cap Kind), NEW c \in [K -> If \X Vip]
    PROVE  /\ \A k \in Kind : Tight(started(c)[k])
           /\ \A k \in K : started(c)[k].n4 = 1
<1>1. ASSUME NEW k \in K
      PROVE  Tight(started(c)[k]) /\ started(c)[k].n4 = 1
  <2>1. c[k][1] \in If /\ c[k][2] \in Vip /\ k \in Kind
    OBVIOUS
  <2>2. started(c)[k]
          = add_ipaddr(add_to_linkvif(EmptyTable, 0, c[k][1], TRUE), 0, c[k][2])
    BY <2>1 DEF started
  <2> QED BY <2>1, <2>2, TightStarted
<1>2. ASSUME NEW k \in Kind, k \notin K PROVE Tight(started(c)[k])
  <2>1. started(c)[k] = EmptyTable
    BY <1>2 DEF started
  <2> QED BY <2>1, TightEmpty
<1> QED BY <1>1, <1>2

\* Every step keeps the counts.
LEMMA StepCount ==
    ASSUME V6 = {}, Few
    PROVE  IInv /\ CountInv /\ [Next]_vars => CountInv'
<1> SUFFICES ASSUME IInv, CountInv, [Next]_vars PROVE CountInv'
  OBVIOUS
<1>0. ASSUME NEW T, tab' = T, \A k \in Kind : Tight(T[k])
      PROVE  CountInv'
  BY <1>0 DEF CountInv, Tight, Used
<1>1. CASE \E K \in (SUBSET (Link \cap Kind)) \ {{}} :
             \E c \in [K -> If \X Vip], ok \in BOOLEAN : Start(c, ok)
  <2>1. PICK K \in (SUBSET (Link \cap Kind)) \ {{}} :
          \E c \in [K -> If \X Vip], ok \in BOOLEAN : Start(c, ok)
    BY <1>1
  <2>2. PICK c \in [K -> If \X Vip], ok \in BOOLEAN : Start(c, ok)
    BY <2>1
  <2>3. tab' = IF ok THEN started(c) ELSE NoTables
    BY <2>2 DEF Start, start, end
  <2>4. CASE ok
    <3>1. \A k \in Kind : Tight(started(c)[k])
      <4>1. K \in SUBSET (Link \cap Kind)
        OBVIOUS
      <4> QED BY <4>1, StartCounted
    <3> QED BY <1>0, <2>3, <2>4, <3>1
  <2>5. CASE ~ok
    <3>1. \A k \in Kind : Tight(NoTables[k])
      BY TightEmpty DEF NoTables
    <3> QED BY <1>0, <2>3, <2>5, <3>1
  <2> QED BY <2>4, <2>5
<1>2. CASE \E K \in (SUBSET (Link \cap Kind)) \ {{}} :
             \E c \in [K -> If \X V6], f \in {"ll", "gl"}, ok \in SUBSET K :
               Start6(c, f, ok)
  <2>1. PICK K \in (SUBSET (Link \cap Kind)) \ {{}} : [K -> If \X V6] # {}
    BY <1>2
  <2>2. PICK c \in [K -> If \X V6] : TRUE
    BY <2>1
  <2>3. PICK k \in K : TRUE
    OBVIOUS
  <2>4. c[k] \in If \X V6
    OBVIOUS
  <2> QED BY <2>4
<1>3. CASE End
  <2>1. tab' = NoTables
    BY <1>3 DEF End, end
  <2>2. \A k \in Kind : Tight(NoTables[k])
    BY TightEmpty DEF NoTables
  <2> QED BY <1>0, <2>1, <2>2
<1>4. CASE \E k \in Kind \cap Link, i \in If :
             DelVip(k, i) \/ \E a \in Vip, ok \in BOOLEAN : AddVip(k, i, a, ok)
  BY <1>4, DeleteCounted, AddVipCounted DEF DelVip, AddVip
<1>5. CASE \E k \in Kind \cap {"VGATEWAY"}, i \in If, a \in Vip :
             NoVGateway(i, a) \/ \E ok \in BOOLEAN : VGateway(i, a, ok)
  BY <1>5, DeleteCounted, AddVipCounted DEF NoVGateway, VGateway
<1>6. CASE \E k \in Kind, i \in If, f \in {"ll", "gl"} :
             \/ DelVip6(k, i, f)
             \/ \E a \in V6, ok \in BOOLEAN : AddVip6(k, i, a, f, ok)
  BY <1>6 DEF DelVip6
<1>7. CASE Enable \/ UNCHANGED vars
  <2>1. tab' = tab
    BY <1>7 DEF Enable, vars
  <2> QED BY <1>0, <2>1 DEF CountInv
<1>8. CASE Disable \/ GotoMaster \/ LeaveMaster
  <2>1. \A add \in BOOLEAN :
          LET T == after_ops(add).tab IN \A k \in Kind : Tight(T[k])
    BY SameCounts
  <2>2. tab' = tab \/ tab' = after_ops(TRUE).tab \/ tab' = after_ops(FALSE).tab
    BY <1>8 DEF Disable, GotoMaster, LeaveMaster, end
  <2>3. CASE tab' = tab
    BY <1>0, <2>2, <2>3 DEF CountInv
  <2>4. CASE tab' = after_ops(TRUE).tab
    BY <1>0, <2>1, <2>2, <2>4
  <2>5. CASE tab' = after_ops(FALSE).tab
    BY <1>0, <2>1, <2>2, <2>5
  <2> QED BY <2>2, <2>3, <2>4, <2>5
<1> QED BY <1>1, <1>2, <1>3, <1>4, <1>5, <1>6, <1>7, <1>8 DEF Next

\* Without IPv6 addresses, and with no more interfaces than positions, the
\* counter of a link is the number of its IPv4 virtual addresses.
THEOREM CountStaysRight ==
    ASSUME V6 = {}, IsFiniteSet(If), Cardinality(If) <= VRRP_LINK_MAX_CNT
    PROVE  Spec => []CountRight
<1>0. Few
  BY DEF Few
<1>1. Init => CountInv
  BY TightEmpty DEF Init, CountInv, NoTables
<1>2. IInv /\ CountInv /\ [Next]_vars => CountInv'
  BY <1>0, StepCount
<1>3. CountInv => CountRight
  BY DEF CountInv, Tight, Used, CountRight
<1> QED BY <1>1, <1>2, <1>3, Invariance, PTL DEF Spec

-----------------------------------------------------------------------------
(* The last address.  With IPv6 addresses the counter may be too low, since  *)
(* had_delete_vip counts the deletion of an address that a position with     *)
(* only IPv6 addresses does not have; it is never too high.                  *)

Loose(t) ==
    /\ \A n \in Slot : t.slot[n].v4 # None => t.slot[n].set
    /\ t.n4 <= Cardinality(Used(t))

\* The IPv4 addresses and their counter are the same, and no position that has
\* one is given back.
Same4(t, u) ==
    /\ u.n4 = t.n4
    /\ \A n \in Slot : /\ u.slot[n].v4 = t.slot[n].v4
                       /\ t.slot[n].v4 # None /\ t.slot[n].set => u.slot[n].set

\* A step that leaves the IPv4 addresses alone keeps the counter low enough.
LEMMA LooseSame ==
    ASSUME NEW t, NEW u, Loose(t), Same4(t, u)
    PROVE  Loose(u)
<1>1. Used(u) = Used(t)
  BY DEF Used, Same4
<1> QED BY <1>1 DEF Loose, Same4

\* A right counter is not too high.
LEMMA TightLoose ==
    ASSUME NEW t, Tight(t)
    PROVE  Loose(t)
BY UsedFinite DEF Tight, Loose

\* had_add_vip adds one and counts it.
LEMMA LooseAdd ==
    ASSUME NEW k, NEW t, Good(k, t), Loose(t), NEW n \in Unset(t), NEW i \in If,
           NEW a \in Vip, NEW ok \in BOOLEAN
    PROVE  LET u == add_to_linkvif(t, n, i, ok)
               v == IF ok THEN add_ipaddr(u, n, a) ELSE u
           IN  Loose(v) /\ v.n4 >= t.n4
<1> DEFINE u == add_to_linkvif(t, n, i, ok)
           w == add_ipaddr(u, n, a)
<1>1. t \in Table /\ n \in Slot /\ ~t.slot[n].set /\ t.slot[n].v4 = None
  BY DEF Good, Unset, Loose
<1>2. /\ u \in Table /\ Elsewhere(t, u, n) /\ u.n4 = t.n4
      /\ u.slot[n].set = (ok \/ t.slot[n].set) /\ u.slot[n].v4 = t.slot[n].v4
  BY <1>1, AddLinkEffect
<1> HIDE DEF u
<1>3. /\ Rewritten(u, w, n) /\ w.n4 = u.n4 + 1 /\ w.slot[n].v4 = a
  BY <1>1, <1>2, AddIpaddrEffect
<1> HIDE DEF w
<1>4. a # None /\ t.n4 \in Int
  BY <1>1, NullAssumption DEF Table
<1>5. ASSUME ok PROVE Loose(w) /\ w.n4 >= t.n4
  <2>1. Used(w) = Used(t) \cup {n}
    BY <1>1, <1>2, <1>3, <1>4 DEF Used, Rewritten, Elsewhere
  <2>2. n \notin Used(t)
    BY <1>1 DEF Used
  <2>3. Cardinality(Used(w)) = Cardinality(Used(t)) + 1
    BY <2>1, <2>2, UsedFinite, FS_AddElement
  <2>4. \A m \in Slot : w.slot[m].v4 # None => w.slot[m].set
    <3>1. w.slot[n].set
      BY <1>2, <1>3, <1>5 DEF Rewritten
    <3>2. \A m \in Slot : m # n => w.slot[m] = t.slot[m]
      BY <1>2, <1>3 DEF Rewritten, Elsewhere
    <3> QED BY <3>1, <3>2 DEF Loose
  <2>5. w.n4 = t.n4 + 1 /\ Cardinality(Used(t)) \in Nat
    BY <1>2, <1>3, UsedFinite
  <2> QED BY <1>4, <2>3, <2>4, <2>5 DEF Loose
<1>6. ASSUME ~ok PROVE Loose(u) /\ u.n4 >= t.n4
  <2>1. Same4(t, u)
    BY <1>1, <1>2 DEF Same4, Elsewhere
  <2> QED BY <1>2, <1>4, <2>1, LooseSame
<1> QED BY <1>5, <1>6 DEF u, w

\* had_delete_vip takes at most one away and counts one.
LEMMA LooseDelete ==
    ASSUME NEW k, NEW t, Good(k, t), Loose(t), NEW n \in Slot
    PROVE  LET v == del_from_linkvif(del_addr(t, n, "v4"), n)
           IN  Loose(v) /\ v.n4 = t.n4 - 1
<1> DEFINE u == del_addr(t, n, "v4")
           v == del_from_linkvif(u, n)
<1>1. t \in Table /\ "v4" \in Field
  BY DEF Good, Field
<1>2. t.n4 \in Int
  BY <1>1 DEF Table
<1>3. Rewritten(t, u, n) /\ u.n4 = t.n4 - 1 /\ u.slot[n].v4 = None
  BY <1>1, DelAddrEffect
<1>4. u \in Table
  BY <1>3 DEF Rewritten
<1> HIDE DEF u
<1>5. Elsewhere(u, v, n) /\ v.n4 = u.n4 /\ v.slot[n].v4 = u.slot[n].v4
  BY <1>4, DelLinkEffect
<1> HIDE DEF v
<1>6. \A m \in Slot : m # n => v.slot[m] = t.slot[m]
  BY <1>3, <1>5 DEF Rewritten, Elsewhere
<1>7. Used(v) = Used(t) \ {n}
  BY <1>3, <1>5, <1>6 DEF Used
<1>8. Cardinality(Used(v)) >= Cardinality(Used(t)) - 1
  <2>0. IsFiniteSet(Used(t)) /\ Cardinality(Used(t)) \in Nat
    BY UsedFinite
  <2>1. CASE n \in Used(t)
    <3>1. Cardinality(Used(t) \ {n}) = Cardinality(Used(t)) - 1
      BY <2>0, <2>1, FS_RemoveElement
    <3> QED BY <1>7, <2>0, <3>1
  <2>2. CASE n \notin Used(t)
    <3>1. Used(v) = Used(t)
      BY <1>7, <2>2
    <3> QED BY <2>0, <3>1
  <2> QED BY <2>1, <2>2
<1>9. \A m \in Slot : v.slot[m].v4 # None => v.slot[m].set
  BY <1>3, <1>5, <1>6 DEF Loose
<1>10. Cardinality(Used(v)) \in Nat /\ Cardinality(Used(t)) \in Nat
  BY UsedFinite
<1>11. v.n4 = t.n4 - 1
  BY <1>3, <1>5
<1>12. Loose(v)
  BY <1>2, <1>8, <1>9, <1>10, <1>11 DEF Loose
<1> QED BY <1>11, <1>12 DEF u, v

\* had_delete_vipv6 leaves the IPv4 addresses alone.
LEMMA Delete6Same ==
    ASSUME NEW t \in Table, NEW n \in Slot, NEW f \in {"ll", "gl"}
    PROVE  Same4(t, del_from_linkvif(del_addr(t, n, f), n))
<1> DEFINE u == del_addr(t, n, f)
           v == del_from_linkvif(u, n)
<1>1. f \in Field /\ f # "v4"
  BY DEF Field
<1>2. Rewritten(t, u, n) /\ u.n4 = t.n4 /\ u.slot[n].v4 = t.slot[n].v4
  BY <1>1, DelAddrEffect
<1>3. u \in Table
  BY <1>2 DEF Rewritten
<1> HIDE DEF u
<1>4. /\ Elsewhere(u, v, n) /\ v.n4 = u.n4 /\ v.slot[n].v4 = u.slot[n].v4
      /\ v.slot[n].set = (~(u.slot[n].v4 = None /\ u.slot[n].ll = None
                              /\ u.slot[n].gl = None) /\ u.slot[n].set)
  BY <1>3, DelLinkEffect
<1> HIDE DEF v
<1>5. Same4(t, v)
  BY <1>2, <1>4 DEF Same4, Rewritten, Elsewhere
<1> QED BY <1>5 DEF u, v

\* had_add_vipv6 leaves the IPv4 addresses alone.
LEMMA Add6Same ==
    ASSUME NEW t \in Table, NEW n \in Slot, NEW i \in If, NEW a \in V6,
           NEW f \in {"ll", "gl"}, NEW ok \in BOOLEAN
    PROVE  LET u == add_to_linkvif(t, n, i, ok)
           IN  Same4(t, IF ok THEN add_ip6addr(u, n, f, a) ELSE u)
<1> DEFINE u == add_to_linkvif(t, n, i, ok)
           w == add_ip6addr(u, n, f, a)
<1>1. /\ u \in Table /\ Elsewhere(t, u, n) /\ u.n4 = t.n4
      /\ u.slot[n].set = (ok \/ t.slot[n].set) /\ u.slot[n].v4 = t.slot[n].v4
  BY AddLinkEffect
<1> HIDE DEF u
<1>2. Rewritten(u, w, n) /\ w.slot[n].v4 = u.slot[n].v4 /\ w.n4 = u.n4
  BY <1>1, AddIp6Effect
<1> HIDE DEF w
<1>3. Same4(t, u)
  BY <1>1 DEF Same4, Elsewhere
<1>4. Same4(t, w)
  BY <1>1, <1>2 DEF Same4, Rewritten, Elsewhere
<1> QED BY <1>3, <1>4 DEF u, w

\* had_ipv6_start leaves the IPv4 addresses alone.
LEMMA Start6Same ==
    ASSUME NEW t \in Table, NEW i \in If, NEW a \in V6, NEW f \in {"ll", "gl"},
           NEW bad \in BOOLEAN
    PROVE  /\ Same4(t, start6_up(t, i, a, f, bad))
           /\ Same4(t, start6_down(t, i, a, f, bad))
<1>0. 0 \in Slot
  BY SlotFacts
<1>1. ASSUME NEW u \in Table, u.n4 = t.n4,
             \A n \in Slot : /\ u.slot[n].v4 = t.slot[n].v4
                             /\ u.slot[n].set = t.slot[n].set
      PROVE  /\ Same4(t, u) /\ Same4(t, add_ip6addr(u, 0, f, a))
             /\ Same4(t, [add_ip6addr(u, 0, f, a) EXCEPT !.flag = TRUE])
  <2> DEFINE w == add_ip6addr(u, 0, f, a)
  <2>1. Rewritten(u, w, 0) /\ w.slot[0].v4 = u.slot[0].v4 /\ w.n4 = u.n4
    BY <1>0, AddIp6Effect
  <2> HIDE DEF w
  <2>2. w \in Table /\ Elsewhere(u, w, 0) /\ w.slot[0].set = u.slot[0].set
    BY <2>1 DEF Rewritten
  <2>3. Same4(t, u) /\ Same4(t, w)
    BY <1>1, <2>1, <2>2 DEF Same4, Elsewhere
  <2>4. Same4(t, [w EXCEPT !.flag = TRUE])
    BY <2>2, <2>3 DEF Same4, Table
  <2> QED BY <2>3, <2>4 DEF w
<1> DEFINE x == [t.slot[0] EXCEPT !.name = i]
           v(b) == [t EXCEPT !.flag = b, !.slot = [t.slot EXCEPT ![0] = x]]
<1>2. x \in SlotState /\ x.v4 = t.slot[0].v4 /\ x.set = t.slot[0].set
  BY <1>0 DEF Table, SlotState
<1> HIDE DEF x
<1>3. ASSUME NEW b \in BOOLEAN
      PROVE  /\ v(b) \in Table /\ v(b).n4 = t.n4
             /\ \A n \in Slot : /\ v(b).slot[n].v4 = t.slot[n].v4
                                /\ v(b).slot[n].set = t.slot[n].set
  BY <1>0, <1>2 DEF Table
<1>4. /\ [t EXCEPT !.flag = TRUE, !.slot[0].name = i] = v(TRUE)
      /\ [t EXCEPT !.slot[0].name = i] = v(t.flag)
      /\ t.flag \in BOOLEAN
  BY <1>0 DEF x, Table, SlotState
<1>5. Same4(t, start6_up(t, i, a, f, bad))
  <2> DEFINE w == [t EXCEPT !.flag = TRUE, !.slot[0].name = i]
             u == IF t.slot[0].name = None THEN w ELSE t
  <2>0. /\ w \in Table /\ w.n4 = t.n4
        /\ \A n \in Slot : /\ w.slot[n].v4 = t.slot[n].v4
                           /\ w.slot[n].set = t.slot[n].set
    <3>1. TRUE \in BOOLEAN /\ w = v(TRUE)
      BY <1>4
    <3> HIDE DEF w, v
    <3> QED BY <1>3, <3>1
  <2> HIDE DEF w
  <2>1. /\ u \in Table /\ u.n4 = t.n4
        /\ \A n \in Slot : /\ u.slot[n].v4 = t.slot[n].v4
                           /\ u.slot[n].set = t.slot[n].set
    BY <2>0
  <2>2. start6_up(t, i, a, f, bad) = IF bad THEN u ELSE add_ip6addr(u, 0, f, a)
    BY DEF start6_up, w
  <2> HIDE DEF u
  <2> QED BY <1>1, <2>1, <2>2
<1>6. Same4(t, start6_down(t, i, a, f, bad))
  <2> DEFINE u == [t EXCEPT !.slot[0].name = i]
  <2>1. /\ u \in Table /\ u.n4 = t.n4
        /\ \A n \in Slot : /\ u.slot[n].v4 = t.slot[n].v4
                           /\ u.slot[n].set = t.slot[n].set
    <3>1. t.flag \in BOOLEAN /\ u = v(t.flag)
      BY <1>4
    <3> HIDE DEF u, v
    <3> QED BY <1>3, <3>1
  <2>2. start6_down(t, i, a, f, bad)
          = IF bad THEN u ELSE [add_ip6addr(u, 0, f, a) EXCEPT !.flag = TRUE]
    BY DEF start6_down
  <2> HIDE DEF u
  <2> QED BY <1>1, <2>1, <2>2
<1> QED BY <1>5, <1>6

\* An instance has a counted address on an uplink or downlink.
Counted(T) == \E k \in Kind \cap Link : T[k].n4 >= 1

KeptInv ==
    /\ \A k \in Kind : Loose(tab[k])
    /\ vrrp => Counted(tab)

\* An edit of one table leaves an address when the link edited had one counted
\* and still has.
LEMMA OneKept ==
    ASSUME IInv, KeptInv, NEW k \in Kind, NEW u, Loose(u),
           k \in Link /\ tab[k].n4 >= 1 => u.n4 >= 1,
           tab' = [tab EXCEPT ![k] = u], vrrp' = vrrp
    PROVE  KeptInv'
<1>1. tab'[k] = u /\ \A j \in Kind : j # k => tab'[j] = tab[j]
  BY DEF IInv, GoodTabs
<1>2. \A j \in Kind : Loose(tab'[j])
  BY <1>1 DEF KeptInv
<1>3. ASSUME vrrp PROVE Counted(tab')
  <2>1. PICK j \in Kind \cap Link : tab[j].n4 >= 1
    BY <1>3 DEF KeptInv, Counted
  <2>2. tab'[j].n4 >= 1
    BY <1>1, <2>1
  <2> QED BY <2>2 DEF Counted
<1>4. \A j \in Kind : Loose(tab'[j]) => Loose(tab[j])'
  BY DEF Loose, Used
<1>5. Counted(tab') => Counted(tab)'
  BY DEF Counted
<1> QED BY <1>2, <1>3, <1>4, <1>5 DEF KeptInv

\* A step that leaves the IPv4 addresses alone leaves the last one, too.
LEMMA SameKept ==
    ASSUME KeptInv, \A k \in Kind : Same4(tab[k], tab'[k]), vrrp' = vrrp
    PROVE  KeptInv'
<1>1. \A k \in Kind : Loose(tab'[k])
  BY LooseSame DEF KeptInv
<1>2. vrrp => Counted(tab')
  BY DEF KeptInv, Counted, Same4
<1>3. \A k \in Kind : Loose(tab'[k]) => Loose(tab[k])'
  BY DEF Loose, Used
<1>4. Counted(tab') => Counted(tab)'
  BY DEF Counted
<1> QED BY <1>1, <1>2, <1>3, <1>4 DEF KeptInv

\* An added address is counted.
LEMMA AddVipKept ==
    ASSUME IInv, KeptInv, NEW k \in Kind, NEW i \in If, NEW a \in Vip,
           NEW ok \in BOOLEAN, add_vip(k, i, a, ok)
    PROVE  KeptInv'
<1> DEFINE n == index(tab[k], i)
           t == add_to_linkvif(tab[k], n, i, ok)
           u == IF ok THEN add_ipaddr(t, n, a) ELSE t
<1>1. /\ vrrp' = vrrp /\ tab' = [tab EXCEPT ![k] = u]
      /\ Named(tab[k], i) = {} /\ n # -1 /\ ~vip_exist(tab[k], a)
  BY DEF add_vip
<1>2. n \in Unset(tab[k]) /\ n \in Slot
  BY <1>1, Index DEF Unset
<1>3. Good(k, tab[k]) /\ Loose(tab[k])
  BY DEF IInv, GoodTabs, KeptInv
<1> HIDE DEF n
<1>4. Loose(u) /\ u.n4 >= tab[k].n4
  BY <1>2, <1>3, LooseAdd
<1>5. Good(k, u)
  BY <1>1, <1>2, <1>3, AddVipGood
<1> HIDE DEF u
<1>6. u.n4 \in Int /\ tab[k].n4 \in Int
  BY <1>3, <1>5 DEF Good, Table
<1>7. k \in Link /\ tab[k].n4 >= 1 => u.n4 >= 1
  BY <1>4, <1>6
<1> QED BY <1>1, <1>4, <1>6, <1>7, OneKept

\* A deletion does not take the last address counted, and does not go on with
\* index -1.
LEMMA DeleteKept ==
    ASSUME Few, IInv, KeptInv, NEW k \in Kind, NEW i \in If, NEW f \in Field,
           NEW x, delete(k, i, f, x), f = "v4" => x = tab[k].n4
    PROVE  KeptInv'
<1> DEFINE n == index(tab[k], i)
           u == del_from_linkvif(del_addr(tab[k], n, f), n)
<1>1. Good(k, tab[k]) /\ Loose(tab[k])
  BY DEF IInv, GoodTabs, KeptInv
<1>2. Named(tab[k], i) # {}
  <2>1. Named(tab[k], i) # {} \/ Unset(tab[k]) = {}
    BY DEF delete
  <2> QED BY <1>1, <2>1, NoOverrun
<1>3. /\ vrrp' = vrrp /\ tab' = [tab EXCEPT ![k] = u]
      /\ k \in Link => x # 1
  BY <1>2 DEF delete
<1>4. n \in Slot
  BY <1>2, Index DEF Named
<1> HIDE DEF n
<1>5. tab[k] \in Table /\ tab[k].n4 \in Int
  BY <1>1 DEF Good, Table
<1>6. CASE f = "v4"
  <2>1. Loose(u) /\ u.n4 = tab[k].n4 - 1
    BY <1>1, <1>4, <1>6, LooseDelete
  <2> HIDE DEF u
  <2>2. k \in Link /\ tab[k].n4 >= 1 => u.n4 >= 1
    BY <1>3, <1>5, <1>6, <2>1
  <2> QED BY <1>3, <2>1, <2>2, OneKept
<1>7. CASE f # "v4"
  <2>1. f \in {"ll", "gl"}
    BY <1>7 DEF Field
  <2>2. Same4(tab[k], u)
    BY <1>4, <1>5, <2>1, Delete6Same
  <2> HIDE DEF u
  <2>3. Loose(u) /\ u.n4 = tab[k].n4
    BY <1>1, <2>2, LooseSame DEF Same4
  <2> QED BY <1>3, <2>3, OneKept
<1> QED BY <1>6, <1>7

\* An added IPv6 address leaves the last IPv4 one.
LEMMA AddVip6Kept ==
    ASSUME IInv, KeptInv, NEW k \in Kind, NEW i \in If, NEW a \in V6,
           NEW f \in {"ll", "gl"}, NEW ok \in BOOLEAN, add_vipv6(k, i, a, f, ok)
    PROVE  KeptInv'
<1> DEFINE n == index(tab[k], i)
           t == add_to_linkvif(tab[k], n, i, ok)
           u == IF ok THEN add_ip6addr(t, n, f, a) ELSE t
<1>1. /\ vrrp' = vrrp /\ tab' = [tab EXCEPT ![k] = u] /\ n # -1
  BY DEF add_vipv6
<1>2. Good(k, tab[k]) /\ Loose(tab[k])
  BY DEF IInv, GoodTabs, KeptInv
<1>3. n \in Slot /\ tab[k] \in Table
  BY <1>1, <1>2, Index DEF Named, Unset, Good
<1> HIDE DEF n
<1>4. Same4(tab[k], u)
  BY <1>3, Add6Same
<1> HIDE DEF u
<1>5. Loose(u) /\ u.n4 = tab[k].n4
  BY <1>2, <1>4, LooseSame DEF Same4
<1> QED BY <1>1, <1>5, OneKept

\* had_ipv6_start leaves the last IPv4 address.
LEMMA Start6Kept ==
    ASSUME IInv, KeptInv, NEW K \in SUBSET (Link \cap Kind),
           NEW c \in [K -> If \X V6], NEW f \in {"ll", "gl"},
           NEW ok \in SUBSET K, Start6(c, f, ok)
    PROVE  KeptInv'
<1> DEFINE fail(k) == start6_fails(tab, k, f, ok)
           u == start6_up(tab["UPLINK"], c["UPLINK"][1], c["UPLINK"][2], f,
                          fail("UPLINK"))
           T == IF "UPLINK" \in K THEN [tab EXCEPT !["UPLINK"] = u] ELSE tab
           d == start6_down(T["DOWNLINK"], c["DOWNLINK"][1], c["DOWNLINK"][2],
                            f, fail("DOWNLINK"))
<1>0. tab \in [Kind -> Table]
  BY DEF IInv, GoodTabs
<1>1. /\ vrrp' = vrrp
      /\ \/ tab' = T
         \/ "DOWNLINK" \in K /\ tab' = [T EXCEPT !["DOWNLINK"] = d]
  BY DEF Start6, start6
<1>2. ASSUME NEW k \in K
      PROVE  /\ k \in Kind /\ c[k][1] \in If /\ c[k][2] \in V6
             /\ fail(k) \in BOOLEAN /\ tab[k] \in Table
  BY <1>0, <1>2 DEF start6_fails
<1>3. "DOWNLINK" \in K => T["DOWNLINK"] = tab["DOWNLINK"]
  BY <1>0
<1> HIDE DEF fail
<1>4. "UPLINK" \in K => Same4(tab["UPLINK"], u)
  BY <1>2, Start6Same
<1>5. "DOWNLINK" \in K => Same4(tab["DOWNLINK"], d)
  BY <1>2, <1>3, Start6Same
<1>6. \A k \in Kind : Same4(tab[k], tab[k])
  BY DEF Same4
<1> HIDE DEF u, d
<1>7. DOMAIN T = Kind /\ \A k \in Kind : Same4(tab[k], T[k])
  BY <1>0, <1>2, <1>4, <1>6
<1> HIDE DEF T
<1>8. \A k \in Kind : Same4(tab[k], tab'[k])
  BY <1>1, <1>2, <1>5, <1>7
<1> QED BY <1>1, <1>8, SameKept

\* Every step leaves an instance an address.
LEMMA StepKept ==
    ASSUME Few
    PROVE  IInv /\ KeptInv /\ [Next]_vars => KeptInv'
<1> SUFFICES ASSUME IInv, KeptInv, [Next]_vars PROVE KeptInv'
  OBVIOUS
<1>0. ASSUME NEW T, tab' = T, \A k \in Kind : Tight(T[k]), vrrp' => Counted(T)
      PROVE  KeptInv'
  <2>1. \A k \in Kind : Loose(T[k])
    BY <1>0, TightLoose
  <2> QED BY <1>0, <2>1 DEF KeptInv, Loose, Used, Counted
<1>1. CASE \E K \in (SUBSET (Link \cap Kind)) \ {{}} :
             \E c \in [K -> If \X Vip], ok \in BOOLEAN : Start(c, ok)
  <2>1. PICK K \in (SUBSET (Link \cap Kind)) \ {{}} :
          \E c \in [K -> If \X Vip], ok \in BOOLEAN : Start(c, ok)
    BY <1>1
  <2>2. PICK c \in [K -> If \X Vip], ok \in BOOLEAN : Start(c, ok)
    BY <2>1
  <2>3. vrrp' = ok /\ tab' = IF ok THEN started(c) ELSE NoTables
    BY <2>2 DEF Start, start, end
  <2>4. CASE ok
    <3>1. K \in SUBSET (Link \cap Kind)
      OBVIOUS
    <3>2. /\ \A k \in Kind : Tight(started(c)[k])
          /\ \A k \in K : started(c)[k].n4 = 1
      BY <3>1, StartCounted
    <3>3. PICK k \in K : TRUE
      OBVIOUS
    <3>4. Counted(started(c))
      BY <3>1, <3>2, <3>3 DEF Counted
    <3> QED BY <1>0, <2>3, <2>4, <3>2, <3>4
  <2>5. CASE ~ok
    <3>1. \A k \in Kind : Tight(NoTables[k])
      BY TightEmpty DEF NoTables
    <3> QED BY <1>0, <2>3, <2>5, <3>1
  <2> QED BY <2>4, <2>5
<1>2. CASE \E K \in (SUBSET (Link \cap Kind)) \ {{}} :
             \E c \in [K -> If \X V6], f \in {"ll", "gl"}, ok \in SUBSET K :
               Start6(c, f, ok)
  <2>1. PICK K \in (SUBSET (Link \cap Kind)) \ {{}} :
          \E c \in [K -> If \X V6], f \in {"ll", "gl"}, ok \in SUBSET K :
            Start6(c, f, ok)
    BY <1>2
  <2>2. PICK c \in [K -> If \X V6], f \in {"ll", "gl"}, ok \in SUBSET K :
          Start6(c, f, ok)
    BY <2>1
  <2>3. K \in SUBSET (Link \cap Kind)
    OBVIOUS
  <2> QED BY <2>2, <2>3, Start6Kept
<1>3. CASE End
  <2>1. vrrp' = FALSE /\ tab' = NoTables
    BY <1>3 DEF End, end
  <2>2. \A k \in Kind : Tight(NoTables[k])
    BY TightEmpty DEF NoTables
  <2> QED BY <1>0, <2>1, <2>2
<1>4. CASE \E k \in Kind \cap Link, i \in If :
             DelVip(k, i) \/ \E a \in Vip, ok \in BOOLEAN : AddVip(k, i, a, ok)
  <2>1. "v4" \in Field
    BY DEF Field
  <2> QED BY <1>4, <2>1, DeleteKept, AddVipKept DEF DelVip, AddVip, delete_vip
<1>5. CASE \E k \in Kind \cap {"VGATEWAY"}, i \in If, a \in Vip :
             NoVGateway(i, a) \/ \E ok \in BOOLEAN : VGateway(i, a, ok)
  <2>1. "v4" \in Field
    BY DEF Field
  <2> QED BY <1>5, <2>1, DeleteKept, AddVipKept
          DEF NoVGateway, VGateway, delete_vip
<1>6. CASE \E k \in Kind, i \in If, f \in {"ll", "gl"} :
             \/ DelVip6(k, i, f)
             \/ \E a \in V6, ok \in BOOLEAN : AddVip6(k, i, a, f, ok)
  <2>1. PICK k \in Kind, i \in If, f \in {"ll", "gl"} :
          \/ DelVip6(k, i, f)
          \/ \E a \in V6, ok \in BOOLEAN : AddVip6(k, i, a, f, ok)
    BY <1>6
  <2>2. f \in Field /\ f # "v4"
    BY DEF Field
  <2>3. CASE DelVip6(k, i, f)
    BY <2>2, <2>3, DeleteKept DEF DelVip6, delete_vipv6
  <2>4. CASE \E a \in V6, ok \in BOOLEAN : AddVip6(k, i, a, f, ok)
    BY <2>4, AddVip6Kept DEF AddVip6
  <2> QED BY <2>1, <2>3, <2>4
<1>7. CASE Enable \/ UNCHANGED vars
  <2>1. tab' = tab /\ vrrp' = vrrp
    BY <1>7 DEF Enable, vars
  <2>2. \A k \in Kind : Same4(tab[k], tab'[k])
    BY <2>1 DEF Same4
  <2> QED BY <2>1, <2>2, SameKept
<1>8. CASE Disable \/ GotoMaster \/ LeaveMaster
  <2>1. /\ vrrp' = vrrp
        /\ tab' = tab \/ \E add \in BOOLEAN : tab' = after_ops(add).tab
    BY <1>8 DEF Disable, GotoMaster, LeaveMaster, end
  <2>2. \A k \in Kind : Same4(tab[k], tab[k])
    BY DEF Same4
  <2>3. ASSUME NEW add \in BOOLEAN
        PROVE  \A k \in Kind : Same4(tab[k], after_ops(add).tab[k])
    <3> DEFINE q == after_ops(add)
    <3>1. OpsEffect(Now, q, add) /\ Now.tab = tab
      BY NowPairs, OpsAll
    <3> HIDE DEF q
    <3>2. \A k \in Kind : Same4(tab[k], q.tab[k])
      BY <3>1 DEF OpsEffect, SameTable, SameSlot, Same4
    <3> QED BY <3>2 DEF q
  <2>4. \A k \in Kind : Same4(tab[k], tab'[k])
    BY <2>1, <2>2, <2>3
  <2> QED BY <2>1, <2>4, SameKept
<1> QED BY <1>1, <1>2, <1>3, <1>4, <1>5, <1>6, <1>7, <1>8 DEF Next

\* With no more interfaces than positions an instance keeps an uplink or
\* downlink virtual address as long as it lives, although with IPv6 addresses
\* the counter that protects the last one may be wrong.  One position more is
\* needed where IPv6 is in use and a name may begin another: had_ipv6_start can
\* then give an interface two.
THEOREM LastVipIsKept ==
    ASSUME IsFiniteSet(If), Cardinality(If) <= VRRP_LINK_MAX_CNT,
           V6 = {} \/ Begins = {} \/ Cardinality(If) < VRRP_LINK_MAX_CNT
    PROVE  Spec => []LastVipKept
<1>0. Few
  BY DEF Few
<1>1. Init => KeptInv
  BY TightEmpty, TightLoose DEF Init, KeptInv, NoTables
<1>2. IInv /\ KeptInv /\ [Next]_vars => KeptInv'
  BY <1>0, StepKept
<1>3. ASSUME IInv, KeptInv, vrrp
      PROVE  \E k \in Kind \cap Link : \E n \in Slot :
               tab[k].slot[n].set /\ tab[k].slot[n].v4 # None
  <2>1. PICK k \in Kind \cap Link : tab[k].n4 >= 1
    BY <1>3 DEF KeptInv, Counted
  <2>2. Loose(tab[k]) /\ tab[k].n4 \in Int
    BY <1>3 DEF KeptInv, IInv, GoodTabs, Table
  <2>3. Cardinality(Used(tab[k])) # 0
    BY <2>1, <2>2, UsedFinite DEF Loose
  <2>4. Used(tab[k]) # {}
    BY <2>3, FS_EmptySet
  <2>5. PICK n \in Slot : tab[k].slot[n].v4 # None
    BY <2>4 DEF Used
  <2>6. tab[k].slot[n].set
    BY <2>2, <2>5 DEF Loose
  <2> QED BY <2>5, <2>6
<1>4. IInv /\ KeptInv => LastVipKept
  BY <1>3 DEF LastVipKept
<1> QED BY <1>1, <1>2, <1>4, Invariance, PTL DEF Spec
=============================================================================
