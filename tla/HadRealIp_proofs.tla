-------------------------- MODULE HadRealIp_proofs --------------------------
(***************************************************************************)
(* The real address follows the addresses of the interface, for every set  *)
(* of addresses and every MAX_IP_COUNT of at least two.                    *)
(***************************************************************************)
EXTENDS HadRealIp, FiniteSetTheorems, TLAPS

(* The queue of messages *)

\* What Append does to a sequence.
LEMMA Appended ==
    ASSUME NEW S, NEW s \in Seq(S), NEW e \in S
    PROVE  /\ Append(s, e) \in Seq(S)
           /\ DOMAIN s = 1 .. Len(s)
           /\ DOMAIN Append(s, e) = 1 .. Len(s) + 1
           /\ \A n \in 1 .. Len(s) : Append(s, e)[n] = s[n]
           /\ Append(s, e)[Len(s) + 1] = e
OBVIOUS

\* What Tail does to a sequence.
LEMMA Removed ==
    ASSUME NEW S, NEW s \in Seq(S), s # <<>>
    PROVE  /\ Tail(s) \in Seq(S)
           /\ Head(s) \in S
           /\ Len(s) \in Nat \ {0}
           /\ DOMAIN s = 1 .. Len(s)
           /\ DOMAIN Tail(s) = 1 .. Len(s) - 1
           /\ \A n \in 1 .. Len(s) - 1 : Tail(s)[n] = s[n + 1]
           /\ Head(s) = s[1]
OBVIOUS

-----------------------------------------------------------------------------
\* No message of q is about a
Silent(q, a) == \A n \in DOMAIN q : q[n].addr # a

\* The newest message about a in q
Newest(q, a, n) ==
    /\ n \in DOMAIN q
    /\ q[n].addr = a
    /\ \A p \in DOMAIN q : p > n => q[p].addr # a

\* The newest message about an address says whether it is one of A.
Truthful(q, A) ==
    \A a \in Addr, n \in Nat : Newest(q, a, n) => q[n].add = (a \in A)

NewestTrue == lost = 0 => Truthful(queue, addrs)

IInv == TypeOK /\ NewestTrue /\ RealIsThere /\ RealIsFound /\ NeverVip

\* The message about a change of address c of A
Told(c, A) == [addr |-> c, add |-> c \notin A]

\* A when c is changed
Flipped(c, A) == IF c \in A THEN A \ {c} ELSE A \cup {c}

\* A change of address c appends a message that is true afterwards.
LEMMA AppendSays ==
    ASSUME NEW q \in Seq(Message), NEW c \in Addr, NEW A
    PROVE  /\ Append(q, Told(c, A)) \in Seq(Message)
           /\ \A a : Silent(Append(q, Told(c, A)), a) <=> Silent(q, a) /\ a # c
           /\ Truthful(q, A) => Truthful(Append(q, Told(c, A)), Flipped(c, A))
<1> DEFINE m == Told(c, A)
           r == Append(q, m)
           B == Flipped(c, A)
<1>1. m \in Message /\ m.addr = c /\ m.add = (c \notin A)
  BY DEF Message, Told
<1>2. r = Append(q, m)
  OBVIOUS
<1>3. (c \in B) = (c \notin A)
  BY DEF Flipped
<1>4. \A a : a # c => (a \in B) = (a \in A)
  BY DEF Flipped
<1> HIDE DEF m, r, B
<1>5. /\ r \in Seq(Message)
      /\ DOMAIN q = 1 .. Len(q)
      /\ DOMAIN r = 1 .. Len(q) + 1
      /\ \A n \in 1 .. Len(q) : r[n] = q[n]
      /\ r[Len(q) + 1] = m
      /\ Len(q) \in Nat
  BY <1>1, <1>2, Appended
<1>6. \A a : Silent(r, a) <=> Silent(q, a) /\ a # c
  BY <1>1, <1>5 DEF Silent
<1>7. ASSUME Truthful(q, A), NEW a \in Addr, NEW n \in Nat, Newest(r, a, n)
      PROVE  r[n].add = (a \in B)
  <2>1. CASE n = Len(q) + 1
    <3>1. r[n] = m /\ a = c
      BY <1>1, <1>5, <1>7, <2>1 DEF Newest
    <3> QED BY <1>1, <1>3, <3>1, Zenon
  <2>2. CASE n # Len(q) + 1
    <3>1. n \in 1 .. Len(q) /\ r[n] = q[n]
      BY <1>5, <1>7, <2>2 DEF Newest
    <3>2. a # c
      BY <1>1, <1>5, <1>7, <3>1 DEF Newest
    <3>3. Newest(q, a, n)
      BY <1>5, <1>7, <3>1 DEF Newest
    <3>4. q[n].add = (a \in A)
      BY <1>7, <3>3 DEF Truthful
    <3> QED BY <1>4, <3>1, <3>2, <3>4, Zenon
  <2> QED BY <2>1, <2>2
<1>8. Truthful(q, A) => Truthful(r, B)
  BY <1>7, Zenon DEF Truthful
<1> QED BY <1>5, <1>6, <1>8 DEF m, r, B

\* The oldest message is true if there is no other about its address, and the
\* others are as true without it.
LEMMA TailSays ==
    ASSUME NEW q \in Seq(Message), q # <<>>, NEW A
    PROVE  /\ Tail(q) \in Seq(Message)
           /\ Head(q) \in Message
           /\ \A a : Silent(q, a) <=> Silent(Tail(q), a) /\ Head(q).addr # a
           /\ Truthful(q, A) => Truthful(Tail(q), A)
           /\ Truthful(q, A) /\ Silent(Tail(q), Head(q).addr)
                  => Head(q).add = (Head(q).addr \in A)
<1> DEFINE r == Tail(q)
           m == Head(q)
<1>1. /\ r \in Seq(Message)
      /\ m \in Message
      /\ Len(q) \in Nat \ {0}
      /\ DOMAIN q = 1 .. Len(q)
      /\ DOMAIN r = 1 .. Len(q) - 1
      /\ \A n \in 1 .. Len(q) - 1 : r[n] = q[n + 1]
      /\ m = q[1]
  BY Removed
<1>m. m.addr \in Addr
  BY <1>1 DEF Message
<1> HIDE DEF r, m
<1>2. \A p \in DOMAIN q : p # 1 => p - 1 \in DOMAIN r /\ r[p - 1] = q[p]
  BY <1>1
<1>3. ASSUME NEW a PROVE Silent(q, a) <=> Silent(r, a) /\ m.addr # a
  <2>1. ASSUME Silent(q, a) PROVE Silent(r, a) /\ m.addr # a
    <3>1. 1 \in DOMAIN q /\ m.addr # a
      BY <1>1, <2>1 DEF Silent
    <3>2. ASSUME NEW n \in DOMAIN r PROVE r[n].addr # a
      <4>1. n \in 1 .. Len(q) - 1 /\ n + 1 \in DOMAIN q
        BY <1>1
      <4>2. r[n] = q[n + 1]
        BY <1>1, <4>1
      <4> QED BY <2>1, <4>1, <4>2 DEF Silent
    <3> QED BY <3>1, <3>2 DEF Silent
  <2>2. ASSUME Silent(r, a), m.addr # a, NEW p \in DOMAIN q PROVE q[p].addr # a
    <3>1. CASE p = 1
      BY <1>1, <2>2, <3>1
    <3>2. CASE p # 1
      BY <1>2, <2>2, <3>2 DEF Silent
    <3> QED BY <3>1, <3>2
  <2> QED BY <2>1, <2>2 DEF Silent
<1>4. ASSUME Truthful(q, A), NEW a \in Addr, NEW n \in Nat, Newest(r, a, n)
      PROVE  r[n].add = (a \in A)
  <2>1. n \in 1 .. Len(q) - 1 /\ r[n] = q[n + 1]
    BY <1>1, <1>4 DEF Newest
  <2>2. ASSUME NEW p \in DOMAIN q, p > n + 1 PROVE q[p].addr # a
    <3>0. p \in Nat /\ n \in Nat /\ p # 1
      BY <1>1, <2>2
    <3>1. p - 1 \in DOMAIN r /\ r[p - 1] = q[p]
      BY <1>2, <2>2, <3>0
    <3>2. p - 1 > n
      BY <2>2, <3>0
    <3> QED BY <1>4, <3>1, <3>2 DEF Newest
  <2>3. Newest(q, a, n + 1)
    BY <1>1, <1>4, <2>1, <2>2 DEF Newest
  <2>4. q[n + 1].add = (a \in A)
    BY <1>4, <2>3 DEF Truthful
  <2> QED BY <2>1, <2>4, Zenon
<1>5. ASSUME Truthful(q, A), Silent(r, m.addr)
      PROVE  m.add = (m.addr \in A)
  <2>1. ASSUME NEW p \in DOMAIN q, p > 1 PROVE q[p].addr # m.addr
    <3>1. p - 1 \in DOMAIN r /\ r[p - 1] = q[p]
      BY <1>1, <1>2, <2>1
    <3> QED BY <1>5, <3>1 DEF Silent
  <2>2. Newest(q, m.addr, 1)
    BY <1>1, <2>1 DEF Newest
  <2>3. q[1].add = (m.addr \in A)
    BY <1>5, <1>m, <2>2 DEF Truthful
  <2> QED BY <1>1, <2>3, Zenon
<1>6. Truthful(q, A) => Truthful(r, A)
  BY <1>4, Zenon DEF Truthful
<1>7. Tail(q) = r /\ Head(q) = m
  BY DEF r, m
<1> QED BY <1>1, <1>3, <1>5, <1>6, <1>7, Zenon

-----------------------------------------------------------------------------
\* A whole list with nothing but the virtual address shows that there is nothing
\* else: an array that is full holds two addresses at least.
LEMMA WholeHasOther ==
    ASSUME NEW A, NEW list, list \subseteq {Vip}, Whole(list, A)
    PROVE  A \subseteq {Vip}
<1>1. CASE A \subseteq list
  BY <1>1
<1>2. CASE Cardinality(list) = MAX_IP_COUNT
  <2>1. IsFiniteSet({Vip}) /\ Cardinality({Vip}) = 1
    BY FS_Singleton
  <2>2. Cardinality(list) <= 1
    BY <2>1, FS_Subset
  <2> QED BY <1>2, <2>2, AddrAssumption
<1> QED BY <1>1, <1>2 DEF Whole

\* What had_real_ipaddr_syn may choose.
LEMMA SynChoice ==
    ASSUME NEW m \in Message, NEW list, real' \in real_ipaddr_syn(m, list)
    PROVE  \/ real' = real /\ m.add /\ (real \in list \/ m.addr = Vip)
           \/ real' = m.addr /\ m.add /\ m.addr # Vip
           \/ real' = real /\ ~ m.add /\ m.addr # real
           \/ real' \in list \ {Vip}
           \/ real' = NoAddr /\ ~ m.add /\ m.addr = real /\ list \subseteq {Vip}
<1>1. CASE m.add
  BY <1>1, Zenon DEF real_ipaddr_syn, added
<1>2. CASE ~ m.add
  <2>1. CASE real # m.addr
    BY <1>2, <2>1, Zenon DEF real_ipaddr_syn, deleted
  <2>2. CASE real = m.addr /\ list \subseteq {Vip}
    BY <1>2, <2>2, Zenon DEF real_ipaddr_syn, deleted
  <2>3. CASE real = m.addr /\ ~ (list \subseteq {Vip})
    BY <1>2, <2>3, Zenon DEF real_ipaddr_syn, deleted
  <2> QED BY <2>1, <2>2, <2>3
<1> QED BY <1>1, <1>2

\* Handling a message, with a list that is a part of the addresses and of C, which
\* are changing: the real address is one of them or has a message waiting, and if
\* there is none, every address has a message waiting or the list was short.
LEMMA Handled ==
    ASSUME IInv, queue # <<>>, NEW C \in SUBSET Addr, NEW list, NEW A,
           list \subseteq addrs \cup C, Handle(list, A)
    PROVE  /\ real' \in Addr \cup {NoAddr} /\ real' # Vip /\ short' \in BOOLEAN
           /\ lost = 0 /\ real' # NoAddr /\ Silent(Tail(queue), real')
                  => real' \in addrs \cup C
           /\ lost = 0 /\ real' = NoAddr /\ ~ short'
                  => \/ A \subseteq {Vip}
                     \/ \A a \in addrs \ {Vip} : ~ Silent(Tail(queue), a)
<1> DEFINE m == Head(queue)
           r == Tail(queue)
<1>1. /\ m \in Message
      /\ \A a : Silent(queue, a) <=> Silent(r, a) /\ m.addr # a
      /\ lost = 0 /\ Silent(r, m.addr) => m.add = (m.addr \in addrs)
  BY TailSays DEF IInv, TypeOK, NewestTrue
<1>2. \/ real' = real /\ m.add /\ (real \in list \/ m.addr = Vip)
      \/ real' = m.addr /\ m.add /\ m.addr # Vip
      \/ real' = real /\ ~ m.add /\ m.addr # real
      \/ real' \in list \ {Vip}
      \/ real' = NoAddr /\ ~ m.add /\ m.addr = real /\ list \subseteq {Vip}
  BY <1>1, SynChoice DEF Handle
<1>3. short' = (real' = NoAddr /\ IF real = NoAddr THEN short ELSE ~ Whole(list, A))
  BY DEF Handle
<1>4. m.addr \in Addr /\ m.add \in BOOLEAN
  BY <1>1 DEF Message
<1>5. \A a : NonePending(a) <=> Silent(queue, a)
  BY DEF NonePending, Silent
<1> HIDE DEF m, r
<1>6. real' \in Addr \cup {NoAddr} /\ real' # Vip
  BY <1>2, <1>4, AddrAssumption DEF IInv, TypeOK, NeverVip
<1>7. short' \in BOOLEAN
  BY <1>3, Zenon DEF IInv, TypeOK, Whole
<1>8. ASSUME lost = 0, real' # NoAddr, Silent(r, real')
      PROVE  real' \in addrs \cup C
  <2>1. CASE real' = m.addr /\ m.add
    BY <1>1, <1>8, <2>1, Zenon
  <2>2. CASE real' = real /\ m.addr # real
    BY <1>1, <1>5, <1>8, <2>2, Zenon DEF IInv, RealIsThere
  <2>3. CASE real' = real /\ m.addr = Vip
    BY <1>1, <1>5, <1>8, <2>3, Zenon DEF IInv, RealIsThere, NeverVip
  <2>4. CASE real' \in list
    BY <2>4
  <2> QED BY <1>2, <1>8, <2>1, <2>2, <2>3, <2>4, Zenon
<1>9. ASSUME lost = 0, real' = NoAddr, ~ short', ~ (A \subseteq {Vip}),
             NEW a \in addrs \ {Vip}, Silent(r, a)
      PROVE  FALSE
  <2>0. NoAddr \notin addrs \cup C /\ NoAddr # m.addr
    BY <1>4, AddrAssumption DEF IInv, TypeOK
  <2>1. real' \notin list /\ real' # m.addr
    BY <1>9, <2>0
  <2>2. real = NoAddr
    <3> SUFFICES ASSUME real # NoAddr PROVE FALSE
      OBVIOUS
    <3>1. Whole(list, A)
      BY <1>3, <1>9, Zenon
    <3>2. list \subseteq {Vip}
      BY <1>2, <1>9, <2>1, Zenon
    <3> QED BY <1>9, <3>1, <3>2, WholeHasOther
  <2>3. ~ short
    BY <1>3, <1>9, <2>2, Zenon
  <2>4. m.addr = a
    BY <1>1, <1>5, <1>9, <2>2, <2>3, Zenon DEF IInv, RealIsFound
  <2>5. m.add
    BY <1>1, <1>9, <2>4, Zenon
  <2> QED BY <1>2, <1>9, <2>1, <2>2, <2>4, <2>5, Zenon
<1>10. Tail(queue) = r
  BY DEF r
<1> QED BY <1>6, <1>7, <1>8, <1>9, <1>10, Zenon

-----------------------------------------------------------------------------
\* The configuration starts with the invariant.
LEMMA InitIInv == Init => IInv
<1> SUFFICES ASSUME Init PROVE IInv
  OBVIOUS
<1>0. short \in BOOLEAN
  BY DEF Init
<1>1. TypeOK /\ NeverVip
  BY <1>0 DEF Init, TypeOK, NeverVip
<1>2. NewestTrue
  BY DEF Init, NewestTrue, Truthful, Newest
<1>3. RealIsThere /\ RealIsFound
  BY AddrAssumption DEF Init, RealIsThere, RealIsFound
<1> QED BY <1>1, <1>2, <1>3 DEF IInv

\* Once a message is dropped only the types and NeverVip are left to show.
LEMMA LostIInv ==
    ASSUME IInv, NEW q \in Seq(Message), NEW c \in Addr, Flip(c), queue' = q,
           lost' = lost + 1, real' \in Addr \cup {NoAddr}, real' # Vip,
           short' \in BOOLEAN
    PROVE  IInv'
<1>1. lost' # 0 /\ TypeOK' /\ NeverVip'
  BY DEF IInv, TypeOK, NeverVip, Flip
<1> QED BY <1>1 DEF IInv, NewestTrue, RealIsThere, RealIsFound

\* An address that comes or goes has a message waiting, which tells the truth.
LEMMA ChangeStep ==
    ASSUME IInv, NEW c \in Addr, Change(c)
    PROVE  IInv'
<1>1. UNCHANGED <<real, short>> /\ Flip(c) /\ Announce(queue, c)
  BY DEF Change
<1>2. queue \in Seq(Message) /\ real \in Addr \cup {NoAddr} /\ real # Vip
      /\ short \in BOOLEAN
  BY DEF IInv, TypeOK, NeverVip
<1>3. CASE lost' = lost + 1 /\ queue' = queue
  BY <1>1, <1>2, <1>3, LostIInv
<1>4. CASE queue' = Append(queue, Told(c, addrs)) /\ UNCHANGED lost
  <2>1. addrs' = Flipped(c, addrs)
    BY <1>1 DEF Flip, Flipped
  <2>2. /\ queue' \in Seq(Message)
        /\ \A a : Silent(queue', a) <=> Silent(queue, a) /\ a # c
        /\ Truthful(queue, addrs) => Truthful(queue', addrs')
    BY <1>2, <1>4, <2>1, AppendSays
  <2>3. TypeOK' /\ NeverVip'
    BY <1>1, <1>2, <1>4, <2>1, <2>2 DEF IInv, TypeOK, NeverVip, Flipped
  <2>4. NewestTrue'
    BY <1>4, <2>2 DEF IInv, NewestTrue
  <2>5. \A a : NonePending(a)' <=> NonePending(a) /\ a # c
    BY <2>2 DEF NonePending, Silent
  <2>6. \A a : a # c => (a \in addrs') = (a \in addrs)
    BY <2>1 DEF Flipped
  <2>7. RealIsThere'
    BY <1>1, <1>4, <2>5, <2>6, Zenon DEF IInv, RealIsThere
  <2>8. RealIsFound'
    BY <1>1, <1>4, <2>5, <2>6, Zenon DEF IInv, RealIsFound
  <2> QED BY <2>3, <2>4, <2>7, <2>8 DEF IInv
<1> QED BY <1>1, <1>3, <1>4 DEF Announce, Told

\* Handling a message keeps the invariant, though the list is read later than
\* the message was written and may be a part.
LEMMA ReceiveStep ==
    ASSUME IInv, Receive
    PROVE  IInv'
<1>1. /\ queue # <<>> /\ queue' = Tail(queue) /\ addrs' = addrs /\ lost' = lost
  BY DEF Receive
<1>2. PICK list \in Listing : Handle(list, addrs)
  BY DEF Receive
<1>3. /\ real' \in Addr \cup {NoAddr} /\ real' # Vip /\ short' \in BOOLEAN
      /\ lost = 0 /\ real' # NoAddr /\ Silent(queue', real') => real' \in addrs
      /\ lost = 0 /\ real' = NoAddr /\ ~ short'
             => \/ addrs \subseteq {Vip}
                \/ \A a \in addrs \ {Vip} : ~ Silent(queue', a)
  <2>1. {} \in SUBSET Addr /\ list \subseteq addrs \cup {}
    BY <1>2 DEF Listing
  <2> QED BY <1>1, <1>2, <2>1, Handled
<1>4. queue' \in Seq(Message) /\ (lost = 0 => Truthful(queue', addrs))
  BY <1>1, TailSays DEF IInv, TypeOK, NewestTrue
<1>5. TypeOK' /\ NeverVip'
  BY <1>1, <1>3, <1>4 DEF IInv, TypeOK, NeverVip
<1>6. NewestTrue'
  BY <1>1, <1>4 DEF NewestTrue
<1>7. \A a : NonePending(a)' <=> Silent(queue', a)
  BY DEF NonePending, Silent
<1>8. RealIsThere'
  BY <1>1, <1>3, <1>7, Zenon DEF RealIsThere, NonePending, Silent
<1>9. RealIsFound'
  BY <1>1, <1>3, <1>7 DEF RealIsFound
<1> QED BY <1>5, <1>6, <1>8, <1>9 DEF IInv

\* It does so too with a notification in place of the list, which may name an
\* address that is gone: the same notification waits in the link thread's socket.
LEMMA ReceiveNotifiedStep ==
    ASSUME IInv, NEW c \in Addr, ReceiveNotified(c)
    PROVE  IInv'
<1> DEFINE q == Tail(queue)
<1>1. queue # <<>> /\ Flip(c) /\ Announce(q, c) /\ Handle({c}, addrs')
  BY DEF ReceiveNotified
<1>2. /\ real' \in Addr \cup {NoAddr} /\ real' # Vip /\ short' \in BOOLEAN
      /\ lost = 0 /\ real' # NoAddr /\ Silent(q, real') => real' \in addrs \cup {c}
      /\ lost = 0 /\ real' = NoAddr /\ ~ short'
             => addrs' \subseteq {Vip} \/ \A a \in addrs \ {Vip} : ~ Silent(q, a)
  <2> DEFINE C == {c}
  <2>1. C \in SUBSET Addr /\ C \subseteq addrs \cup C
    OBVIOUS
  <2>2. queue # <<>> /\ Handle(C, addrs')
    BY <1>1
  <2> HIDE DEF C
  <2>3. /\ real' \in Addr \cup {NoAddr} /\ real' # Vip /\ short' \in BOOLEAN
        /\ lost = 0 /\ real' # NoAddr /\ Silent(q, real') => real' \in addrs \cup C
        /\ lost = 0 /\ real' = NoAddr /\ ~ short'
               => addrs' \subseteq {Vip} \/ \A a \in addrs \ {Vip} : ~ Silent(q, a)
    BY <2>1, <2>2, Handled
  <2> QED BY <2>3 DEF C
<1>3. q \in Seq(Message) /\ (lost = 0 => Truthful(q, addrs))
  BY <1>1, TailSays DEF IInv, TypeOK, NewestTrue
<1> HIDE DEF q
<1>4. CASE lost' = lost + 1 /\ queue' = q
  BY <1>1, <1>2, <1>3, <1>4, LostIInv
<1>5. CASE queue' = Append(q, Told(c, addrs)) /\ UNCHANGED lost
  <2>1. addrs' = Flipped(c, addrs)
    BY <1>1 DEF Flip, Flipped
  <2>2. /\ queue' \in Seq(Message)
        /\ \A a : Silent(queue', a) <=> Silent(q, a) /\ a # c
        /\ Truthful(q, addrs) => Truthful(queue', addrs')
    BY <1>3, <1>5, <2>1, AppendSays
  <2>3. TypeOK' /\ NeverVip'
    BY <1>2, <1>5, <2>1, <2>2 DEF IInv, TypeOK, NeverVip, Flipped
  <2>4. NewestTrue'
    BY <1>3, <1>5, <2>2 DEF NewestTrue
  <2>5. \A a : NonePending(a)' <=> Silent(q, a) /\ a # c
    BY <2>2 DEF NonePending, Silent
  <2>6. \A a : a # c => (a \in addrs') = (a \in addrs)
    BY <2>1 DEF Flipped
  <2>7. RealIsThere'
    <3> SUFFICES ASSUME lost = 0, NEW a, a = real', a # NoAddr, NonePending(a)'
                 PROVE  a \in addrs'
      BY <1>5 DEF RealIsThere, NonePending
    <3>1. a \in addrs \cup {c} /\ a # c
      BY <1>2, <2>5
    <3> QED BY <2>6, <3>1
  <2>8. RealIsFound'
    <3> SUFFICES ASSUME lost = 0, real' = NoAddr, ~ short', NEW a \in addrs' \ {Vip},
                        NonePending(a)'
                 PROVE  FALSE
      BY <1>5, Zenon DEF RealIsFound
    <3>1. a # c /\ Silent(q, a) /\ a \in addrs
      BY <2>5, <2>6
    <3> QED BY <1>2, <3>1
  <2> QED BY <2>3, <2>4, <2>7, <2>8 DEF IInv
<1> QED BY <1>1, <1>4, <1>5 DEF Announce, Told

\* The invariant is inductive.
LEMMA NextIInv == IInv /\ [Next]_vars => IInv'
<1> SUFFICES ASSUME IInv, [Next]_vars PROVE IInv'
  OBVIOUS
<1>1. ASSUME NEW a \in Addr, Change(a) PROVE IInv'
  BY <1>1, ChangeStep
<1>2. ASSUME NEW a \in Addr, ReceiveNotified(a) PROVE IInv'
  BY <1>2, ReceiveNotifiedStep
<1>3. CASE Receive
  BY <1>3, ReceiveStep
<1>4. CASE UNCHANGED vars
  BY <1>4 DEF vars, IInv, TypeOK, NeverVip, NewestTrue, RealIsThere, RealIsFound,
              NonePending
<1> QED BY <1>1, <1>2, <1>3, <1>4 DEF Next

-----------------------------------------------------------------------------
\* had_real_ipaddr_syn keeps the invariant.
THEOREM RealInvariance == Spec => []IInv
BY InitIInv, NextIInv, PTL DEF Spec

\* A real address without waiting messages is an address of the interface.
THEOREM RealIsThereCorrect == Spec => []RealIsThere
<1>1. IInv => RealIsThere
  BY DEF IInv
<1> QED BY RealInvariance, <1>1, PTL

\* An interface with an address has a real address once the messages are read,
\* unless it was given up by a list that was short: of the lists that one recvmsg
\* can return, only those that leave addresses out below MAX_IP_COUNT do harm.
THEOREM RealIsFoundCorrect == Spec => []RealIsFound
<1>1. IInv => RealIsFound
  BY DEF IInv
<1> QED BY RealInvariance, <1>1, PTL

\* The real address is never the profile's own virtual address.
THEOREM NeverVipCorrect == Spec => []NeverVip
<1>1. IInv => NeverVip
  BY DEF IInv
<1> QED BY RealInvariance, <1>1, PTL
=============================================================================
