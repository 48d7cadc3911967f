-------------------------- MODULE HmdTimer_proofs --------------------------
(* Proofs about the timer library of hmd.                                  *)
EXTENDS HmdTimer, TLAPS

-----------------------------------------------------------------------------
\* What is where in the concatenation of two sequences.
LEMMA Joined ==
    ASSUME NEW S, NEW a \in Seq(S), NEW b \in Seq(S)
    PROVE  /\ a \o b \in Seq(S)
           /\ Len(a \o b) = Len(a) + Len(b)
           /\ \A i \in 1 .. Len(a) : (a \o b)[i] = a[i]
           /\ \A i \in 1 .. Len(b) : (a \o b)[Len(a) + i] = b[i]
OBVIOUS

\* What InsertAt does to a sequence.
LEMMA Inserted ==
    ASSUME NEW S, NEW s \in Seq(S), NEW e \in S, NEW k \in 0 .. Len(s)
    PROVE  /\ InsertAt(s, k + 1, e) \in Seq(S)
           /\ Len(InsertAt(s, k + 1, e)) = Len(s) + 1
           /\ \A i \in 1 .. k : InsertAt(s, k + 1, e)[i] = s[i]
           /\ InsertAt(s, k + 1, e)[k + 1] = e
           /\ \A i \in k + 2 .. Len(s) + 1 : InsertAt(s, k + 1, e)[i] = s[i - 1]
<1> DEFINE front == SubSeq(s, 1, k)
           back == SubSeq(s, k + 1, Len(s))
<1>1. /\ front \in Seq(S) /\ Len(front) = k
      /\ \A i \in 1 .. k : front[i] = s[i]
    OBVIOUS
<1>2. /\ back \in Seq(S) /\ Len(back) = Len(s) - k
      /\ \A i \in 1 .. Len(s) - k : back[i] = s[i + k]
    OBVIOUS
<1>3. InsertAt(s, k + 1, e) = (front \o <<e>>) \o back
  <2>1. (k + 1) - 1 = k
    OBVIOUS
  <2>2. QED
    BY <2>1, Zenon DEF InsertAt
<1> HIDE DEF front, back
<1>4. /\ front \o <<e>> \in Seq(S) /\ Len(front \o <<e>>) = k + 1
      /\ \A i \in 1 .. k : (front \o <<e>>)[i] = s[i]
      /\ (front \o <<e>>)[k + 1] = e
    BY <1>1
<1> DEFINE head == front \o <<e>>
<1> HIDE DEF head
<1>5. /\ head \in Seq(S) /\ Len(head) = k + 1
      /\ \A i \in 1 .. k : head[i] = s[i]
      /\ head[k + 1] = e
      /\ InsertAt(s, k + 1, e) = head \o back
    BY <1>3, <1>4 DEF head
<1> DEFINE whole == head \o back
<1>6. /\ whole \in Seq(S)
      /\ Len(whole) = Len(head) + Len(back)
      /\ \A i \in 1 .. Len(head) : whole[i] = head[i]
      /\ \A i \in 1 .. Len(back) : whole[Len(head) + i] = back[i]
  <2>1. head \in Seq(S) /\ back \in Seq(S)
    BY <1>2, <1>5
  <2>2. QED
    BY <2>1, Joined
<1> HIDE DEF whole
<1>7. /\ Len(whole) = Len(s) + 1
      /\ \A i \in 1 .. k : whole[i] = s[i]
      /\ whole[k + 1] = e
      /\ \A i \in 1 .. Len(s) - k : whole[k + 1 + i] = s[i + k]
    BY <1>2, <1>5, <1>6
<1>8. ASSUME NEW i \in k + 2 .. Len(s) + 1
      PROVE  whole[i] = s[i - 1]
  <2>1. i - (k + 1) \in 1 .. Len(s) - k
    OBVIOUS
  <2>2. k + 1 + (i - (k + 1)) = i /\ (i - (k + 1)) + k = i - 1
    OBVIOUS
  <2>3. QED
    BY <1>7, <2>1, <2>2
<1>9. InsertAt(s, k + 1, e) = whole
    BY <1>5 DEF whole
<1>10. QED
    BY <1>6, <1>7, <1>8, <1>9, Zenon

\* What RemoveAt does to a sequence.
LEMMA Dropped ==
    ASSUME NEW S, NEW s \in Seq(S), NEW k \in 1 .. Len(s)
    PROVE  /\ RemoveAt(s, k) \in Seq(S)
           /\ Len(RemoveAt(s, k)) = Len(s) - 1
           /\ \A i \in 1 .. k - 1 : RemoveAt(s, k)[i] = s[i]
           /\ \A i \in k .. Len(s) - 1 : RemoveAt(s, k)[i] = s[i + 1]
<1> DEFINE front == SubSeq(s, 1, k - 1)
           back == SubSeq(s, k + 1, Len(s))
<1>1. /\ front \in Seq(S) /\ Len(front) = k - 1
      /\ \A i \in 1 .. k - 1 : front[i] = s[i]
    OBVIOUS
<1>2. /\ back \in Seq(S) /\ Len(back) = Len(s) - k
      /\ \A i \in 1 .. Len(s) - k : back[i] = s[i + k]
    OBVIOUS
<1>3. RemoveAt(s, k) = front \o back
    BY DEF RemoveAt
<1> HIDE DEF front, back
<1> DEFINE whole == front \o back
<1>4. /\ whole \in Seq(S)
      /\ Len(whole) = Len(front) + Len(back)
      /\ \A i \in 1 .. Len(front) : whole[i] = front[i]
      /\ \A i \in 1 .. Len(back) : whole[Len(front) + i] = back[i]
  <2>1. front \in Seq(S) /\ back \in Seq(S)
    BY <1>1, <1>2
  <2>2. QED
    BY <2>1, Joined
<1> HIDE DEF whole
<1>5. /\ Len(whole) = Len(s) - 1
      /\ \A i \in 1 .. k - 1 : whole[i] = s[i]
      /\ \A i \in 1 .. Len(s) - k : whole[k - 1 + i] = s[i + k]
    BY <1>1, <1>2, <1>4
<1>6. ASSUME NEW i \in k .. Len(s) - 1
      PROVE  whole[i] = s[i + 1]
  <2>1. i - (k - 1) \in 1 .. Len(s) - k
    OBVIOUS
  <2>2. k - 1 + (i - (k - 1)) = i /\ (i - (k - 1)) + k = i + 1
    OBVIOUS
  <2>3. QED
    BY <1>5, <2>1, <2>2
<1>7. RemoveAt(s, k) = whole
    BY <1>3 DEF whole
<1>8. QED
    BY <1>4, <1>5, <1>6, <1>7, Zenon

-----------------------------------------------------------------------------
\* The timers in the queue have been added, and each has an id of its own.
IdsDiffer ==
    /\ \A i \in 1 .. Len(queue) : queue[i].id < cur_id
    /\ \A i, j \in 1 .. Len(queue) : queue[i].id = queue[j].id => i = j

\* A handler runs exactly while the ticker is in it.
OneHandler == running # {} <=> ticker = "handler"

\* The inductive invariant
IInv == TypeOK /\ QueueInOrder /\ WakeupComes /\ IdsDiffer /\ OneHandler

\* The interval is 0 only one microsecond before a full second.
LEMMA IntervalZero ==
    ASSUME NEW t1 \in Nat, NEW t2 \in Nat, t2 < t1
    PROVE  /\ TV_MINUS(t1, t2) \in Nat
           /\ TV_MINUS(t1, t2) <= t1 - t2
           /\ TV_MINUS(t1, t2) = 0 => t1 % MICRO_PER_SEC = 0
<1> DEFINE M == MICRO_PER_SEC
           quo == t2 \div M
           rem == t2 % M
<1>1. M \in Nat \ {0}
    BY TimerAssumption
<1> HIDE DEF M
<1>2. quo \in Nat /\ rem \in 0 .. M - 1 /\ t2 = M * quo + rem
    BY <1>1
<1>3. t1 % M \in 0 .. M - 1
    BY <1>1
<1> HIDE DEF quo
<1>4. ASSUME t1 = t2 + 1, t1 % M < rem
      PROVE  t1 % M = 0
  <2>1. t1 = M * quo + (rem + 1)
    BY <1>1, <1>2, <1>4
  <2>2. CASE rem + 1 < M
    <3> DEFINE q == t1 \div M
               r == t1 % M
    <3>1. q \in Nat /\ r \in 0 .. M - 1 /\ t1 = M * q + r
        BY <1>1
    <3> HIDE DEF q, r
    <3>2. CASE q < quo
      <4>1. M * (q + 1) <= M * quo
        BY <1>1, <1>2, <3>1, <3>2
      <4>2. M * (q + 1) = M * q + M
        BY <1>1, <3>1
      <4>3. QED
        BY <1>1, <1>2, <2>1, <3>1, <4>1, <4>2
    <3>3. CASE q > quo
      <4>1. M * (quo + 1) <= M * q
        BY <1>1, <1>2, <3>1, <3>3
      <4>2. M * (quo + 1) = M * quo + M
        BY <1>1, <1>2
      <4>3. QED
        BY <1>1, <1>2, <2>1, <2>2, <3>1, <4>1, <4>2
    <3>4. CASE q = quo
      <4>1. r = rem + 1
        BY <1>1, <1>2, <2>1, <3>1, <3>4
      <4>2. QED
        BY <1>2, <1>4, <4>1 DEF r
    <3>5. QED
        BY <1>2, <3>1, <3>2, <3>3, <3>4
  <2>3. CASE rem + 1 = M
    <3>1. t1 = M * (quo + 1)
        BY <1>1, <1>2, <2>1, <2>3
    <3>2. QED
        BY <1>1, <1>2, <3>1
  <2>4. QED
    BY <1>1, <1>2, <2>2, <2>3
<1>5. QED
    BY <1>1, <1>2, <1>3, <1>4 DEF TV_MINUS, M

-----------------------------------------------------------------------------
\* What replacing one element does to a sequence.
LEMMA Replaced ==
    ASSUME NEW S, NEW s \in Seq(S), NEW n \in 1 .. Len(s), NEW e \in S
    PROVE  /\ [s EXCEPT ![n] = e] \in Seq(S)
           /\ Len([s EXCEPT ![n] = e]) = Len(s)
           /\ \A i \in 1 .. Len(s) : i # n => [s EXCEPT ![n] = e][i] = s[i]
           /\ [s EXCEPT ![n] = e][n] = e
OBVIOUS

\* Marking a timer, as waited for or as cancelled, changes nothing else.
LEMMA Marked ==
    ASSUME NEW q \in Seq(Timer), NEW n \in 1 .. Len(q), NEW b \in BOOLEAN
    PROVE  /\ [q EXCEPT ![n].in_use = b] \in Seq(Timer)
           /\ Len([q EXCEPT ![n].in_use = b]) = Len(q)
           /\ \A i \in 1 .. Len(q) :
                i # n => [q EXCEPT ![n].in_use = b][i] = q[i]
           /\ [q EXCEPT ![n].in_use = b][n] = [q[n] EXCEPT !.in_use = b]
           /\ [q EXCEPT ![n].cancelled = b] \in Seq(Timer)
           /\ Len([q EXCEPT ![n].cancelled = b]) = Len(q)
           /\ \A i \in 1 .. Len(q) :
                i # n => [q EXCEPT ![n].cancelled = b][i] = q[i]
           /\ [q EXCEPT ![n].cancelled = b][n] = [q[n] EXCEPT !.cancelled = b]
<1>1. q[n] \in Timer
    OBVIOUS
<1>2. /\ [q[n] EXCEPT !.in_use = b] \in Timer
      /\ [q[n] EXCEPT !.cancelled = b] \in Timer
    BY <1>1 DEF Timer
<1>3. /\ [q EXCEPT ![n].in_use = b] = [q EXCEPT ![n] = [q[n] EXCEPT !.in_use = b]]
      /\ [q EXCEPT ![n].cancelled = b]
            = [q EXCEPT ![n] = [q[n] EXCEPT !.cancelled = b]]
    OBVIOUS
<1> DEFINE u == [q[n] EXCEPT !.in_use = b]
           c == [q[n] EXCEPT !.cancelled = b]
<1> HIDE DEF u, c
<1>4. u \in Timer /\ c \in Timer
    BY <1>2 DEF u, c
<1>5. /\ [q EXCEPT ![n] = u] \in Seq(Timer)
      /\ Len([q EXCEPT ![n] = u]) = Len(q)
      /\ \A i \in 1 .. Len(q) : i # n => [q EXCEPT ![n] = u][i] = q[i]
      /\ [q EXCEPT ![n] = u][n] = u
    BY <1>4, Replaced
<1>6. /\ [q EXCEPT ![n] = c] \in Seq(Timer)
      /\ Len([q EXCEPT ![n] = c]) = Len(q)
      /\ \A i \in 1 .. Len(q) : i # n => [q EXCEPT ![n] = c][i] = q[i]
      /\ [q EXCEPT ![n] = c][n] = c
    BY <1>4, Replaced
<1>7. QED
    BY <1>3, <1>5, <1>6, Zenon DEF u, c

\* The library starts empty, the ticker at the top of its loop.
LEMMA InitIInv == Init => IInv
<1> SUFFICES ASSUME Init PROVE IInv
    OBVIOUS
<1>1. queue = <<>> /\ queue \in Seq(Timer) /\ Len(queue) = 0
    BY DEF Init
<1>2. TypeOK
    BY <1>1 DEF Init, TypeOK, Place
<1>3. QueueInOrder /\ IdsDiffer
    BY <1>1 DEF QueueInOrder, IdsDiffer
<1>4. WakeupComes /\ OneHandler
    BY DEF Init, WakeupComes, OneHandler
<1>5. QED
    BY <1>2, <1>3, <1>4 DEF IInv

\* A new timer goes where it keeps the queue in order, and a ticker that waits
\* is woken when the new timer is the first.
LEMMA AddKeeps ==
    ASSUME IInv, NEW d \in Delay, NEW k \in 0 .. Len(queue), timer_add(d, k)
    PROVE  IInv'
<1> DEFINE app == [id |-> cur_id, timeout |-> now + d,
                   in_use |-> FALSE, cancelled |-> FALSE]
           first == [id |-> cur_id, timeout |-> now + d,
                     in_use |-> TRUE, cancelled |-> FALSE]
           old == [queue EXCEPT ![1].in_use = FALSE]
<1>1. /\ app \in Timer /\ first \in Timer /\ queue \in Seq(Timer)
      /\ now + d \in Nat /\ Len(queue) \in Nat /\ cur_id \in Nat
  <2>1. d \in Nat /\ now \in Nat /\ cur_id \in Nat /\ queue \in Seq(Timer)
    BY TimerAssumption DEF IInv, TypeOK
  <2>2. now + d \in Nat /\ Len(queue) \in Nat
    BY <2>1
  <2>3. app \in Timer
    BY <2>1, <2>2 DEF Timer
  <2>4. first \in Timer
    BY <2>1, <2>2 DEF Timer
  <2>5. QED
    BY <2>1, <2>2, <2>3, <2>4
<1>2. CASE queue # <<>> /\ k = 0
  <2>1. /\ old \in Seq(Timer) /\ Len(old) = Len(queue)
        /\ \A i \in 2 .. Len(queue) : old[i] = queue[i]
        /\ old[1] = [queue[1] EXCEPT !.in_use = FALSE]
    <3>1. 1 \in 1 .. Len(queue)
        BY <1>1, <1>2
    <3>2. FALSE \in BOOLEAN
        OBVIOUS
    <3>3. /\ old \in Seq(Timer) /\ Len(old) = Len(queue)
          /\ \A i \in 1 .. Len(queue) : i # 1 => old[i] = queue[i]
          /\ old[1] = [queue[1] EXCEPT !.in_use = FALSE]
        BY <1>1, <3>1, <3>2, Marked
    <3> HIDE DEF old
    <3>4. QED
        BY <1>1, <3>3
  <2>2. queue' = InsertAt(old, 0 + 1, first) /\ sigalrm' = TRUE
    BY <1>2 DEF timer_add
  <2> HIDE DEF app, first, old
  <2>3. /\ queue' \in Seq(Timer) /\ Len(queue') = Len(queue) + 1
        /\ queue'[1] = first
        /\ \A i \in 2 .. Len(queue) + 1 : queue'[i] = old[i - 1]
    <3>1. /\ InsertAt(old, 0 + 1, first) \in Seq(Timer)
          /\ Len(InsertAt(old, 0 + 1, first)) = Len(old) + 1
          /\ InsertAt(old, 0 + 1, first)[0 + 1] = first
          /\ \A i \in 0 + 2 .. Len(old) + 1 :
                InsertAt(old, 0 + 1, first)[i] = old[i - 1]
      <4>1. first \in Timer /\ old \in Seq(Timer) /\ 0 \in 0 .. Len(old)
        BY <1>1, <2>1
      <4>2. QED
        BY <4>1, Inserted
    <3>2. QED
        BY <2>1, <2>2, <3>1
  <2>4. /\ queue'[2] = [queue[1] EXCEPT !.in_use = FALSE]
        /\ \A i \in 3 .. Len(queue) + 1 : queue'[i] = queue[i - 1]
        /\ Len(queue) \in Nat \ {0}
    <3>1. Len(queue) \in Nat \ {0}
        BY <1>1, <1>2
    <3>2. queue'[2] = old[1]
        BY <2>3, <3>1
    <3>3. ASSUME NEW i \in 3 .. Len(queue) + 1 PROVE queue'[i] = queue[i - 1]
        BY <2>1, <2>3, <3>1
    <3>4. QED
        BY <2>1, <3>1, <3>2, <3>3
  <2>5. /\ first.id = cur_id /\ first.timeout = now + d /\ first.in_use = TRUE
    BY DEF first, app
  <2>6. now + d < queue[1].timeout
    BY <1>2, <2>4 DEF timer_add, Ahead
  <2>7. TypeOK'
    BY <2>2, <2>3 DEF timer_add, IInv, TypeOK, Place
  <2> queue[1] \in Timer
    BY <1>1, <2>4
  <2> DEFINE second == [queue[1] EXCEPT !.in_use = FALSE]
  <2> /\ second.timeout = queue[1].timeout /\ second.id = queue[1].id
      /\ second.in_use = FALSE
    BY DEF Timer
  <2> HIDE DEF second
  <2>r. queue'[2] = second
    BY <2>4 DEF second
  <2>8. QueueInOrder'
    <3>1. ASSUME NEW i \in 1 .. Len(queue') - 1
          PROVE  queue'[i].timeout <= queue'[i + 1].timeout
      <4>1. CASE i = 1
        BY <1>1, <2>3, <2>r, <2>5, <2>6, <4>1 DEF Timer
      <4>2. CASE i = 2
        <5> 1 \in 1 .. Len(queue) - 1 /\ 1 + 1 = 2
            BY <2>3, <2>4, <4>2
        <5>1. queue[1].timeout <= queue[2].timeout
            BY DEF IInv, QueueInOrder
        <5>2. queue'[3] = queue[2]
            BY <2>3, <2>4, <4>2
        <5>3. QED
            BY <2>r, <4>2, <5>1, <5>2
      <4>3. CASE i > 2
        <5>1. queue[i - 1].timeout <= queue[(i - 1) + 1].timeout
            BY <2>3, <2>4, <4>3 DEF IInv, QueueInOrder
        <5>2. queue'[i] = queue[i - 1] /\ queue'[i + 1] = queue[(i - 1) + 1]
            BY <2>3, <2>4, <4>3
        <5>3. QED
            BY <5>1, <5>2
      <4>4. QED
        BY <4>1, <4>2, <4>3
    <3>2. ASSUME NEW i \in 2 .. Len(queue') PROVE ~queue'[i].in_use
      <4>1. CASE i = 2
        BY <2>r, <4>1
      <4>2. CASE i > 2
        BY <2>3, <2>4, <4>2 DEF IInv, QueueInOrder
      <4>3. QED
        BY <4>1, <4>2
    <3>3. QED
        BY <3>1, <3>2 DEF QueueInOrder
  <2>9. WakeupComes'
    BY <1>2, <2>2, <2>3, <2>4, <2>5 DEF IInv, TypeOK, WakeupComes, timer_add, Place
  <2>10. IdsDiffer'
    <3>1. cur_id' = cur_id + 1
        BY DEF timer_add
    <3>2. queue'[1].id = cur_id
        BY <2>3, <2>5
    <3>3. ASSUME NEW i \in 2 .. Len(queue')
          PROVE  queue'[i].id = queue[i - 1].id /\ i - 1 \in 1 .. Len(queue)
        BY <2>3, <2>4, <2>r
    <3>4. ASSUME NEW i \in 1 .. Len(queue)
          PROVE  queue[i].id < cur_id /\ queue[i].id \in Nat
      <4>1. queue[i] \in Timer
        BY <1>1
      <4>2. QED
        BY <4>1 DEF IInv, IdsDiffer, Timer
    <3>5. ASSUME NEW i \in 1 .. Len(queue') PROVE queue'[i].id < cur_id'
      <4>1. CASE i = 1
        BY <1>1, <3>1, <3>2, <4>1
      <4>2. CASE i # 1
        <5>1. i \in 2 .. Len(queue')
            BY <4>2
        <5>2. queue'[i].id < cur_id /\ queue'[i].id \in Nat
            BY <3>3, <3>4, <5>1
        <5>3. QED
            BY <1>1, <3>1, <5>2
      <4>3. QED
        BY <4>1, <4>2
    <3>6. ASSUME NEW i \in 1 .. Len(queue'), NEW j \in 1 .. Len(queue'),
                 queue'[i].id = queue'[j].id
          PROVE  i = j
      <4>1. ASSUME NEW n \in 2 .. Len(queue') PROVE queue'[n].id # cur_id
        <5>1. queue'[n].id < cur_id /\ queue'[n].id \in Nat
            BY <3>3, <3>4
        <5>2. QED
            BY <1>1, <5>1
      <4>2. CASE i = 1 \/ j = 1
        BY <2>3, <3>2, <3>6, <4>1, <4>2
      <4>3. CASE i # 1 /\ j # 1
        <5>1. i \in 2 .. Len(queue') /\ j \in 2 .. Len(queue')
            BY <4>3
        <5>2. i - 1 = j - 1
            BY <3>3, <3>6, <5>1 DEF IInv, IdsDiffer
        <5>3. QED
            BY <5>2
      <4>4. QED
        BY <4>2, <4>3
    <3>7. QED
        BY <3>5, <3>6 DEF IdsDiffer
  <2>11. OneHandler'
    BY <1>2 DEF IInv, OneHandler, timer_add
  <2>12. QED
    BY <2>7, <2>8, <2>9, <2>10, <2>11 DEF IInv
<1>3. CASE queue = <<>> \/ k # 0
  <2>1. queue' = InsertAt(queue, k + 1, app) /\ sigalrm' = sigalrm
    BY <1>3 DEF timer_add
  <2> HIDE DEF app, first, old
  <2>2. /\ queue' \in Seq(Timer) /\ Len(queue') = Len(queue) + 1
        /\ queue'[k + 1] = app
        /\ \A i \in 1 .. k : queue'[i] = queue[i]
        /\ \A i \in k + 2 .. Len(queue) + 1 : queue'[i] = queue[i - 1]
        /\ Len(queue) \in Nat
    <3>1. /\ InsertAt(queue, k + 1, app) \in Seq(Timer)
          /\ Len(InsertAt(queue, k + 1, app)) = Len(queue) + 1
          /\ \A i \in 1 .. k : InsertAt(queue, k + 1, app)[i] = queue[i]
          /\ InsertAt(queue, k + 1, app)[k + 1] = app
          /\ \A i \in k + 2 .. Len(queue) + 1 :
                InsertAt(queue, k + 1, app)[i] = queue[i - 1]
      <4>1. app \in Timer /\ queue \in Seq(Timer) /\ k \in 0 .. Len(queue)
        BY <1>1
      <4>2. /\ InsertAt(queue, k + 1, app) \in Seq(Timer)
            /\ Len(InsertAt(queue, k + 1, app)) = Len(queue) + 1
            /\ InsertAt(queue, k + 1, app)[k + 1] = app
        BY <4>1, Inserted
      <4>3. \A i \in 1 .. k : InsertAt(queue, k + 1, app)[i] = queue[i]
        BY <4>1, Inserted
      <4>4. \A i \in k + 2 .. Len(queue) + 1 :
                InsertAt(queue, k + 1, app)[i] = queue[i - 1]
        BY <4>1, Inserted
      <4>5. QED
        BY <4>2, <4>3, <4>4
    <3>2. QED
        BY <1>1, <2>1, <3>1
  <2>3. /\ app.id = cur_id /\ app.timeout = now + d /\ app.in_use = FALSE
    BY DEF app
  <2>4. /\ \A i \in 1 .. k : queue[i].timeout <= now + d
        /\ k < Len(queue) => now + d < queue[k + 1].timeout
    BY DEF timer_add, Ahead
  <2>5. TypeOK'
    BY <2>1, <2>2 DEF timer_add, IInv, TypeOK, Place
  <2>6. QueueInOrder'
    <3>1. ASSUME NEW i \in 1 .. Len(queue') - 1
          PROVE  queue'[i].timeout <= queue'[i + 1].timeout
      <4>1. CASE i < k
        <5>1. queue'[i] = queue[i] /\ queue'[i + 1] = queue[i + 1]
            BY <2>2, <4>1
        <5>2. i \in 1 .. Len(queue) - 1
            BY <2>2, <4>1
        <5>3. queue[i].timeout <= queue[i + 1].timeout
            BY <5>2 DEF IInv, QueueInOrder
        <5>4. QED
            BY <5>1, <5>3
      <4>2. CASE i = k
        BY <2>2, <2>3, <2>4, <4>2
      <4>3. CASE i = k + 1
        <5>1. queue'[i] = app /\ queue'[i + 1] = queue[k + 1] /\ k < Len(queue)
            BY <2>2, <4>3
        <5>2. queue[k + 1] \in Timer
            BY <1>1, <5>1
        <5>3. QED
            BY <1>1, <2>3, <2>4, <5>1, <5>2 DEF Timer
      <4>4. CASE i > k + 1
        <5>1. i \in k + 2 .. Len(queue) + 1 /\ i + 1 \in k + 2 .. Len(queue) + 1
            BY <2>2, <4>4
        <5>2. queue'[i] = queue[i - 1] /\ queue'[i + 1] = queue[(i + 1) - 1]
            BY <2>2, <5>1
        <5>3. i - 1 \in 1 .. Len(queue) - 1 /\ (i + 1) - 1 = (i - 1) + 1
            BY <2>2, <4>4
        <5>4. queue[i - 1].timeout <= queue[(i - 1) + 1].timeout
            BY <5>3 DEF IInv, QueueInOrder
        <5>5. QED
            BY <5>2, <5>3, <5>4
      <4>5. QED
        BY <4>1, <4>2, <4>3, <4>4
    <3>2. ASSUME NEW i \in 2 .. Len(queue') PROVE ~queue'[i].in_use
      <4>1. CASE i = k + 1
        BY <2>2, <2>3, <4>1
      <4>2. CASE i <= k
        BY <2>2, <4>2 DEF IInv, QueueInOrder
      <4>3. CASE i > k + 1
        <5>1. k # 0 /\ i - 1 \in 2 .. Len(queue)
            BY <1>3, <2>2, <4>3
        <5>2. QED
            BY <2>2, <4>3, <5>1 DEF IInv, QueueInOrder
      <4>4. QED
        BY <4>1, <4>2, <4>3
    <3>3. QED
        BY <3>1, <3>2 DEF QueueInOrder
  <2>7. WakeupComes'
    <3>1. CASE queue = <<>>
        BY <3>1, <2>2 DEF IInv, TypeOK, WakeupComes, timer_add, Place
    <3>2. CASE queue # <<>>
      <4>1. queue'[1] = queue[1] /\ queue' # <<>> /\ ticker' = ticker
        BY <1>3, <2>2, <3>2 DEF timer_add
      <4>2. QED
        BY <2>1, <3>2, <4>1 DEF IInv, WakeupComes, timer_add
    <3>3. QED
        BY <3>1, <3>2
  <2>8. IdsDiffer'
    <3>1. cur_id' = cur_id + 1
        BY DEF timer_add
    <3>2. queue'[k + 1].id = cur_id
        BY <2>2, <2>3
    <3> DEFINE from(i) == IF i <= k THEN i ELSE i - 1
    <3>3. ASSUME NEW i \in 1 .. Len(queue'), i # k + 1
          PROVE  queue'[i].id = queue[from(i)].id /\ from(i) \in 1 .. Len(queue)
        BY <2>2, <3>3
    <3>4. ASSUME NEW i \in 1 .. Len(queue)
          PROVE  queue[i].id < cur_id /\ queue[i].id \in Nat
      <4>1. queue[i] \in Timer
        BY <1>1
      <4>2. QED
        BY <4>1 DEF IInv, IdsDiffer, Timer
    <3>5. ASSUME NEW i \in 1 .. Len(queue') PROVE queue'[i].id < cur_id'
      <4>1. CASE i = k + 1
        BY <1>1, <3>1, <3>2, <4>1
      <4>2. CASE i # k + 1
        <5>1. queue'[i].id < cur_id /\ queue'[i].id \in Nat
            BY <3>3, <3>4, <4>2
        <5>2. QED
            BY <1>1, <3>1, <5>1
      <4>3. QED
        BY <4>1, <4>2
    <3>6. ASSUME NEW i \in 1 .. Len(queue'), NEW j \in 1 .. Len(queue'),
                 queue'[i].id = queue'[j].id
          PROVE  i = j
      <4>1. CASE i = k + 1 \/ j = k + 1
        <5>1. ASSUME NEW n \in 1 .. Len(queue'), n # k + 1
              PROVE  queue'[n].id # cur_id
          <6>1. queue'[n].id < cur_id /\ queue'[n].id \in Nat
            BY <3>3, <3>4, <5>1
          <6>2. QED
            BY <1>1, <6>1
        <5>2. QED
            BY <2>2, <3>2, <3>6, <4>1, <5>1
      <4>2. CASE i # k + 1 /\ j # k + 1
        <5>1. queue[from(i)].id = queue[from(j)].id
            BY <3>3, <3>6, <4>2
        <5>2. from(i) = from(j)
            BY <3>3, <4>2, <5>1 DEF IInv, IdsDiffer
        <5>3. QED
            BY <2>2, <4>2, <5>2
      <4>3. QED
        BY <4>1, <4>2
    <3>7. QED
        BY <3>5, <3>6 DEF IdsDiffer
  <2>9. OneHandler'
    BY <1>3 DEF IInv, OneHandler, timer_add
  <2>10. QED
    BY <2>5, <2>6, <2>7, <2>8, <2>9 DEF IInv
<1>4. QED
    BY <1>2, <1>3

\* timer_rem leaves the timer in place that a ticker waits for.
LEMMA RemoveKeeps ==
    ASSUME IInv, NEW n \in DOMAIN queue, timer_rem(n)
    PROVE  IInv'
<1>1. queue \in Seq(Timer) /\ n \in 1 .. Len(queue) /\ Len(queue) \in Nat
    BY DEF IInv, TypeOK
<1>2. CASE queue[n].in_use
  <2>1. queue' = [queue EXCEPT ![n].cancelled = TRUE]
    BY <1>2 DEF timer_rem
  <2>2. /\ queue' \in Seq(Timer) /\ Len(queue') = Len(queue)
        /\ \A i \in 1 .. Len(queue) :
              /\ queue'[i].id = queue[i].id
              /\ queue'[i].timeout = queue[i].timeout
              /\ queue'[i].in_use = queue[i].in_use
    <3>1. /\ queue' \in Seq(Timer) /\ Len(queue') = Len(queue)
          /\ \A i \in 1 .. Len(queue) : i # n => queue'[i] = queue[i]
          /\ queue'[n] = [queue[n] EXCEPT !.cancelled = TRUE]
        BY <1>1, <2>1, Marked
    <3>2. queue[n] \in Timer
        BY <1>1
    <3>3. QED
        BY <3>1, <3>2 DEF Timer
  <2>3. TypeOK'
    BY <2>2 DEF timer_rem, IInv, TypeOK
  <2>4. QueueInOrder'
    BY <1>1, <2>2 DEF IInv, QueueInOrder
  <2>o. IdsDiffer' /\ OneHandler'
    <3>1. cur_id' = cur_id /\ running' = running /\ ticker' = ticker
        BY DEF timer_rem
    <3>2. OneHandler'
        BY <3>1 DEF IInv, OneHandler
    <3>3. IdsDiffer'
        BY <1>1, <2>2, <3>1 DEF IInv, IdsDiffer
    <3>4. QED
        BY <3>2, <3>3
  <2>5. WakeupComes'
    BY <1>1, <2>2 DEF timer_rem, IInv, TypeOK, WakeupComes
  <2>6. QED
    BY <2>3, <2>4, <2>o, <2>5 DEF IInv
<1>3. CASE ~queue[n].in_use
  <2>1. queue' = RemoveAt(queue, n)
    BY <1>3 DEF timer_rem
  <2>2. /\ queue' \in Seq(Timer) /\ Len(queue') = Len(queue) - 1
        /\ \A i \in 1 .. n - 1 : queue'[i] = queue[i]
        /\ \A i \in n .. Len(queue) - 1 : queue'[i] = queue[i + 1]
    BY <1>1, <2>1, Dropped
  <2>3. TypeOK'
    BY <2>2 DEF timer_rem, IInv, TypeOK
  <2>4. QueueInOrder'
    <3>1. ASSUME NEW i \in 1 .. Len(queue') - 1
          PROVE  queue'[i].timeout <= queue'[i + 1].timeout
      <4>1. CASE i < n - 1
        <5>1. queue'[i] = queue[i] /\ queue'[i + 1] = queue[i + 1]
            BY <1>1, <2>2, <4>1
        <5>2. i \in 1 .. Len(queue) - 1
            BY <1>1, <4>1
        <5>3. queue[i].timeout <= queue[i + 1].timeout
            BY <5>2 DEF IInv, QueueInOrder
        <5>4. QED
            BY <5>1, <5>3
      <4>2. CASE i = n - 1
        <5>1. /\ queue[i].timeout <= queue[i + 1].timeout
              /\ queue[i + 1].timeout <= queue[i + 2].timeout
          <6>1. /\ i \in 1 .. Len(queue) - 1 /\ i + 1 \in 1 .. Len(queue) - 1
                /\ (i + 1) + 1 = i + 2
            BY <1>1, <2>2, <4>2
          <6>2. /\ queue[i].timeout <= queue[i + 1].timeout
                /\ queue[i + 1].timeout <= queue[(i + 1) + 1].timeout
            BY <6>1 DEF IInv, QueueInOrder
          <6>3. QED
            BY <6>1, <6>2
        <5>2. /\ queue[i] \in Timer /\ queue[i + 1] \in Timer
              /\ queue[i + 2] \in Timer
            BY <1>1, <2>2, <4>2
        <5>3. queue'[i] = queue[i] /\ queue'[i + 1] = queue[i + 2]
            BY <1>1, <2>2, <4>2
        <5>4. QED
            BY <5>1, <5>2, <5>3 DEF Timer
      <4>3. CASE i > n - 1
        <5>1. i \in n .. Len(queue) - 1 /\ i + 1 \in n .. Len(queue) - 1
            BY <1>1, <2>2, <4>3
        <5>2. queue'[i] = queue[i + 1] /\ queue'[i + 1] = queue[(i + 1) + 1]
            BY <2>2, <5>1
        <5>3. i + 1 \in 1 .. Len(queue) - 1
            BY <1>1, <5>1
        <5>4. queue[i + 1].timeout <= queue[(i + 1) + 1].timeout
            BY <5>3 DEF IInv, QueueInOrder
        <5>5. QED
            BY <5>2, <5>4
      <4>4. QED
        BY <1>1, <2>2, <4>1, <4>2, <4>3
    <3>2. ASSUME NEW i \in 2 .. Len(queue') PROVE ~queue'[i].in_use
      <4>1. CASE i < n
        <5>1. i \in 2 .. Len(queue) /\ i \in 1 .. n - 1
          <6>1. n \in Nat /\ n <= Len(queue) /\ i \in Nat /\ 2 <= i
            BY <1>1, <2>2
          <6>2. QED
            BY <1>1, <4>1, <6>1
        <5>2. queue'[i] = queue[i]
            BY <2>2, <5>1
        <5>3. ~queue[i].in_use
            BY <5>1 DEF IInv, QueueInOrder
        <5>4. QED
            BY <5>2, <5>3
      <4>2. CASE i >= n
        <5>1. i + 1 \in 2 .. Len(queue) /\ i \in n .. Len(queue) - 1
          <6>1. i \in Nat /\ 2 <= i /\ i <= Len(queue) - 1
            BY <1>1, <2>2
          <6>2. QED
            BY <1>1, <4>2, <6>1
        <5>2. queue'[i] = queue[i + 1]
            BY <2>2, <5>1
        <5>3. ~queue[i + 1].in_use
            BY <5>1 DEF IInv, QueueInOrder
        <5>4. QED
            BY <5>2, <5>3
      <4>3. QED
        BY <1>1, <4>1, <4>2
    <3>3. QED
        BY <3>1, <3>2 DEF QueueInOrder
  <2>5. WakeupComes'
    <3>1. CASE ticker \in {"sigwait", "woken"}
      <4>1. queue[1].in_use /\ n # 1
        BY <1>3, <3>1 DEF IInv, WakeupComes
      <4>2. queue'[1] = queue[1] /\ queue' # <<>>
        BY <1>1, <2>2, <4>1
      <4>3. QED
        BY <3>1, <4>1, <4>2 DEF timer_rem, IInv, WakeupComes
    <3>2. CASE ticker \notin {"sigwait", "woken"}
      <4>1. ticker # "cond"
        BY <1>1 DEF IInv, WakeupComes
      <4>2. QED
        BY <3>2, <4>1 DEF timer_rem, IInv, WakeupComes
    <3>3. QED
        BY <3>1, <3>2
  <2>6. IdsDiffer' /\ OneHandler'
    <3>1. cur_id' = cur_id /\ running' = running /\ ticker' = ticker
        BY DEF timer_rem
    <3>2. OneHandler'
        BY <3>1 DEF IInv, OneHandler
    <3> DEFINE from(i) == IF i < n THEN i ELSE i + 1
    <3>3. ASSUME NEW i \in 1 .. Len(queue')
          PROVE  queue'[i] = queue[from(i)] /\ from(i) \in 1 .. Len(queue)
      <4>1. CASE i < n
        BY <1>1, <2>2, <4>1
      <4>2. CASE ~(i < n)
        BY <1>1, <2>2, <4>2
      <4>3. QED
        BY <4>1, <4>2
    <3>4. ASSUME NEW i \in 1 .. Len(queue') PROVE queue'[i].id < cur_id'
        BY <3>1, <3>3 DEF IInv, IdsDiffer
    <3>5. ASSUME NEW i \in 1 .. Len(queue'), NEW j \in 1 .. Len(queue'),
                 queue'[i].id = queue'[j].id
          PROVE  i = j
      <4>1. from(i) = from(j)
        BY <3>3, <3>5 DEF IInv, IdsDiffer
      <4>2. QED
        BY <1>1, <2>2, <4>1
    <3>6. QED
        BY <3>2, <3>4, <3>5 DEF IdsDiffer
  <2>7. QED
    BY <2>3, <2>4, <2>5, <2>6 DEF IInv
<1>4. QED
    BY <1>2, <1>3

\* The ticker goes to wait: for the condition when there is no timer, for the
\* signal when the interval timer has been set for the first.
LEMMA WaitKeeps ==
    ASSUME IInv, cronometer_wait
    PROVE  IInv'
<1>1. queue \in Seq(Timer) /\ now \in Nat /\ ticker = "lock"
    BY DEF IInv, TypeOK, cronometer_wait
<1>2. /\ now' = now /\ cur_id' = cur_id /\ sigalrm' = sigalrm
      /\ running' = running /\ jumps' = jumps
    BY DEF cronometer_wait
<1>3. CASE queue = <<>>
  <2>1. queue' = queue /\ alarm' = alarm /\ ticker' = "cond"
    BY <1>3 DEF cronometer_wait
  <2>2. TypeOK' /\ QueueInOrder' /\ IdsDiffer' /\ OneHandler'
    BY <1>1, <1>2, <2>1
    DEF IInv, TypeOK, QueueInOrder, IdsDiffer, OneHandler, Place
  <2>3. WakeupComes'
    BY <1>3, <2>1 DEF WakeupComes
  <2>4. QED
    BY <2>2, <2>3 DEF IInv
<1>4. CASE queue # <<>>
  <2>1. /\ queue' = [queue EXCEPT ![1].in_use = TRUE]
        /\ alarm' = timer_start(queue[1].timeout) /\ ticker' = "sigwait"
    BY <1>4 DEF cronometer_wait
  <2>2. 1 \in 1 .. Len(queue) /\ Len(queue) \in Nat /\ queue[1] \in Timer
    BY <1>1, <1>4
  <2>3. /\ queue' \in Seq(Timer) /\ Len(queue') = Len(queue)
        /\ \A i \in 1 .. Len(queue) : i # 1 => queue'[i] = queue[i]
        /\ queue'[1] = [queue[1] EXCEPT !.in_use = TRUE]
    <3> DEFINE new == [queue EXCEPT ![1].in_use = TRUE]
    <3> DEFINE first == [queue[1] EXCEPT !.in_use = TRUE]
    <3>1. first \in Timer /\ new = [queue EXCEPT ![1] = first]
        BY <2>2 DEF Timer
    <3> HIDE DEF new, first
    <3>2. /\ new \in Seq(Timer) /\ Len(new) = Len(queue)
          /\ \A i \in 1 .. Len(queue) : i # 1 => new[i] = queue[i]
          /\ new[1] = first
        BY <1>1, <2>2, <3>1, Replaced
    <3>3. queue' = new
        BY <2>1 DEF new
    <3>4. QED
        BY <3>2, <3>3 DEF first
  <2>4. /\ queue'[1].in_use /\ queue'[1].timeout = queue[1].timeout
        /\ queue'[1].id = queue[1].id /\ queue[1].timeout \in Nat
    BY <2>2, <2>3 DEF Timer
  <2>5. /\ alarm' \in Nat
        /\ alarm' = 0 => queue[1].timeout % MICRO_PER_SEC = 0
        /\ alarm' <= ALMOST_NOW \/ now + alarm' <= queue[1].timeout
    <3>1. CASE now < queue[1].timeout
      <4>1. /\ TV_MINUS(queue[1].timeout, now) \in Nat
            /\ TV_MINUS(queue[1].timeout, now) <= queue[1].timeout - now
            /\ TV_MINUS(queue[1].timeout, now) = 0
                    => queue[1].timeout % MICRO_PER_SEC = 0
        BY <1>1, <2>4, <3>1, IntervalZero
      <4>2. alarm' = TV_MINUS(queue[1].timeout, now)
        BY <2>1, <3>1 DEF timer_start
      <4>3. QED
        BY <1>1, <2>4, <4>1, <4>2
    <3>2. CASE ~(now < queue[1].timeout)
      <4>1. alarm' = ALMOST_NOW
        BY <2>1, <3>2 DEF timer_start
      <4>2. QED
        BY <4>1, TimerAssumption
    <3>3. QED
        BY <3>1, <3>2
  <2>6. TypeOK'
    BY <1>2, <2>1, <2>3, <2>5 DEF IInv, TypeOK, Place
  <2>7. QueueInOrder'
    <3>1. \A i \in 1 .. Len(queue) : queue'[i].timeout = queue[i].timeout
        BY <2>3, <2>4
    <3>2. \A i \in 2 .. Len(queue) : queue'[i] = queue[i]
        BY <2>2, <2>3
    <3>3. QED
        BY <2>2, <2>3, <3>1, <3>2 DEF IInv, QueueInOrder
  <2>8. IdsDiffer'
    <3>1. \A i \in 1 .. Len(queue) : queue'[i].id = queue[i].id
        BY <2>3, <2>4
    <3>2. QED
        BY <1>2, <2>3, <3>1 DEF IInv, IdsDiffer
  <2>9. WakeupComes'
    <3>1. queue' # <<>>
        BY <2>2, <2>3
    <3>2. QED
        BY <1>2, <2>1, <2>4, <2>5, <3>1 DEF WakeupComes
  <2>10. OneHandler'
    BY <1>1, <1>2, <2>1 DEF IInv, OneHandler
  <2>11. QED
    BY <2>6, <2>7, <2>8, <2>9, <2>10 DEF IInv
<1>5. QED
    BY <1>3, <1>4

\* sigwait returns.
LEMMA SigwaitKeeps ==
    ASSUME IInv, cronometer_sigwait
    PROVE  IInv'
<1>1. /\ now' = now /\ queue' = queue /\ cur_id' = cur_id /\ alarm' = alarm
      /\ running' = running /\ jumps' = jumps
      /\ ticker = "sigwait" /\ ticker' = "woken" /\ sigalrm' = FALSE
    BY DEF cronometer_sigwait
<1>2. TypeOK' /\ QueueInOrder' /\ IdsDiffer' /\ OneHandler'
    BY <1>1 DEF IInv, TypeOK, QueueInOrder, IdsDiffer, OneHandler, Place
<1>3. WakeupComes'
    BY <1>1 DEF IInv, WakeupComes
<1>4. QED
    BY <1>2, <1>3 DEF IInv

\* The ticker looks at the first timer, and drops it, leaves it or runs it.
LEMMA WakeKeeps ==
    ASSUME IInv, cronometer_wake
    PROVE  IInv'
<1>1. /\ queue \in Seq(Timer) /\ queue # <<>> /\ ticker = "woken"
      /\ now' = now /\ cur_id' = cur_id /\ alarm' = alarm
      /\ sigalrm' = sigalrm /\ jumps' = jumps
    BY DEF IInv, TypeOK, WakeupComes, cronometer_wake
<1>2. running = {}
    BY <1>1 DEF IInv, OneHandler
<1>3. CASE queue' = queue
  <2>1. ticker' = "lock" /\ running' = running
    <3>1. Tail(queue) # queue
        BY <1>1
    <3>2. QED
        BY <1>1, <1>3, <3>1 DEF cronometer_wake
  <2>2. TypeOK' /\ QueueInOrder' /\ IdsDiffer' /\ OneHandler'
    BY <1>1, <1>2, <1>3, <2>1
    DEF IInv, TypeOK, QueueInOrder, IdsDiffer, OneHandler, Place
  <2>3. WakeupComes'
    BY <2>1 DEF WakeupComes
  <2>4. QED
    BY <2>2, <2>3 DEF IInv
<1>4. CASE queue' # queue
  <2>1. /\ queue' = Tail(queue)
        /\ \/ ticker' = "lock" /\ running' = running
           \/ ticker' = "handler" /\ running' = {queue[1]}
    BY <1>4 DEF cronometer_wake
  <2>2. /\ queue' \in Seq(Timer) /\ Len(queue') = Len(queue) - 1
        /\ \A i \in 1 .. Len(queue) - 1 : queue'[i] = queue[i + 1]
        /\ queue[1] \in Timer /\ Len(queue) \in Nat \ {0}
    BY <1>1, <2>1
  <2>3. TypeOK'
    BY <1>1, <2>1, <2>2 DEF IInv, TypeOK, Place
  <2>4. QueueInOrder'
    <3>1. ASSUME NEW i \in 1 .. Len(queue') - 1
          PROVE  queue'[i].timeout <= queue'[i + 1].timeout
        BY <2>2 DEF IInv, QueueInOrder
    <3>2. ASSUME NEW i \in 2 .. Len(queue') PROVE ~queue'[i].in_use
        BY <2>2 DEF IInv, QueueInOrder
    <3>3. QED
        BY <3>1, <3>2 DEF QueueInOrder
  <2>5. IdsDiffer'
    <3>1. ASSUME NEW i \in 1 .. Len(queue')
          PROVE  queue'[i].id < cur_id' /\ queue'[i] = queue[i + 1]
                 /\ i + 1 \in 1 .. Len(queue)
        BY <1>1, <2>2 DEF IInv, IdsDiffer
    <3>2. ASSUME NEW i \in 1 .. Len(queue'), NEW j \in 1 .. Len(queue'),
                 queue'[i].id = queue'[j].id
          PROVE  i = j
      <4>1. i + 1 = j + 1
        BY <3>1, <3>2 DEF IInv, IdsDiffer
      <4>2. QED
        BY <4>1
    <3>3. QED
        BY <3>1, <3>2 DEF IdsDiffer
  <2>6. WakeupComes' /\ OneHandler'
    BY <1>2, <2>1 DEF WakeupComes, OneHandler
  <2>7. QED
    BY <2>3, <2>4, <2>5, <2>6 DEF IInv
<1>5. QED
    BY <1>3, <1>4

\* A handler returns.
LEMMA ReturnKeeps ==
    ASSUME IInv, cronometer_return
    PROVE  IInv'
<1>1. /\ now' = now /\ queue' = queue /\ cur_id' = cur_id /\ alarm' = alarm
      /\ sigalrm' = sigalrm /\ jumps' = jumps /\ running' = {} /\ ticker' = "lock"
    BY DEF cronometer_return
<1>2. TypeOK' /\ QueueInOrder' /\ IdsDiffer' /\ OneHandler' /\ WakeupComes'
    BY <1>1
    DEF IInv, TypeOK, QueueInOrder, IdsDiffer, OneHandler, WakeupComes, Place
<1>3. QED
    BY <1>2 DEF IInv

\* A microsecond passes.
LEMMA TickKeeps ==
    ASSUME IInv, Tick
    PROVE  IInv'
<1>1. /\ queue' = queue /\ cur_id' = cur_id /\ ticker' = ticker
      /\ running' = running /\ jumps' = jumps
      /\ now' = IF now < MaxTime THEN now + 1 ELSE now
      /\ alarm' = IF alarm > 0 THEN alarm - 1 ELSE 0
      /\ sigalrm' = (sigalrm \/ alarm = 1)
    BY DEF Tick
<1>2. TypeOK'
    BY <1>1 DEF IInv, TypeOK
<1>3. QueueInOrder' /\ IdsDiffer' /\ OneHandler'
    BY <1>1 DEF IInv, QueueInOrder, IdsDiffer, OneHandler
<1>4. WakeupComes'
  <2>1. CASE ticker = "sigwait" /\ ~sigalrm'
    <3>1. /\ ~sigalrm /\ alarm # 1 /\ alarm \in Nat /\ now \in Nat
          /\ queue # <<>> /\ queue[1] \in Timer
      <4>1. ~sigalrm /\ alarm # 1
        BY <1>1, <2>1, Zenon
      <4>2. alarm \in Nat /\ now \in Nat /\ queue \in Seq(Timer)
        BY DEF IInv, TypeOK
      <4>3. queue # <<>>
        BY <2>1, Zenon DEF IInv, WakeupComes
      <4>4. queue[1] \in Timer
        BY <4>2, <4>3
      <4>5. QED
        BY <4>1, <4>2, <4>3, <4>4
    <3>2. queue[1].timeout \in Nat /\ ALMOST_NOW \in Nat
        BY <3>1, TimerAssumption DEF Timer
    <3>3. \/ /\ alarm > 0
             /\ jumps = 0 => \/ alarm <= ALMOST_NOW
                             \/ now + alarm <= queue[1].timeout
          \/ alarm = 0 /\ queue[1].timeout % MICRO_PER_SEC = 0
        BY <2>1, <3>1 DEF IInv, WakeupComes
    <3>4. \/ /\ alarm' > 0
             /\ jumps' = 0 => \/ alarm' <= ALMOST_NOW
                              \/ now' + alarm' <= queue'[1].timeout
          \/ alarm' = 0 /\ queue'[1].timeout % MICRO_PER_SEC = 0
      <4>1. CASE alarm = 0
        BY <1>1, <3>3, <4>1
      <4>2. CASE alarm > 0
        <5>1. alarm' = alarm - 1 /\ alarm' > 0 /\ now' \in {now, now + 1}
            BY <1>1, <3>1, <4>2
        <5>2. QED
            BY <1>1, <3>1, <3>2, <3>3, <4>2, <5>1
      <4>3. QED
        BY <3>1, <4>1, <4>2
    <3>5. QED
        BY <1>1, <2>1, <3>1, <3>4 DEF IInv, WakeupComes
  <2>2. CASE ~(ticker = "sigwait" /\ ~sigalrm')
    BY <1>1, <2>2 DEF IInv, WakeupComes
  <2>3. QED
    BY <2>1, <2>2
<1>5. QED
    BY <1>2, <1>3, <1>4 DEF IInv

\* The time of day is set.
LEMMA SetClockKeeps ==
    ASSUME IInv, NEW t \in 0 .. MaxTime, SetClock(t)
    PROVE  IInv'
<1>1. /\ queue' = queue /\ cur_id' = cur_id /\ ticker' = ticker
      /\ alarm' = alarm /\ sigalrm' = sigalrm /\ running' = running
      /\ now' = t /\ jumps' = jumps + 1
    BY DEF SetClock
<1>2. t \in Nat /\ jumps \in Nat
    BY TimerAssumption DEF IInv, TypeOK
<1>3. TypeOK' /\ QueueInOrder' /\ IdsDiffer' /\ OneHandler'
    BY <1>1, <1>2 DEF IInv, TypeOK, QueueInOrder, IdsDiffer, OneHandler
<1>4. WakeupComes'
    BY <1>1, <1>2 DEF IInv, TypeOK, WakeupComes
<1>5. QED
    BY <1>3, <1>4 DEF IInv

\* Every step keeps the invariant.
LEMMA NextKeeps == IInv /\ [Next]_vars => IInv'
<1> SUFFICES ASSUME IInv, [Next]_vars PROVE IInv'
    OBVIOUS
<1>1. CASE Next
    BY <1>1, AddKeeps, RemoveKeeps, WaitKeeps, SigwaitKeeps, WakeKeeps,
       ReturnKeeps, TickKeeps, SetClockKeeps DEF Next
<1>2. CASE UNCHANGED vars
    BY <1>2 DEF vars, IInv, TypeOK, QueueInOrder, WakeupComes, IdsDiffer, OneHandler
<1>3. QED
    BY <1>1, <1>2

\* The inductive invariant holds in every behaviour of the library.
THEOREM Inductive == Spec => []IInv
BY InitIInv, NextKeeps, PTL DEF Spec

\* The variables of the library keep their types: in particular the interval
\* given to setitimer is never negative.
THEOREM TypeCorrect == Spec => []TypeOK
<1>1. IInv => TypeOK
    BY DEF IInv
<1>2. QED
    BY <1>1, Inductive, PTL

\* The queue stays ordered by time, and only its first timer is marked as the
\* one the ticker waits for, whatever timer_add, timer_rem and cronometer do.
THEOREM OrderKept == Spec => []QueueInOrder
<1>1. IInv => QueueInOrder
    BY DEF IInv
<1>2. QED
    BY <1>1, Inductive, PTL

\* The ticker never misses a wake-up, from pthread_cond_wait or from sigwait,
\* but for the interval that TV_MINUS makes 0.
THEOREM NoLostWakeup == Spec => []WakeupComes
<1>1. IInv => WakeupComes
    BY DEF IInv
<1>2. QED
    BY <1>1, Inductive, PTL

-----------------------------------------------------------------------------
(* The library implements HmdTimerService.                                 *)

\* What callers see of the timers of the queue, before and after a step
LEMMA PendingIs ==
    ASSUME IInv
    PROVE  \A x : x \in Pending <=>
                \E i \in 1 .. Len(queue) : ~queue[i].cancelled /\ x = Seen(queue[i])
<1>1. DOMAIN queue = 1 .. Len(queue)
    BY DEF IInv, TypeOK
<1>2. QED
    BY <1>1 DEF Pending

\* What is pending after a step is computed from the queue after it.
LEMMA PendingIsNext ==
    ASSUME IInv'
    PROVE  \A x : x \in Pending' <=>
                \E i \in 1 .. Len(queue') : ~queue'[i].cancelled /\ x = Seen(queue'[i])
<1>1. DOMAIN queue' = 1 .. Len(queue')
    BY DEF IInv, TypeOK
<1>2. Pending' = {Seen(queue'[i]) : i \in {k \in DOMAIN queue' : ~queue'[k].cancelled}}
    BY DEF Pending, Seen
<1>3. QED
    BY <1>1, <1>2

\* Adding a timer adds it to what callers see.
LEMMA AddIsAdd ==
    ASSUME IInv, IInv', NEW d \in Delay, NEW k \in 0 .. Len(queue), timer_add(d, k)
    PROVE  Service!Add(d)
<1> DEFINE new(u) == [id |-> cur_id, timeout |-> now + d,
                      in_use |-> u, cancelled |-> FALSE]
           seen == [id |-> cur_id, timeout |-> now + d]
<1>1. /\ queue \in Seq(Timer) /\ Len(queue) \in Nat
      /\ new(TRUE) \in Timer /\ new(FALSE) \in Timer /\ d > 0
  <2>1. queue \in Seq(Timer) /\ cur_id \in Nat /\ now \in Nat /\ d \in Nat \ {0}
    BY TimerAssumption DEF IInv, TypeOK
  <2>2. now + d \in Nat /\ Len(queue) \in Nat /\ d > 0
    BY <2>1
  <2>3. new(TRUE) \in Timer /\ new(FALSE) \in Timer
    BY <2>1, <2>2 DEF Timer
  <2>4. QED
    BY <2>1, <2>2, <2>3
<1>2. \A u \in BOOLEAN : Seen(new(u)) = seen /\ new(u).cancelled = FALSE
    BY DEF Seen
<1> DEFINE old == [queue EXCEPT ![1].in_use = FALSE]
<1>3. PICK q \in Seq(Timer), u \in BOOLEAN :
        /\ Len(q) = Len(queue)
        /\ \A i \in 1 .. Len(queue) : /\ Seen(q[i]) = Seen(queue[i])
                                      /\ q[i].cancelled = queue[i].cancelled
        /\ queue' = InsertAt(q, k + 1, new(u))
  <2>1. CASE queue # <<>> /\ k = 0
    <3>1. 1 \in 1 .. Len(queue) /\ FALSE \in BOOLEAN
        BY <1>1, <2>1
    <3>2. /\ old \in Seq(Timer) /\ Len(old) = Len(queue)
          /\ \A i \in 1 .. Len(queue) : i # 1 => old[i] = queue[i]
          /\ old[1] = [queue[1] EXCEPT !.in_use = FALSE]
        BY <1>1, <3>1, Marked
    <3>3. queue' = InsertAt(old, k + 1, new(TRUE))
      <4>1. k + 1 = 1
        BY <2>1
      <4>2. queue' = InsertAt(old, 1, new(TRUE))
        BY <2>1 DEF timer_add
      <4>3. QED
        BY <4>1, <4>2, Zenon
    <3>4. queue[1] \in Timer
        BY <1>1, <3>1
    <3> HIDE DEF old
    <3>5. \A i \in 1 .. Len(queue) : /\ Seen(old[i]) = Seen(queue[i])
                                     /\ old[i].cancelled = queue[i].cancelled
      <4>1. /\ Seen(old[1]) = Seen(queue[1])
            /\ old[1].cancelled = queue[1].cancelled
        BY <3>2, <3>4 DEF Seen, Timer
      <4>2. QED
        BY <3>2, <4>1
    <3> HIDE DEF new
    <3>6. QED
        BY <3>2, <3>3, <3>5, Zenon
  <2>2. CASE ~(queue # <<>> /\ k = 0)
    <3>1. queue' = InsertAt(queue, k + 1, new(FALSE))
        BY <2>2 DEF timer_add
    <3> HIDE DEF new
    <3>2. QED
        BY <1>1, <3>1, Zenon
  <2>3. QED
    BY <2>1, <2>2
<1>4. new(u) \in Timer /\ Seen(new(u)) = seen /\ new(u).cancelled = FALSE
    BY <1>1, <1>2, u \in {TRUE, FALSE}
<1> DEFINE app == new(u)
<1> HIDE DEF new, old, app
<1>5. app \in Timer /\ Seen(app) = seen /\ app.cancelled = FALSE
      /\ queue' = InsertAt(q, k + 1, app) /\ k \in 0 .. Len(q)
    BY <1>3, <1>4 DEF app
<1>6. /\ Len(queue') = Len(q) + 1
      /\ queue'[k + 1] = app
    BY <1>3, <1>5, Inserted
<1>7. \A i \in 1 .. k : queue'[i] = q[i]
  <2>1. app \in Timer /\ k \in 0 .. Len(q)
    BY <1>5
  <2>2. \A i \in 1 .. k : InsertAt(q, k + 1, app)[i] = q[i]
    BY <2>1, Inserted
  <2>3. QED
    BY <1>5, <2>2
<1>8. \A i \in k + 2 .. Len(q) + 1 : queue'[i] = q[i - 1]
  <2>1. app \in Timer /\ k \in 0 .. Len(q)
    BY <1>5
  <2>2. \A i \in k + 2 .. Len(q) + 1 : InsertAt(q, k + 1, app)[i] = q[i - 1]
    BY <2>1, Inserted
  <2>3. QED
    BY <1>5, <2>2
<1>9. ASSUME NEW x PROVE x \in Pending' <=> x \in Pending \cup {seen}
  <2>1. ASSUME NEW i \in 1 .. Len(queue'), ~queue'[i].cancelled, x = Seen(queue'[i])
        PROVE  x \in Pending \cup {seen}
    <3>1. CASE i = k + 1
        BY <1>5, <1>6, <2>1, <3>1
    <3>2. CASE i <= k
      <4>1. queue'[i] = q[i] /\ i \in 1 .. Len(queue)
        BY <1>1, <1>7, <3>2
      <4>2. QED
        BY <1>3, <2>1, <4>1, PendingIs
    <3>3. CASE i > k + 1
      <4>1. queue'[i] = q[i - 1] /\ i - 1 \in 1 .. Len(queue)
        BY <1>1, <1>3, <1>6, <1>8, <3>3
      <4>2. QED
        BY <1>3, <2>1, <4>1, PendingIs
    <3>4. QED
        BY <3>1, <3>2, <3>3
  <2>2. ASSUME NEW i \in 1 .. Len(queue), ~queue[i].cancelled, x = Seen(queue[i])
        PROVE  x \in Pending'
    <3>1. CASE i <= k
      <4>1. queue'[i] = q[i] /\ i \in 1 .. Len(queue')
        BY <1>1, <1>3, <1>6, <1>7, <3>1
      <4>2. QED
        BY <1>3, <2>2, <4>1, PendingIsNext
    <3>2. CASE i > k
      <4>1. queue'[i + 1] = q[i] /\ i + 1 \in 1 .. Len(queue')
        BY <1>1, <1>3, <1>6, <1>8, <3>2
      <4>2. QED
        BY <1>3, <2>2, <4>1, PendingIsNext
    <3>3. QED
        BY <3>1, <3>2
  <2>3. seen \in Pending'
    <3>1. k + 1 \in 1 .. Len(queue')
        BY <1>1, <1>3, <1>6
    <3>2. QED
        BY <1>5, <1>6, <3>1, PendingIsNext
  <2>4. QED
    BY <2>1, <2>2, <2>3, PendingIs, PendingIsNext, Zenon
<1>10. Pending' = Pending \cup {seen}
    BY <1>9
<1>11. /\ now' = now /\ cur_id' = cur_id + 1
       /\ {Seen(timer) : timer \in running}' = {Seen(timer) : timer \in running}
    BY DEF timer_add, Seen
<1>12. QED
    BY <1>1, <1>10, <1>11 DEF Service!Add

\* Taking the timer at n out of the queue takes it from what callers see: no
\* other timer looks like it.
LEMMA OneGone ==
    ASSUME IInv, IInv', NEW n \in 1 .. Len(queue),
           Len(queue') = Len(queue) - 1,
           \A i \in 1 .. n - 1 : queue'[i] = queue[i],
           \A i \in n .. Len(queue) - 1 : queue'[i] = queue[i + 1]
    PROVE  Pending' = IF queue[n].cancelled THEN Pending
                      ELSE Pending \ {Seen(queue[n])}
<1>1. Len(queue) \in Nat /\ queue \in Seq(Timer)
    BY DEF IInv, TypeOK
<1>2. ASSUME NEW i \in 1 .. Len(queue), NEW j \in 1 .. Len(queue),
             Seen(queue[i]) = Seen(queue[j])
      PROVE  i = j
  <2>1. queue[i].id = queue[j].id
    BY <1>2 DEF Seen
  <2>2. QED
    BY <2>1 DEF IInv, IdsDiffer
<1>3. ASSUME NEW x, x \in Pending'
      PROVE  x \in Pending /\ x # Seen(queue[n])
  <2>1. PICK i \in 1 .. Len(queue') : ~queue'[i].cancelled /\ x = Seen(queue'[i])
    BY <1>3, PendingIsNext
  <2>2. PICK j \in 1 .. Len(queue) : queue'[i] = queue[j] /\ j # n
    <3>1. CASE i < n
        BY <1>1, <3>1
    <3>2. CASE i >= n
        BY <1>1, <3>2
    <3>3. QED
        BY <3>1, <3>2
  <2>3. QED
    BY <1>2, <2>1, <2>2, PendingIs
<1>4. ASSUME NEW x, x \in Pending, queue[n].cancelled \/ x # Seen(queue[n])
      PROVE  x \in Pending'
  <2>1. PICK i \in 1 .. Len(queue) : ~queue[i].cancelled /\ x = Seen(queue[i])
    BY <1>4, PendingIs
  <2>2. i # n
    BY <1>4, <2>1
  <2>3. PICK j \in 1 .. Len(queue') : queue'[j] = queue[i]
    <3>1. CASE i < n
        BY <1>1, <3>1
    <3>2. CASE i > n
      <4>1. /\ i - 1 \in n .. Len(queue) - 1 /\ (i - 1) + 1 = i
            /\ i - 1 \in 1 .. Len(queue')
        BY <1>1, <3>2
      <4>2. queue'[i - 1] = queue[i]
        BY <4>1
      <4>3. QED
        BY <4>1, <4>2
    <3>3. QED
        BY <2>2, <3>1, <3>2
  <2>4. QED
    BY <2>1, <2>3, PendingIsNext
<1>5. QED
    BY <1>3, <1>4

\* Removing a timer hides it from callers, whether it goes at once or stays,
\* cancelled, as the one the ticker waits for.
LEMMA RemoveIsRemove ==
    ASSUME IInv, IInv', NEW n \in DOMAIN queue, timer_rem(n)
    PROVE  \/ \E timer \in Pending : Service!Remove(timer)
           \/ UNCHANGED Service!serviceVars
<1>1. queue \in Seq(Timer) /\ n \in 1 .. Len(queue) /\ Len(queue) \in Nat
    BY DEF IInv, TypeOK
<1>2. /\ now' = now /\ cur_id' = cur_id
      /\ {Seen(timer) : timer \in running}' = {Seen(timer) : timer \in running}
    BY DEF timer_rem, Seen
<1>3. Pending' = IF queue[n].cancelled THEN Pending ELSE Pending \ {Seen(queue[n])}
  <2>1. CASE ~queue[n].in_use
    <3>1. queue' = RemoveAt(queue, n)
        BY <2>1 DEF timer_rem
    <3>2. /\ Len(queue') = Len(queue) - 1
          /\ \A i \in 1 .. n - 1 : queue'[i] = queue[i]
          /\ \A i \in n .. Len(queue) - 1 : queue'[i] = queue[i + 1]
        BY <1>1, <3>1, Dropped
    <3>3. QED
        BY <1>1, <3>2, OneGone
  <2>2. CASE queue[n].in_use
    <3>1. queue' = [queue EXCEPT ![n].cancelled = TRUE]
        BY <2>2 DEF timer_rem
    <3>2. /\ Len(queue') = Len(queue)
          /\ \A i \in 1 .. Len(queue) : i # n => queue'[i] = queue[i]
          /\ queue'[n] = [queue[n] EXCEPT !.cancelled = TRUE]
        BY <1>1, <3>1, Marked
    <3>3. queue'[n].cancelled
      <4>1. queue[n] \in Timer
        BY <1>1
      <4>2. QED
        BY <3>2, <4>1 DEF Timer
    <3>4. ASSUME NEW i \in 1 .. Len(queue), NEW j \in 1 .. Len(queue),
                 Seen(queue[i]) = Seen(queue[j])
          PROVE  i = j
      <4>1. queue[i].id = queue[j].id
        BY <3>4 DEF Seen
      <4>2. QED
        BY <4>1 DEF IInv, IdsDiffer
    <3>5. ASSUME NEW x, x \in Pending'
          PROVE  x \in Pending /\ x # Seen(queue[n])
      <4>1. PICK i \in 1 .. Len(queue') :
                ~queue'[i].cancelled /\ x = Seen(queue'[i])
        BY <3>5, PendingIsNext
      <4>2. i # n /\ i \in 1 .. Len(queue) /\ queue'[i] = queue[i]
        BY <3>2, <3>3, <4>1
      <4>3. QED
        BY <1>1, <3>4, <4>1, <4>2, PendingIs
    <3>6. ASSUME NEW x, x \in Pending, queue[n].cancelled \/ x # Seen(queue[n])
          PROVE  x \in Pending'
      <4>1. PICK i \in 1 .. Len(queue) : ~queue[i].cancelled /\ x = Seen(queue[i])
        BY <3>6, PendingIs
      <4>2. i # n /\ i \in 1 .. Len(queue') /\ queue'[i] = queue[i]
        BY <3>2, <3>6, <4>1
      <4>3. QED
        BY <4>1, <4>2, PendingIsNext
    <3>7. QED
        BY <3>5, <3>6
  <2>3. QED
    BY <2>1, <2>2
<1>4. CASE queue[n].cancelled
    BY <1>2, <1>3, <1>4 DEF Service!serviceVars
<1>5. CASE ~queue[n].cancelled
  <2>1. Seen(queue[n]) \in Pending
    BY <1>1, <1>5, PendingIs
  <2>2. Service!Remove(Seen(queue[n]))
    BY <1>2, <1>3, <1>5 DEF Service!Remove
  <2>3. QED
    BY <2>1, <2>2
<1>6. QED
    BY <1>4, <1>5

\* The ticker that goes to wait shows callers nothing.
LEMMA WaitIsSilent ==
    ASSUME IInv, IInv', cronometer_wait
    PROVE  UNCHANGED Service!serviceVars
<1>1. /\ now' = now /\ cur_id' = cur_id
      /\ {Seen(timer) : timer \in running}' = {Seen(timer) : timer \in running}
    BY DEF cronometer_wait, Seen
<1>2. queue \in Seq(Timer)
    BY DEF IInv, TypeOK
<1>3. CASE queue = <<>>
  <2>1. queue' = queue
    BY <1>3 DEF cronometer_wait
  <2>2. Pending' = Pending
    BY <2>1 DEF Pending, Seen
  <2>3. QED
    BY <1>1, <2>2 DEF Service!serviceVars
<1>4. CASE queue # <<>>
  <2> DEFINE first == [queue[1] EXCEPT !.in_use = TRUE]
  <2>1. 1 \in 1 .. Len(queue) /\ queue[1] \in Timer
    BY <1>2, <1>4
  <2>2. first \in Timer /\ queue' = [queue EXCEPT ![1] = first]
    BY <1>4, <2>1 DEF cronometer_wait, Timer
  <2>3. Seen(first) = Seen(queue[1]) /\ first.cancelled = queue[1].cancelled
    BY <2>1 DEF Seen, Timer
  <2> HIDE DEF first
  <2>4. /\ Len(queue') = Len(queue)
        /\ \A i \in 1 .. Len(queue) : i # 1 => queue'[i] = queue[i]
        /\ queue'[1] = first
    BY <1>2, <2>1, <2>2, Replaced
  <2>5. \A i \in 1 .. Len(queue) : /\ Seen(queue'[i]) = Seen(queue[i])
                                   /\ queue'[i].cancelled = queue[i].cancelled
    BY <2>3, <2>4
  <2>6. \A x : x \in Pending' <=> x \in Pending
    BY <2>4, <2>5, PendingIs, PendingIsNext
  <2>7. Pending' = Pending
    BY <2>6
  <2>8. QED
    BY <1>1, <2>7 DEF Service!serviceVars
<1>5. QED
    BY <1>3, <1>4

\* The first timer runs when it is due and was not cancelled; otherwise callers
\* see nothing.
LEMMA WakeIsFire ==
    ASSUME IInv, IInv', cronometer_wake
    PROVE  \/ \E timer \in Pending : Service!Fire(timer)
           \/ UNCHANGED Service!serviceVars
<1>1. /\ queue \in Seq(Timer) /\ queue # <<>> /\ running = {}
      /\ now \in Nat /\ now' = now /\ cur_id' = cur_id
    BY DEF IInv, TypeOK, WakeupComes, OneHandler, cronometer_wake
<1>2. 1 \in 1 .. Len(queue) /\ queue[1] \in Timer /\ Len(queue) \in Nat
    BY <1>1
<1>3. CASE ~queue[1].cancelled /\ now < queue[1].timeout
  <2>1. queue' = queue /\ running' = running
    BY <1>3 DEF cronometer_wake
  <2>2. Pending' = Pending
    BY <2>1 DEF Pending, Seen
  <2>3. QED
    BY <1>1, <2>1, <2>2 DEF Service!serviceVars, Seen
<1>4. CASE queue[1].cancelled \/ ~(now < queue[1].timeout)
  <2>1. /\ queue' = Tail(queue)
        /\ IF queue[1].cancelled THEN running' = running ELSE running' = {queue[1]}
    BY <1>1, <1>4 DEF cronometer_wake
  <2>2. /\ Len(queue') = Len(queue) - 1
        /\ \A i \in 1 .. Len(queue) - 1 : queue'[i] = queue[i + 1]
    BY <1>1, <1>2, <2>1
  <2>3. Pending' = IF queue[1].cancelled THEN Pending ELSE Pending \ {Seen(queue[1])}
    <3>1. \A i \in 1 .. 1 - 1 : queue'[i] = queue[i]
        OBVIOUS
    <3>2. QED
        BY <1>2, <2>2, <3>1, OneGone
  <2>4. CASE queue[1].cancelled
    BY <1>1, <2>1, <2>3, <2>4 DEF Service!serviceVars, Seen
  <2>5. CASE ~queue[1].cancelled
    <3>1. Seen(queue[1]) \in Pending
        BY <1>2, <2>5, PendingIs
    <3>2. Seen(queue[1]).timeout <= now
      <4>1. queue[1].timeout \in Nat /\ Seen(queue[1]).timeout = queue[1].timeout
        BY <1>2 DEF Timer, Seen
      <4>2. QED
        BY <1>1, <1>4, <2>5, <4>1
    <3>3. /\ {Seen(timer) : timer \in running} = {}
          /\ {Seen(timer) : timer \in running}' = {Seen(queue[1])}
        BY <1>1, <2>1, <2>5 DEF Seen
    <3>4. Service!Fire(Seen(queue[1]))
        BY <1>1, <2>3, <2>5, <3>2, <3>3 DEF Service!Fire
    <3>5. QED
        BY <3>1, <3>4
  <2>6. QED
    BY <2>4, <2>5
<1>5. QED
    BY <1>3, <1>4

\* Every step is a step of the service, or none.
LEMMA NextIsService ==
    ASSUME IInv, IInv', [Next]_vars
    PROVE  [Service!Next]_(Service!serviceVars)
<1>1. ASSUME NEW d \in Delay, NEW k \in 0 .. Len(queue), timer_add(d, k)
      PROVE  Service!Next
    BY <1>1, AddIsAdd DEF Service!Next
<1>2. ASSUME NEW n \in DOMAIN queue, timer_rem(n)
      PROVE  Service!Next \/ UNCHANGED Service!serviceVars
    BY <1>2, RemoveIsRemove DEF Service!Next
<1>3. ASSUME cronometer_wake
      PROVE  Service!Next \/ UNCHANGED Service!serviceVars
    BY <1>3, WakeIsFire DEF Service!Next
<1>4. ASSUME cronometer_sigwait
      PROVE  UNCHANGED Service!serviceVars
    BY <1>4 DEF cronometer_sigwait, Service!serviceVars, Pending, Seen
<1>5. ASSUME cronometer_return
      PROVE  Service!Next
  <2>1. running # {} /\ running' = {} /\ now' = now /\ cur_id' = cur_id
    BY <1>5 DEF IInv, OneHandler, cronometer_return
  <2>2. Pending' = Pending
    BY <1>5 DEF cronometer_return, Pending, Seen
  <2>3. Service!Return
    BY <2>1, <2>2 DEF Service!Return
  <2>4. QED
    BY <2>3 DEF Service!Next
<1>6. ASSUME Tick \/ \E t \in 0 .. MaxTime : SetClock(t)
      PROVE  Service!Next
  <2>1. queue' = queue /\ running' = running /\ cur_id' = cur_id
    BY <1>6 DEF Tick, SetClock
  <2>2. /\ Pending' = Pending
        /\ {Seen(timer) : timer \in running}' = {Seen(timer) : timer \in running}
    BY <2>1 DEF Pending, Seen
  <2>3. now' \in Nat
    BY DEF IInv, TypeOK
  <2>4. Service!Clock
    BY <2>1, <2>2, <2>3 DEF Service!Clock
  <2>5. QED
    BY <2>4 DEF Service!Next
<1>7. ASSUME UNCHANGED vars
      PROVE  UNCHANGED Service!serviceVars
    BY <1>7 DEF vars, Service!serviceVars, Pending, Seen
<1>8. QED
    BY <1>1, <1>2, <1>3, <1>4, <1>5, <1>6, <1>7, WaitIsSilent DEF Next

\* The timer library implements its promise: no handler runs early, twice,
\* beside another one or after its timer was removed in time, and no timer is
\* lost, for any number of timers and callers and however the clock is set.
THEOREM ImplementsService == Spec => KeepsService
<1>1. Init => Service!Init
    BY DEF Init, Service!Init, Pending
<1>2. IInv /\ IInv' /\ [Next]_vars => [Service!Next]_(Service!serviceVars)
    BY NextIsService
<1>3. QED
    BY <1>1, <1>2, Inductive, PTL DEF Spec, KeepsService, Service!Spec
=============================================================================
