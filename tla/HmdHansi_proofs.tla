-------------------------- MODULE HmdHansi_proofs --------------------------
(***************************************************************************)
(* Proofs about the life of a remote hansi: the chain of checks does not   *)
(* break, no hansi is left without an entry, and a deletion hits what it   *)
(* was asked for.                                                          *)
(***************************************************************************)
EXTENDS HmdHansi, TLAPS

-----------------------------------------------------------------------------
(* The inductive invariant.                                                *)

\* At most one message op in a queue.
One(s, op) ==
    \A i, j \in 1..Len(s) : s[i].op = op /\ s[j].op = op => i = j

\* The messages op in a queue are about entry g.
About(s, op, g) == \A i \in 1..Len(s) : s[i].op = op => s[i].gen = g

\* No CREATE behind a DELETE.
InOrder(s) ==
    \A i, j \in 1..Len(s) : s[i].op = DELETE /\ s[j].op = CREATE => j < i

\* A SERVER_DELETE is on its way, and the only one.
Frees(s) == \E i \in 1..Len(s) : s[i] = SERVER_DELETE
OneFree(s) ==
    \A i, j \in 1..Len(s) :
        s[i] = SERVER_DELETE /\ s[j] = SERVER_DELETE => i = j

\* The service board has a use for the hansi.
InUse == inst # 0 /\ monitor # "notified"

Threads ==
    /\ monitor # "none" => inst # 0
    /\ mgmt = "starting" => inst # 0 /\ monitor = "none"

\* The hansi is on its way to the service board, in use there, or on its way
\* back; never two of these, and none when the main board has no entry.
OneToken ==
    /\ srv = "none" => ~Has(tocli, CREATE) /\ ~Frees(tosrv) /\ ~InUse
    /\ ~(Has(tocli, CREATE) /\ Frees(tosrv))
    /\ ~(Has(tocli, CREATE) /\ InUse)
    /\ ~(Frees(tosrv) /\ InUse)
    /\ One(tocli, CREATE) /\ OneFree(tosrv)

\* It is of the entry the main board has.
Current ==
    /\ InUse => inst = gen
    /\ About(tocli, CREATE, gen)
    /\ srv # "none" => gen # 0

\* As long as no deletion is repeated there is one DELETE per entry, taken
\* before the entry is freed.
OneDelete ==
    used["repeat"] = 0 =>
        /\ About(tocli, DELETE, gen) /\ About(mq, DELETE, gen)
        /\ Has(tocli, DELETE) \/ Has(mq, DELETE) \/ monitor = "deleting" \/ Frees(tosrv)
            => asked = gen
        /\ One(tocli, DELETE) /\ One(mq, DELETE)
        /\ ~(Has(tocli, DELETE) /\ Has(mq, DELETE))
        /\ monitor = "deleting" \/ Frees(tosrv) \/ srv = "none"
            => ~Has(tocli, DELETE) /\ ~Has(mq, DELETE)
        /\ Has(tocli, CREATE) \/ mgmt \in {"starting", "requesting"}
            => ~Has(mq, DELETE)
        /\ mgmt \in {"starting", "requesting"}
            => inst # 0 /\ monitor \notin {"deleting", "notified"}
        /\ InOrder(tocli)

IInv == TypeOK /\ Threads /\ OneToken /\ Current /\ OneDelete /\ ChainAlive

-----------------------------------------------------------------------------
(* Queues.                                                                 *)

\* What a message put at the end of a queue changes.
LEMMA PutMsg ==
    ASSUME NEW s \in Seq(Msg), NEW e \in Msg, NEW op, NEW g
    PROVE  /\ Append(s, e) \in Seq(Msg)
           /\ Has(Append(s, e), op) <=> (Has(s, op) \/ e.op = op)
           /\ One(s, op) /\ (e.op # op \/ ~Has(s, op)) => One(Append(s, e), op)
           /\ About(s, op, g) /\ (e.op = op => e.gen = g)
                => About(Append(s, e), op, g)
           /\ InOrder(s) /\ (e.op = CREATE => ~Has(s, DELETE))
                => InOrder(Append(s, e))
<1> DEFINE app == Append(s, e)
<1>1. /\ app \in Seq(Msg) /\ Len(app) = Len(s) + 1 /\ Len(s) \in Nat
      /\ \A n \in 1..Len(s) : app[n] = s[n]
      /\ app[Len(s) + 1] = e
    OBVIOUS
<1> HIDE DEF app
<1>2. Has(app, op) <=> (Has(s, op) \/ e.op = op)
    BY <1>1 DEF Has
<1>3. ASSUME One(s, op), e.op # op \/ ~Has(s, op)
      PROVE  One(app, op)
    BY <1>1, <1>3 DEF One, Has
<1>4. ASSUME About(s, op, g), e.op = op => e.gen = g
      PROVE  About(app, op, g)
    BY <1>1, <1>4 DEF About
<1>5. ASSUME InOrder(s), e.op = CREATE => ~Has(s, DELETE)
      PROVE  InOrder(app)
    BY <1>1, <1>5 DEF InOrder, Has, CREATE, DELETE
<1>6. QED
    BY <1>1, <1>2, <1>3, <1>4, <1>5 DEF app

\* What a message taken from the head of a queue changes.
LEMMA TakeMsg ==
    ASSUME NEW s \in Seq(Msg), s # <<>>, NEW op, NEW g
    PROVE  /\ Tail(s) \in Seq(Msg) /\ Head(s) \in Msg
           /\ Has(s, op) <=> (Head(s).op = op \/ Has(Tail(s), op))
           /\ One(s, op) => One(Tail(s), op)
           /\ One(s, op) /\ Head(s).op = op => ~Has(Tail(s), op)
           /\ About(s, op, g) => About(Tail(s), op, g)
           /\ About(s, op, g) /\ Head(s).op = op => Head(s).gen = g
           /\ InOrder(s) => InOrder(Tail(s))
           /\ InOrder(s) /\ Head(s).op = DELETE => ~Has(s, CREATE)
<1> DEFINE t == Tail(s)
           h == Head(s)
<1>1. /\ t \in Seq(Msg) /\ h \in Msg /\ h = s[1]
      /\ Len(s) \in Nat \ {0} /\ Len(t) = Len(s) - 1
      /\ \A n \in 1..Len(t) : t[n] = s[n + 1]
    OBVIOUS
<1> HIDE DEF t, h
<1>2. Has(s, op) <=> (h.op = op \/ Has(t, op))
  <2>1. ASSUME NEW n \in 1..Len(s), s[n].op = op
        PROVE  h.op = op \/ Has(t, op)
    <3>1. CASE n = 1
        BY <1>1, <2>1, <3>1
    <3>2. CASE n # 1
      <4>1. n - 1 \in 1..Len(t) /\ t[n - 1] = s[(n - 1) + 1] /\ (n - 1) + 1 = n
          BY <1>1, <3>2
      <4>2. QED
          BY <2>1, <4>1 DEF Has
    <3>3. QED
        BY <3>1, <3>2
  <2>2. h.op = op => Has(s, op)
      BY <1>1 DEF Has
  <2>3. ASSUME NEW n \in 1..Len(t), t[n].op = op
        PROVE  Has(s, op)
    <3>1. n + 1 \in 1..Len(s) /\ s[n + 1].op = op
        BY <1>1, <2>3
    <3>2. QED
        BY <3>1 DEF Has
  <2>4. QED
      BY <2>1, <2>2, <2>3 DEF Has
<1>3. One(s, op) => One(t, op)
  <2> SUFFICES ASSUME One(s, op), NEW i \in 1..Len(t), NEW j \in 1..Len(t),
                      t[i].op = op, t[j].op = op
               PROVE  i = j
      BY DEF One
  <2>1. i + 1 \in 1..Len(s) /\ j + 1 \in 1..Len(s)
        /\ s[i + 1].op = op /\ s[j + 1].op = op
      BY <1>1
  <2>2. i + 1 = j + 1
      BY <2>1 DEF One
  <2>3. QED
      BY <1>1, <2>2
<1>4. One(s, op) /\ h.op = op => ~Has(t, op)
  <2> SUFFICES ASSUME One(s, op), h.op = op, NEW i \in 1..Len(t), t[i].op = op
               PROVE  FALSE
      BY DEF Has
  <2>1. i + 1 \in 1..Len(s) /\ 1 \in 1..Len(s)
        /\ s[i + 1].op = op /\ s[1].op = op
      BY <1>1
  <2>2. i + 1 = 1
      BY <2>1 DEF One
  <2>3. QED
      BY <1>1, <2>2
<1>5. About(s, op, g) => About(t, op, g)
    BY <1>1 DEF About
<1>6. About(s, op, g) /\ h.op = op => h.gen = g
    BY <1>1 DEF About
<1>7. InOrder(s) => InOrder(t)
  <2> SUFFICES ASSUME InOrder(s), NEW i \in 1..Len(t), NEW j \in 1..Len(t),
                      t[i].op = DELETE, t[j].op = CREATE
               PROVE  j < i
      BY DEF InOrder
  <2>1. i + 1 \in 1..Len(s) /\ j + 1 \in 1..Len(s)
        /\ s[i + 1].op = DELETE /\ s[j + 1].op = CREATE
      BY <1>1
  <2>2. j + 1 < i + 1
      BY <2>1 DEF InOrder
  <2>3. QED
      BY <1>1, <2>2
<1>8. InOrder(s) /\ h.op = DELETE => ~Has(s, CREATE)
  <2> SUFFICES ASSUME InOrder(s), h.op = DELETE,
                      NEW j \in 1..Len(s), s[j].op = CREATE
               PROVE  FALSE
      BY DEF Has
  <2>1. 1 \in 1..Len(s) /\ s[1].op = DELETE
      BY <1>1
  <2>2. j < 1
      BY <2>1 DEF InOrder
  <2>3. QED
      BY <2>2
<1>9. QED
    BY <1>1, <1>2, <1>3, <1>4, <1>5, <1>6, <1>7, <1>8 DEF t, h

Answer == {IS_DELETE, SERVER_DELETE}

\* The same for the answers to the main board.
LEMMA PutAnswer ==
    ASSUME NEW s \in Seq(Answer), NEW e \in Answer
    PROVE  /\ Append(s, e) \in Seq(Answer)
           /\ Frees(Append(s, e)) <=> (Frees(s) \/ e = SERVER_DELETE)
           /\ OneFree(s) /\ (e # SERVER_DELETE \/ ~Frees(s))
                => OneFree(Append(s, e))
<1> DEFINE app == Append(s, e)
<1>1. /\ app \in Seq(Answer) /\ Len(app) = Len(s) + 1 /\ Len(s) \in Nat
      /\ \A n \in 1..Len(s) : app[n] = s[n]
      /\ app[Len(s) + 1] = e
    OBVIOUS
<1> HIDE DEF app
<1>2. Frees(app) <=> (Frees(s) \/ e = SERVER_DELETE)
    BY <1>1 DEF Frees
<1>3. ASSUME OneFree(s), e # SERVER_DELETE \/ ~Frees(s)
      PROVE  OneFree(app)
    BY <1>1, <1>3 DEF OneFree, Frees
<1>4. QED
    BY <1>1, <1>2, <1>3 DEF app

\* And for an answer taken.
LEMMA TakeAnswer ==
    ASSUME NEW s \in Seq(Answer), s # <<>>
    PROVE  /\ Tail(s) \in Seq(Answer) /\ Head(s) \in Answer
           /\ Frees(Tail(s)) => Frees(s)
           /\ Head(s) = SERVER_DELETE => Frees(s)
           /\ OneFree(s) => OneFree(Tail(s))
           /\ OneFree(s) /\ Head(s) = SERVER_DELETE => ~Frees(Tail(s))
<1> DEFINE t == Tail(s)
           h == Head(s)
<1>1. /\ t \in Seq(Answer) /\ h \in Answer /\ h = s[1]
      /\ Len(s) \in Nat \ {0} /\ Len(t) = Len(s) - 1
      /\ \A n \in 1..Len(t) : t[n] = s[n + 1] /\ n + 1 \in 1..Len(s)
    OBVIOUS
<1> HIDE DEF t, h
<1>2. Frees(t) => Frees(s)
    BY <1>1 DEF Frees
<1>3. h = SERVER_DELETE => Frees(s)
  <2>1. 1 \in 1..Len(s)
      BY <1>1
  <2>2. QED
      BY <1>1, <2>1 DEF Frees
<1>4. OneFree(s) => OneFree(t)
  <2> SUFFICES ASSUME OneFree(s), NEW i \in 1..Len(t), NEW j \in 1..Len(t),
                      t[i] = SERVER_DELETE, t[j] = SERVER_DELETE
               PROVE  i = j
      BY DEF OneFree
  <2>1. i + 1 = j + 1
      BY <1>1 DEF OneFree
  <2>2. QED
      BY <1>1, <2>1
<1>5. OneFree(s) /\ h = SERVER_DELETE => ~Frees(t)
  <2> SUFFICES ASSUME OneFree(s), h = SERVER_DELETE,
                      NEW i \in 1..Len(t), t[i] = SERVER_DELETE
               PROVE  FALSE
      BY DEF Frees
  <2>1. 1 \in 1..Len(s) /\ s[1] = SERVER_DELETE
      BY <1>1
  <2>2. i + 1 = 1
      BY <1>1, <2>1 DEF OneFree
  <2>3. QED
      BY <1>1, <2>2
<1>6. QED
    BY <1>1, <1>2, <1>3, <1>4, <1>5 DEF t, h

-----------------------------------------------------------------------------
(* One lemma per action.                                                   *)

\* A hansi is configured.
LEMMA config_remote_hansi_keeps == IInv /\ config_remote_hansi => IInv'
<1> SUFFICES ASSUME IInv, config_remote_hansi PROVE IInv'
    OBVIOUS
<1>0. TypeOK /\ Threads /\ OneToken /\ Current /\ OneDelete /\ ChainAlive
    BY DEF IInv
<1> DEFINE e == [op |-> CREATE, gen |-> gen']
<1>e. e \in Msg /\ tocli' = Append(tocli, e)
    BY <1>0, HansiAssumption DEF config_remote_hansi, TypeOK, Msg, CREATE, DELETE, CHECKING, IS_DELETE, SERVER_DELETE
<1>f. e.op = CREATE /\ e.gen = gen'
    OBVIOUS
<1> HIDE DEF e
<1>q1. /\ tocli' \in Seq(Msg)
       /\ \A op : Has(tocli', op) <=> (Has(tocli, op) \/ e.op = op)
       /\ \A op : One(tocli, op) /\ (e.op # op \/ ~Has(tocli, op)) => One(tocli', op)
       /\ \A op, g : About(tocli, op, g) /\ (e.op = op => e.gen = g)
             => About(tocli', op, g)
       /\ InOrder(tocli) /\ (e.op = CREATE => ~Has(tocli, DELETE)) => InOrder(tocli')
  <2>1. tocli \in Seq(Msg) /\ e \in Msg
      BY <1>0, <1>e DEF TypeOK
  <2>2. QED
      BY <2>1, <1>e, PutMsg
<1>r1. /\ tocli' \in Seq(Msg) /\ Has(tocli', CREATE)
       /\ (Has(tocli', DELETE) <=> Has(tocli, DELETE)) /\ (One(tocli, DELETE) => One(tocli', DELETE))
       /\ About(tocli, DELETE, gen') => About(tocli', DELETE, gen')
       /\ (Has(tocli', CHECKING) <=> Has(tocli, CHECKING)) /\ (One(tocli, CHECKING) => One(tocli', CHECKING))
       /\ About(tocli, CHECKING, gen') => About(tocli', CHECKING, gen')
       /\ One(tocli, CREATE) /\ ~Has(tocli, CREATE) => One(tocli', CREATE)
       /\ About(tocli, CREATE, gen') => About(tocli', CREATE, gen')
       /\ InOrder(tocli) /\ ~Has(tocli, DELETE) => InOrder(tocli')
  <2>1. CREATE # DELETE /\ CREATE # CHECKING /\ DELETE # CHECKING
      BY DEF CREATE, DELETE, CHECKING
  <2>2. tocli' \in Seq(Msg) /\ Has(tocli', CREATE)
      BY <1>q1, <1>e, <1>f, <2>1, Zenon
  <2>3. (Has(tocli', DELETE) <=> Has(tocli, DELETE)) /\ (One(tocli, DELETE) => One(tocli', DELETE))
      BY <1>q1, <1>e, <1>f, <2>1, Zenon
  <2>4. About(tocli, DELETE, gen') => About(tocli', DELETE, gen')
      BY <1>q1, <1>e, <1>f, <2>1, Zenon
  <2>5. (Has(tocli', CHECKING) <=> Has(tocli, CHECKING)) /\ (One(tocli, CHECKING) => One(tocli', CHECKING))
      BY <1>q1, <1>e, <1>f, <2>1, Zenon
  <2>6. About(tocli, CHECKING, gen') => About(tocli', CHECKING, gen')
      BY <1>q1, <1>e, <1>f, <2>1, Zenon
  <2>7. One(tocli, CREATE) /\ ~Has(tocli, CREATE) => One(tocli', CREATE)
      BY <1>q1, <1>e, <1>f, <2>1, Zenon
  <2>8. About(tocli, CREATE, gen') => About(tocli', CREATE, gen')
      BY <1>q1, <1>e, <1>f, <2>1, Zenon
  <2>9. InOrder(tocli) /\ ~Has(tocli, DELETE) => InOrder(tocli')
      BY <1>q1, <1>e, <1>f, <2>1, Zenon
  <2>10. QED
      BY <2>2, <2>3, <2>4, <2>5, <2>6, <2>7, <2>8, <2>9
<1>n. /\ ~Has(tocli, DELETE) => About(tocli, DELETE, gen')
      /\ ~Has(mq, DELETE) => About(mq, DELETE, gen')
      /\ ~Has(tocli, CREATE) => About(tocli, CREATE, gen') /\ One(tocli, CREATE)
    BY DEF Has, About, One
<1>1. TypeOK'
    BY <1>0, <1>e, <1>f, <1>r1, <1>n, HansiAssumption
    DEF TypeOK, Msg, Answer, Event, Count, config_remote_hansi, server, timers, daemons, CREATE, DELETE, CHECKING, IS_DELETE, SERVER_DELETE
<1>2. Threads'
    BY <1>0, <1>e, <1>f, <1>r1, <1>n
    DEF Threads, TypeOK, OneToken, Current, config_remote_hansi, server, timers, daemons
<1>3. OneToken'
    BY <1>0, <1>e, <1>f, <1>r1, <1>n
    DEF OneToken, Threads, InUse, config_remote_hansi, server, timers, daemons
<1>4. Current'
    BY <1>0, <1>e, <1>f, <1>r1, <1>n
    DEF Current, Threads, OneToken, InUse, TypeOK, config_remote_hansi, server, timers, daemons
<1>5. OneDelete'
    BY <1>0, <1>e, <1>f, <1>r1, <1>n
    DEF OneDelete, Threads, OneToken, Current, Count, Event, InUse, TypeOK, config_remote_hansi, server, timers, daemons
<1>6. ChainAlive'
    BY <1>0, <1>e, <1>f, <1>r1, <1>n
    DEF ChainAlive, Threads, Alive, CheckDue, TypeOK, config_remote_hansi, server, timers, daemons
<1>7. QED
    BY <1>1, <1>2, <1>3, <1>4, <1>5, <1>6 DEF IInv

\* A deletion is asked for.
LEMMA delete_remote_hansi_keeps == IInv /\ delete_remote_hansi => IInv'
<1> SUFFICES ASSUME IInv, delete_remote_hansi PROVE IInv'
    OBVIOUS
<1>0. TypeOK /\ Threads /\ OneToken /\ Current /\ OneDelete /\ ChainAlive
    BY DEF IInv
<1> DEFINE e == [op |-> DELETE, gen |-> gen]
<1>e. e \in Msg /\ tocli' = Append(tocli, e)
    BY <1>0, HansiAssumption DEF delete_remote_hansi, TypeOK, Msg, CREATE, DELETE, CHECKING, IS_DELETE, SERVER_DELETE
<1>f. e.op = DELETE /\ e.gen = gen
    OBVIOUS
<1> HIDE DEF e
<1>q1. /\ tocli' \in Seq(Msg)
       /\ \A op : Has(tocli', op) <=> (Has(tocli, op) \/ e.op = op)
       /\ \A op : One(tocli, op) /\ (e.op # op \/ ~Has(tocli, op)) => One(tocli', op)
       /\ \A op, g : About(tocli, op, g) /\ (e.op = op => e.gen = g)
             => About(tocli', op, g)
       /\ InOrder(tocli) /\ (e.op = CREATE => ~Has(tocli, DELETE)) => InOrder(tocli')
  <2>1. tocli \in Seq(Msg) /\ e \in Msg
      BY <1>0, <1>e DEF TypeOK
  <2>2. QED
      BY <2>1, <1>e, PutMsg
<1>r1. /\ tocli' \in Seq(Msg) /\ Has(tocli', DELETE)
       /\ (Has(tocli', CREATE) <=> Has(tocli, CREATE)) /\ (One(tocli, CREATE) => One(tocli', CREATE))
       /\ About(tocli, CREATE, gen) => About(tocli', CREATE, gen)
       /\ (Has(tocli', CHECKING) <=> Has(tocli, CHECKING)) /\ (One(tocli, CHECKING) => One(tocli', CHECKING))
       /\ About(tocli, CHECKING, gen) => About(tocli', CHECKING, gen)
       /\ One(tocli, DELETE) /\ ~Has(tocli, DELETE) => One(tocli', DELETE)
       /\ About(tocli, DELETE, gen) => About(tocli', DELETE, gen)
       /\ InOrder(tocli) => InOrder(tocli')
  <2>1. CREATE # DELETE /\ CREATE # CHECKING /\ DELETE # CHECKING
      BY DEF CREATE, DELETE, CHECKING
  <2>2. tocli' \in Seq(Msg) /\ Has(tocli', DELETE)
      BY <1>q1, <1>e, <1>f, <2>1, Zenon
  <2>3. (Has(tocli', CREATE) <=> Has(tocli, CREATE)) /\ (One(tocli, CREATE) => One(tocli', CREATE))
      BY <1>q1, <1>e, <1>f, <2>1, Zenon
  <2>4. About(tocli, CREATE, gen) => About(tocli', CREATE, gen)
      BY <1>q1, <1>e, <1>f, <2>1, Zenon
  <2>5. (Has(tocli', CHECKING) <=> Has(tocli, CHECKING)) /\ (One(tocli, CHECKING) => One(tocli', CHECKING))
      BY <1>q1, <1>e, <1>f, <2>1, Zenon
  <2>6. About(tocli, CHECKING, gen) => About(tocli', CHECKING, gen)
      BY <1>q1, <1>e, <1>f, <2>1, Zenon
  <2>7. One(tocli, DELETE) /\ ~Has(tocli, DELETE) => One(tocli', DELETE)
      BY <1>q1, <1>e, <1>f, <2>1, Zenon
  <2>8. About(tocli, DELETE, gen) => About(tocli', DELETE, gen)
      BY <1>q1, <1>e, <1>f, <2>1, Zenon
  <2>9. InOrder(tocli) => InOrder(tocli')
      BY <1>q1, <1>e, <1>f, <2>1, Zenon
  <2>10. QED
      BY <2>2, <2>3, <2>4, <2>5, <2>6, <2>7, <2>8, <2>9
<1>1. TypeOK'
    BY <1>0, <1>e, <1>f, <1>r1, HansiAssumption
    DEF TypeOK, Msg, Answer, Event, Count, delete_remote_hansi, server, timers, daemons, CREATE, DELETE, CHECKING, IS_DELETE, SERVER_DELETE
<1>2. Threads'
    BY <1>0, <1>e, <1>f, <1>r1
    DEF Threads, TypeOK, OneToken, Current, delete_remote_hansi, server, timers, daemons
<1>3. OneToken'
    BY <1>0, <1>e, <1>f, <1>r1
    DEF OneToken, Threads, InUse, delete_remote_hansi, server, timers, daemons
<1>4. Current'
    BY <1>0, <1>e, <1>f, <1>r1
    DEF Current, Threads, OneToken, InUse, TypeOK, delete_remote_hansi, server, timers, daemons
<1>5. OneDelete'
    BY <1>0, <1>e, <1>f, <1>r1
    DEF OneDelete, Threads, OneToken, Current, Count, Event, InUse, TypeOK, delete_remote_hansi, server, timers, daemons
<1>6. ChainAlive'
    BY <1>0, <1>e, <1>f, <1>r1
    DEF ChainAlive, Threads, Alive, CheckDue, TypeOK, delete_remote_hansi, server, timers, daemons
<1>7. QED
    BY <1>1, <1>2, <1>3, <1>4, <1>5, <1>6 DEF IInv

\* delete_flag is set.
LEMMA is_delete_hansi_keeps == IInv /\ is_delete_hansi => IInv'
<1> SUFFICES ASSUME IInv, is_delete_hansi PROVE IInv'
    OBVIOUS
<1>0. TypeOK /\ Threads /\ OneToken /\ Current /\ OneDelete /\ ChainAlive
    BY DEF IInv
<1>q1. /\ tosrv' \in Seq(Answer) /\ Head(tosrv) \in Answer
       /\ Frees(tosrv') => Frees(tosrv)
       /\ Head(tosrv) = SERVER_DELETE => Frees(tosrv)
       /\ OneFree(tosrv) => OneFree(tosrv')
       /\ OneFree(tosrv) /\ Head(tosrv) = SERVER_DELETE => ~Frees(tosrv')
  <2>1. tosrv \in Seq(Answer) /\ tosrv # <<>> /\ tosrv' = Tail(tosrv)
      BY <1>0 DEF TypeOK, Answer, is_delete_hansi
  <2>2. QED
      BY <2>1, TakeAnswer
<1>1. TypeOK'
    BY <1>0, <1>q1, HansiAssumption
    DEF TypeOK, Msg, Answer, Event, Count, is_delete_hansi, server, timers, daemons, CREATE, DELETE, CHECKING, IS_DELETE, SERVER_DELETE
<1>2. Threads'
    BY <1>0, <1>q1
    DEF Threads, TypeOK, OneToken, Current, is_delete_hansi, server, timers, daemons
<1>3. OneToken'
    BY <1>0, <1>q1
    DEF OneToken, Threads, InUse, is_delete_hansi, server, timers, daemons
<1>4. Current'
    BY <1>0, <1>q1
    DEF Current, Threads, OneToken, InUse, TypeOK, is_delete_hansi, server, timers, daemons
<1>5. OneDelete'
    BY <1>0, <1>q1
    DEF OneDelete, Threads, OneToken, Current, Count, Event, InUse, TypeOK, is_delete_hansi, server, timers, daemons
<1>6. ChainAlive'
    BY <1>0, <1>q1
    DEF ChainAlive, Threads, Alive, CheckDue, TypeOK, is_delete_hansi, server, timers, daemons
<1>7. QED
    BY <1>1, <1>2, <1>3, <1>4, <1>5, <1>6 DEF IInv

\* The entry is freed.
LEMMA server_delete_hansi_keeps == IInv /\ server_delete_hansi => IInv'
<1> SUFFICES ASSUME IInv, server_delete_hansi PROVE IInv'
    OBVIOUS
<1>0. TypeOK /\ Threads /\ OneToken /\ Current /\ OneDelete /\ ChainAlive
    BY DEF IInv
<1>q1. /\ tosrv' \in Seq(Answer) /\ Head(tosrv) \in Answer
       /\ Frees(tosrv') => Frees(tosrv)
       /\ Head(tosrv) = SERVER_DELETE => Frees(tosrv)
       /\ OneFree(tosrv) => OneFree(tosrv')
       /\ OneFree(tosrv) /\ Head(tosrv) = SERVER_DELETE => ~Frees(tosrv')
  <2>1. tosrv \in Seq(Answer) /\ tosrv # <<>> /\ tosrv' = Tail(tosrv)
      BY <1>0 DEF TypeOK, Answer, server_delete_hansi
  <2>2. QED
      BY <2>1, TakeAnswer
<1>1. TypeOK'
    BY <1>0, <1>q1, HansiAssumption
    DEF TypeOK, Msg, Answer, Event, Count, server_delete_hansi, server, timers, daemons, CREATE, DELETE, CHECKING, IS_DELETE, SERVER_DELETE
<1>2. Threads'
    BY <1>0, <1>q1
    DEF Threads, TypeOK, OneToken, Current, server_delete_hansi, server, timers, daemons
<1>3. OneToken'
    BY <1>0, <1>q1
    DEF OneToken, Threads, InUse, server_delete_hansi, server, timers, daemons
<1>4. Current'
    BY <1>0, <1>q1
    DEF Current, Threads, OneToken, InUse, TypeOK, server_delete_hansi, server, timers, daemons
<1>5. OneDelete'
    BY <1>0, <1>q1
    DEF OneDelete, Threads, OneToken, Current, Count, Event, InUse, TypeOK, server_delete_hansi, server, timers, daemons
<1>6. ChainAlive'
    BY <1>0, <1>q1
    DEF ChainAlive, Threads, Alive, CheckDue, TypeOK, server_delete_hansi, server, timers, daemons
<1>7. QED
    BY <1>1, <1>2, <1>3, <1>4, <1>5, <1>6 DEF IInv

\* A timer goes off.
LEMMA HandleTimer_test_keeps == IInv /\ HandleTimer_test => IInv'
<1> SUFFICES ASSUME IInv, HandleTimer_test PROVE IInv'
    OBVIOUS
<1>0. TypeOK /\ Threads /\ OneToken /\ Current /\ OneDelete /\ ChainAlive
    BY DEF IInv
<1>1. TypeOK'
  <2>1. /\ own' \in BOOLEAN /\ handler' \in BOOLEAN
        /\ check_op' \in BOOLEAN
      BY <1>0, Zenon DEF TypeOK, HandleTimer_test, server, timers, daemons
  <2>2. srv' \in {"none", "present", "deleting"}
      BY <1>0, HansiAssumption
      DEF TypeOK, Msg, Answer, Event, Count, HandleTimer_test, server, timers, daemons, CREATE, DELETE, CHECKING, IS_DELETE, SERVER_DELETE
  <2>3. gen' \in 0..MaxGen /\ asked' \in 0..gen' /\ inst' \in 0..gen'
      BY <1>0, HansiAssumption
      DEF TypeOK, Msg, Answer, Event, Count, HandleTimer_test, server, timers, daemons, CREATE, DELETE, CHECKING, IS_DELETE, SERVER_DELETE
  <2>4. tocli' \in Seq(Msg) /\ mq' \in Seq(Msg)
      BY <1>0, HansiAssumption
      DEF TypeOK, Msg, Answer, Event, Count, HandleTimer_test, server, timers, daemons, CREATE, DELETE, CHECKING, IS_DELETE, SERVER_DELETE
  <2>5. tosrv' \in Seq({IS_DELETE, SERVER_DELETE})
      BY <1>0, HansiAssumption
      DEF TypeOK, Msg, Answer, Event, Count, HandleTimer_test, server, timers, daemons, CREATE, DELETE, CHECKING, IS_DELETE, SERVER_DELETE
  <2>6. mgmt' \in {"idle", "starting", "requesting", "ended", "dead"}
      BY <1>0, HansiAssumption
      DEF TypeOK, Msg, Answer, Event, Count, HandleTimer_test, server, timers, daemons, CREATE, DELETE, CHECKING, IS_DELETE, SERVER_DELETE
  <2>7. monitor' \in {"none", "init", "idle", "checking", "deleting", "notified"}
      BY <1>0, HansiAssumption
      DEF TypeOK, Msg, Answer, Event, Count, HandleTimer_test, server, timers, daemons, CREATE, DELETE, CHECKING, IS_DELETE, SERVER_DELETE
  <2>8. leaving' \in Nat /\ stray' \in Nat
      BY <1>0, HansiAssumption
      DEF TypeOK, Msg, Answer, Event, Count, HandleTimer_test, server, timers, daemons, CREATE, DELETE, CHECKING, IS_DELETE, SERVER_DELETE
  <2>9. /\ eag' \in {"runs", "hangs", "dead"}
        /\ eag_check' \in 0..EAG_FAILS - 1
        /\ eag_check_timeout' \in 0..EAG_TIMEOUTS - 1
      BY <1>0, HansiAssumption
      DEF TypeOK, Msg, Answer, Event, Count, HandleTimer_test, server, timers, daemons, CREATE, DELETE, CHECKING, IS_DELETE, SERVER_DELETE
  <2>10. used' \in [Event -> Nat]
      BY <1>0, HansiAssumption
      DEF TypeOK, Msg, Answer, Event, Count, HandleTimer_test, server, timers, daemons, CREATE, DELETE, CHECKING, IS_DELETE, SERVER_DELETE
  <2>11. QED
      BY <2>1, <2>2, <2>3, <2>4, <2>5, <2>6, <2>7, <2>8, <2>9, <2>10, Zenon DEF TypeOK
<1>2. Threads'
    BY <1>0
    DEF Threads, TypeOK, OneToken, Current, HandleTimer_test, server, timers, daemons
<1>3. OneToken'
    BY <1>0
    DEF OneToken, Threads, InUse, HandleTimer_test, server, timers, daemons
<1>4. Current'
    BY <1>0
    DEF Current, Threads, OneToken, InUse, TypeOK, HandleTimer_test, server, timers, daemons
<1>5. OneDelete'
    BY <1>0
    DEF OneDelete, Threads, OneToken, Current, Count, Event, InUse, TypeOK, HandleTimer_test, server, timers, daemons
<1>6. ChainAlive'
    BY <1>0
    DEF ChainAlive, Threads, Alive, CheckDue, TypeOK, HandleTimer_test, server, timers, daemons
<1>7. QED
    BY <1>1, <1>2, <1>3, <1>4, <1>5, <1>6 DEF IInv

\* The check is sent.
LEMMA HandleTimer_send_keeps == IInv /\ HandleTimer_send => IInv'
<1> SUFFICES ASSUME IInv, HandleTimer_send PROVE IInv'
    OBVIOUS
<1>0. TypeOK /\ Threads /\ OneToken /\ Current /\ OneDelete /\ ChainAlive
    BY DEF IInv
<1> DEFINE e == [op |-> CHECKING, gen |-> 0]
<1>e. e \in Msg /\ mq' = Append(mq, e)
    BY <1>0, HansiAssumption DEF HandleTimer_send, TypeOK, Msg, CREATE, DELETE, CHECKING, IS_DELETE, SERVER_DELETE
<1>f. e.op = CHECKING /\ e.gen = 0
    OBVIOUS
<1> HIDE DEF e
<1>q1. /\ mq' \in Seq(Msg)
       /\ \A op : Has(mq', op) <=> (Has(mq, op) \/ e.op = op)
       /\ \A op : One(mq, op) /\ (e.op # op \/ ~Has(mq, op)) => One(mq', op)
       /\ \A op, g : About(mq, op, g) /\ (e.op = op => e.gen = g)
             => About(mq', op, g)
       /\ InOrder(mq) /\ (e.op = CREATE => ~Has(mq, DELETE)) => InOrder(mq')
  <2>1. mq \in Seq(Msg) /\ e \in Msg
      BY <1>0, <1>e DEF TypeOK
  <2>2. QED
      BY <2>1, <1>e, PutMsg
<1>r1. /\ mq' \in Seq(Msg) /\ Has(mq', CHECKING)
       /\ (Has(mq', CREATE) <=> Has(mq, CREATE)) /\ (One(mq, CREATE) => One(mq', CREATE))
       /\ About(mq, CREATE, gen) => About(mq', CREATE, gen)
       /\ (Has(mq', DELETE) <=> Has(mq, DELETE)) /\ (One(mq, DELETE) => One(mq', DELETE))
       /\ About(mq, DELETE, gen) => About(mq', DELETE, gen)
       /\ InOrder(mq) => InOrder(mq')
  <2>1. CREATE # DELETE /\ CREATE # CHECKING /\ DELETE # CHECKING
      BY DEF CREATE, DELETE, CHECKING
  <2>2. mq' \in Seq(Msg) /\ Has(mq', CHECKING)
      BY <1>q1, <1>e, <1>f, <2>1, Zenon
  <2>3. (Has(mq', CREATE) <=> Has(mq, CREATE)) /\ (One(mq, CREATE) => One(mq', CREATE))
      BY <1>q1, <1>e, <1>f, <2>1, Zenon
  <2>4. About(mq, CREATE, gen) => About(mq', CREATE, gen)
      BY <1>q1, <1>e, <1>f, <2>1, Zenon
  <2>5. (Has(mq', DELETE) <=> Has(mq, DELETE)) /\ (One(mq, DELETE) => One(mq', DELETE))
      BY <1>q1, <1>e, <1>f, <2>1, Zenon
  <2>6. About(mq, DELETE, gen) => About(mq', DELETE, gen)
      BY <1>q1, <1>e, <1>f, <2>1, Zenon
  <2>7. InOrder(mq) => InOrder(mq')
      BY <1>q1, <1>e, <1>f, <2>1, Zenon
  <2>8. QED
      BY <2>2, <2>3, <2>4, <2>5, <2>6, <2>7
<1>1. TypeOK'
    BY <1>0, <1>e, <1>f, <1>r1, HansiAssumption
    DEF TypeOK, Msg, Answer, Event, Count, HandleTimer_send, server, timers, daemons, CREATE, DELETE, CHECKING, IS_DELETE, SERVER_DELETE
<1>2. Threads'
    BY <1>0, <1>e, <1>f, <1>r1
    DEF Threads, TypeOK, OneToken, Current, HandleTimer_send, server, timers, daemons
<1>3. OneToken'
    BY <1>0, <1>e, <1>f, <1>r1
    DEF OneToken, Threads, InUse, HandleTimer_send, server, timers, daemons
<1>4. Current'
    BY <1>0, <1>e, <1>f, <1>r1
    DEF Current, Threads, OneToken, InUse, TypeOK, HandleTimer_send, server, timers, daemons
<1>5. OneDelete'
    BY <1>0, <1>e, <1>f, <1>r1
    DEF OneDelete, Threads, OneToken, Current, Count, Event, InUse, TypeOK, HandleTimer_send, server, timers, daemons
<1>6. ChainAlive'
    BY <1>0, <1>e, <1>f, <1>r1
    DEF ChainAlive, Threads, Alive, CheckDue, TypeOK, HandleTimer_send, server, timers, daemons
<1>7. QED
    BY <1>1, <1>2, <1>3, <1>4, <1>5, <1>6 DEF IInv

\* The checking is switched.
LEMMA set_hansi_check_state_keeps == IInv /\ set_hansi_check_state => IInv'
<1> SUFFICES ASSUME IInv, set_hansi_check_state PROVE IInv'
    OBVIOUS
<1>0. TypeOK /\ Threads /\ OneToken /\ Current /\ OneDelete /\ ChainAlive
    BY DEF IInv
<1>1. TypeOK'
  <2>1. /\ own' \in BOOLEAN /\ handler' \in BOOLEAN
        /\ check_op' \in BOOLEAN
      BY <1>0, Zenon DEF TypeOK, set_hansi_check_state, CancelAndRequest, server, timers, daemons
  <2>2. srv' \in {"none", "present", "deleting"}
      BY <1>0, HansiAssumption
      DEF TypeOK, Msg, Answer, Event, Count, set_hansi_check_state, CancelAndRequest, server, timers, daemons, CREATE, DELETE, CHECKING, IS_DELETE, SERVER_DELETE
  <2>3. gen' \in 0..MaxGen /\ asked' \in 0..gen' /\ inst' \in 0..gen'
      BY <1>0, HansiAssumption
      DEF TypeOK, Msg, Answer, Event, Count, set_hansi_check_state, CancelAndRequest, server, timers, daemons, CREATE, DELETE, CHECKING, IS_DELETE, SERVER_DELETE
  <2>4. tocli' \in Seq(Msg) /\ mq' \in Seq(Msg)
      BY <1>0, HansiAssumption
      DEF TypeOK, Msg, Answer, Event, Count, set_hansi_check_state, CancelAndRequest, server, timers, daemons, CREATE, DELETE, CHECKING, IS_DELETE, SERVER_DELETE
  <2>5. tosrv' \in Seq({IS_DELETE, SERVER_DELETE})
      BY <1>0, HansiAssumption
      DEF TypeOK, Msg, Answer, Event, Count, set_hansi_check_state, CancelAndRequest, server, timers, daemons, CREATE, DELETE, CHECKING, IS_DELETE, SERVER_DELETE
  <2>6. mgmt' \in {"idle", "starting", "requesting", "ended", "dead"}
      BY <1>0, HansiAssumption
      DEF TypeOK, Msg, Answer, Event, Count, set_hansi_check_state, CancelAndRequest, server, timers, daemons, CREATE, DELETE, CHECKING, IS_DELETE, SERVER_DELETE
  <2>7. monitor' \in {"none", "init", "idle", "checking", "deleting", "notified"}
      BY <1>0, HansiAssumption
      DEF TypeOK, Msg, Answer, Event, Count, set_hansi_check_state, CancelAndRequest, server, timers, daemons, CREATE, DELETE, CHECKING, IS_DELETE, SERVER_DELETE
  <2>8. leaving' \in Nat /\ stray' \in Nat
      BY <1>0, HansiAssumption
      DEF TypeOK, Msg, Answer, Event, Count, set_hansi_check_state, CancelAndRequest, server, timers, daemons, CREATE, DELETE, CHECKING, IS_DELETE, SERVER_DELETE
  <2>9. /\ eag' \in {"runs", "hangs", "dead"}
        /\ eag_check' \in 0..EAG_FAILS - 1
        /\ eag_check_timeout' \in 0..EAG_TIMEOUTS - 1
      BY <1>0, HansiAssumption
      DEF TypeOK, Msg, Answer, Event, Count, set_hansi_check_state, CancelAndRequest, server, timers, daemons, CREATE, DELETE, CHECKING, IS_DELETE, SERVER_DELETE
  <2>10. used' \in [Event -> Nat]
      BY <1>0, HansiAssumption
      DEF TypeOK, Msg, Answer, Event, Count, set_hansi_check_state, CancelAndRequest, server, timers, daemons, CREATE, DELETE, CHECKING, IS_DELETE, SERVER_DELETE
  <2>11. QED
      BY <2>1, <2>2, <2>3, <2>4, <2>5, <2>6, <2>7, <2>8, <2>9, <2>10, Zenon DEF TypeOK
<1>2. Threads'
    BY <1>0
    DEF Threads, TypeOK, OneToken, Current, set_hansi_check_state, CancelAndRequest, server, timers, daemons
<1>3. OneToken'
    BY <1>0
    DEF OneToken, Threads, InUse, set_hansi_check_state, CancelAndRequest, server, timers, daemons
<1>4. Current'
    BY <1>0
    DEF Current, Threads, OneToken, InUse, TypeOK, set_hansi_check_state, CancelAndRequest, server, timers, daemons
<1>5. OneDelete'
    BY <1>0
    DEF OneDelete, Threads, OneToken, Current, Count, Event, InUse, TypeOK, set_hansi_check_state, CancelAndRequest, server, timers, daemons
<1>6. ChainAlive'
    BY <1>0
    DEF ChainAlive, Threads, Alive, CheckDue, TypeOK, set_hansi_check_state, CancelAndRequest, server, timers, daemons
<1>7. QED
    BY <1>1, <1>2, <1>3, <1>4, <1>5, <1>6 DEF IInv

\* The instance is made, or the message ignored.
LEMMA create_instance_keeps == IInv /\ create_instance => IInv'
<1> SUFFICES ASSUME IInv, create_instance PROVE IInv'
    OBVIOUS
<1>0. TypeOK /\ Threads /\ OneToken /\ Current /\ OneDelete /\ ChainAlive
    BY DEF IInv
<1>q1. /\ tocli' \in Seq(Msg) /\ Head(tocli) \in Msg
       /\ \A op : Has(tocli, op) <=> (Head(tocli).op = op \/ Has(tocli', op))
       /\ \A op : One(tocli, op) => One(tocli', op)
       /\ \A op : One(tocli, op) /\ Head(tocli).op = op => ~Has(tocli', op)
       /\ \A op, g : About(tocli, op, g) => About(tocli', op, g)
       /\ \A op, g : About(tocli, op, g) /\ Head(tocli).op = op => Head(tocli).gen = g
       /\ InOrder(tocli) => InOrder(tocli')
       /\ InOrder(tocli) /\ Head(tocli).op = DELETE => ~Has(tocli, CREATE)
  <2>1. tocli \in Seq(Msg) /\ tocli # <<>> /\ tocli' = Tail(tocli)
      BY <1>0 DEF TypeOK, create_instance, Received
  <2>2. QED
      BY <2>1, TakeMsg
<1>r1. /\ Head(tocli).op = CREATE /\ Has(tocli, CREATE)
       /\ (One(tocli, CREATE) => One(tocli', CREATE)) /\ (About(tocli, CREATE, gen) => About(tocli', CREATE, gen))
       /\ Has(tocli', DELETE) <=> Has(tocli, DELETE)
       /\ (One(tocli, DELETE) => One(tocli', DELETE)) /\ (About(tocli, DELETE, gen) => About(tocli', DELETE, gen))
       /\ Has(tocli', CHECKING) <=> Has(tocli, CHECKING)
       /\ (One(tocli, CHECKING) => One(tocli', CHECKING)) /\ (About(tocli, CHECKING, gen) => About(tocli', CHECKING, gen))
       /\ (Has(tocli', CREATE) => Has(tocli, CREATE)) /\ (One(tocli, CREATE) => ~Has(tocli', CREATE))
       /\ About(tocli, CREATE, gen) => Head(tocli).gen = gen
       /\ InOrder(tocli) => InOrder(tocli')
    BY <1>q1 DEF create_instance, Received, CREATE, DELETE, CHECKING, IS_DELETE, SERVER_DELETE
<1>1. TypeOK'
  <2>1. /\ own' \in BOOLEAN /\ handler' \in BOOLEAN
        /\ check_op' \in BOOLEAN
      BY <1>0, Zenon DEF TypeOK, create_instance, Received, server, timers, daemons
  <2>2. srv' \in {"none", "present", "deleting"}
      BY <1>0, <1>r1, <1>q1, HansiAssumption
      DEF TypeOK, Msg, Answer, Event, Count, Current, Threads, OneToken, InUse, create_instance, Received, server, timers, daemons, CREATE, DELETE, CHECKING, IS_DELETE, SERVER_DELETE
  <2>3. gen' \in 0..MaxGen /\ asked' \in 0..gen' /\ inst' \in 0..gen'
    <3>1. CASE inst = 0
        BY <1>0, <1>r1, <1>q1, <3>1, HansiAssumption
        DEF TypeOK, Msg, Answer, Event, Count, Current, Threads, OneToken, InUse, create_instance, Received, server, timers, daemons, CREATE, DELETE, CHECKING, IS_DELETE, SERVER_DELETE
    <3>2. CASE inst # 0
        BY <1>0, <1>r1, <1>q1, <3>2, HansiAssumption
        DEF TypeOK, Msg, Answer, Event, Count, Current, Threads, OneToken, InUse, create_instance, Received, server, timers, daemons, CREATE, DELETE, CHECKING, IS_DELETE, SERVER_DELETE
    <3>3. QED
        BY <3>1, <3>2
  <2>4. tocli' \in Seq(Msg) /\ mq' \in Seq(Msg)
      BY <1>0, <1>r1, <1>q1, HansiAssumption
      DEF TypeOK, Msg, Answer, Event, Count, Current, Threads, OneToken, InUse, create_instance, Received, server, timers, daemons, CREATE, DELETE, CHECKING, IS_DELETE, SERVER_DELETE
  <2>5. tosrv' \in Seq({IS_DELETE, SERVER_DELETE})
      BY <1>0, <1>r1, <1>q1, HansiAssumption
      DEF TypeOK, Msg, Answer, Event, Count, Current, Threads, OneToken, InUse, create_instance, Received, server, timers, daemons, CREATE, DELETE, CHECKING, IS_DELETE, SERVER_DELETE
  <2>6. mgmt' \in {"idle", "starting", "requesting", "ended", "dead"}
    <3>1. CASE inst = 0
        BY <1>0, <1>r1, <1>q1, <3>1, HansiAssumption
        DEF TypeOK, Msg, Answer, Event, Count, Current, Threads, OneToken, InUse, create_instance, Received, server, timers, daemons, CREATE, DELETE, CHECKING, IS_DELETE, SERVER_DELETE
    <3>2. CASE inst # 0
        BY <1>0, <1>r1, <1>q1, <3>2, HansiAssumption
        DEF TypeOK, Msg, Answer, Event, Count, Current, Threads, OneToken, InUse, create_instance, Received, server, timers, daemons, CREATE, DELETE, CHECKING, IS_DELETE, SERVER_DELETE
    <3>3. QED
        BY <3>1, <3>2
  <2>7. monitor' \in {"none", "init", "idle", "checking", "deleting", "notified"}
      BY <1>0, <1>r1, <1>q1, HansiAssumption
      DEF TypeOK, Msg, Answer, Event, Count, Current, Threads, OneToken, InUse, create_instance, Received, server, timers, daemons, CREATE, DELETE, CHECKING, IS_DELETE, SERVER_DELETE
  <2>8. leaving' \in Nat /\ stray' \in Nat
    <3>1. CASE inst = 0
        BY <1>0, <3>1 DEF TypeOK, create_instance
    <3>2. CASE inst # 0
        BY <1>0, <3>2 DEF TypeOK, create_instance
    <3>3. QED
        BY <3>1, <3>2
  <2>9. /\ eag' \in {"runs", "hangs", "dead"}
        /\ eag_check' \in 0..EAG_FAILS - 1
        /\ eag_check_timeout' \in 0..EAG_TIMEOUTS - 1
    <3>1. CASE inst = 0
        BY <1>0, <1>r1, <1>q1, <3>1, HansiAssumption
        DEF TypeOK, Msg, Answer, Event, Count, Current, Threads, OneToken, InUse, create_instance, Received, server, timers, daemons, CREATE, DELETE, CHECKING, IS_DELETE, SERVER_DELETE
    <3>2. CASE inst # 0
        BY <1>0, <1>r1, <1>q1, <3>2, HansiAssumption
        DEF TypeOK, Msg, Answer, Event, Count, Current, Threads, OneToken, InUse, create_instance, Received, server, timers, daemons, CREATE, DELETE, CHECKING, IS_DELETE, SERVER_DELETE
    <3>3. QED
        BY <3>1, <3>2
  <2>10. used' \in [Event -> Nat]
      BY <1>0, <1>r1, <1>q1, HansiAssumption
      DEF TypeOK, Msg, Answer, Event, Count, Current, Threads, OneToken, InUse, create_instance, Received, server, timers, daemons, CREATE, DELETE, CHECKING, IS_DELETE, SERVER_DELETE
  <2>11. QED
      BY <2>1, <2>2, <2>3, <2>4, <2>5, <2>6, <2>7, <2>8, <2>9, <2>10, Zenon DEF TypeOK
<1>2. Threads'
  <2>1. CASE inst = 0
      BY <1>0, <1>r1, <1>q1, <2>1
      DEF Threads, TypeOK, OneToken, Current, create_instance, Received, server, timers, daemons
  <2>2. CASE inst # 0
      BY <1>0, <1>r1, <1>q1, <2>2
      DEF Threads, TypeOK, OneToken, Current, create_instance, Received, server, timers, daemons
  <2>3. QED
      BY <2>1, <2>2
<1>3. OneToken'
  <2>1. CASE inst = 0
      BY <1>0, <1>r1, <1>q1, <2>1
      DEF OneToken, Threads, InUse, create_instance, Received, server, timers, daemons
  <2>2. CASE inst # 0
      BY <1>0, <1>r1, <1>q1, <2>2
      DEF OneToken, Threads, InUse, create_instance, Received, server, timers, daemons
  <2>3. QED
      BY <2>1, <2>2
<1>4. Current'
  <2>1. CASE inst = 0
      BY <1>0, <1>r1, <1>q1, <2>1
      DEF Current, Threads, OneToken, InUse, TypeOK, create_instance, Received, server, timers, daemons
  <2>2. CASE inst # 0
      BY <1>0, <1>r1, <1>q1, <2>2
      DEF Current, Threads, OneToken, InUse, TypeOK, create_instance, Received, server, timers, daemons
  <2>3. QED
      BY <2>1, <2>2
<1>5. OneDelete'
  <2>1. CASE inst = 0
      BY <1>0, <1>r1, <1>q1, <2>1
      DEF OneDelete, Threads, OneToken, Current, Count, Event, InUse, TypeOK, create_instance, Received, server, timers, daemons
  <2>2. CASE inst # 0
      BY <1>0, <1>r1, <1>q1, <2>2
      DEF OneDelete, Threads, OneToken, Current, Count, Event, InUse, TypeOK, create_instance, Received, server, timers, daemons
  <2>3. QED
      BY <2>1, <2>2
<1>6. ChainAlive'
  <2>1. CASE inst = 0
      BY <1>0, <1>r1, <1>q1, <2>1
      DEF ChainAlive, Threads, Alive, CheckDue, TypeOK, create_instance, Received, server, timers, daemons
  <2>2. CASE inst # 0
      BY <1>0, <1>r1, <1>q1, <2>2
      DEF ChainAlive, Threads, Alive, CheckDue, TypeOK, create_instance, Received, server, timers, daemons
  <2>3. QED
      BY <2>1, <2>2
<1>7. QED
    BY <1>1, <1>2, <1>3, <1>4, <1>5, <1>6 DEF IInv

\* The monitor thread is created, or not.
LEMMA create_monitor_keeps == IInv /\ create_monitor => IInv'
<1> SUFFICES ASSUME IInv, create_monitor PROVE IInv'
    OBVIOUS
<1>0. TypeOK /\ Threads /\ OneToken /\ Current /\ OneDelete /\ ChainAlive
    BY DEF IInv
<1>1. TypeOK'
    BY <1>0, HansiAssumption
    DEF TypeOK, Msg, Answer, Event, Count, create_monitor, server, timers, daemons, CREATE, DELETE, CHECKING, IS_DELETE, SERVER_DELETE
<1>2. Threads'
    BY <1>0
    DEF Threads, TypeOK, OneToken, Current, create_monitor, server, timers, daemons
<1>3. OneToken'
    BY <1>0
    DEF OneToken, Threads, InUse, create_monitor, server, timers, daemons
<1>4. Current'
    BY <1>0
    DEF Current, Threads, OneToken, InUse, TypeOK, create_monitor, server, timers, daemons
<1>5. OneDelete'
    BY <1>0
    DEF OneDelete, Threads, OneToken, Current, Count, Event, InUse, TypeOK, create_monitor, server, timers, daemons
<1>6. ChainAlive'
    BY <1>0
    DEF ChainAlive, Threads, Alive, CheckDue, TypeOK, create_monitor, server, timers, daemons
<1>7. QED
    BY <1>1, <1>2, <1>3, <1>4, <1>5, <1>6 DEF IInv

\* The first timer is asked for.
LEMMA first_timer_keeps == IInv /\ first_timer => IInv'
<1> SUFFICES ASSUME IInv, first_timer PROVE IInv'
    OBVIOUS
<1>0. TypeOK /\ Threads /\ OneToken /\ Current /\ OneDelete /\ ChainAlive
    BY DEF IInv
<1>1. TypeOK'
    BY <1>0, HansiAssumption
    DEF TypeOK, Msg, Answer, Event, Count, first_timer, Request, server, timers, daemons, CREATE, DELETE, CHECKING, IS_DELETE, SERVER_DELETE
<1>2. Threads'
    BY <1>0
    DEF Threads, TypeOK, OneToken, Current, first_timer, Request, server, timers, daemons
<1>3. OneToken'
    BY <1>0
    DEF OneToken, Threads, InUse, first_timer, Request, server, timers, daemons
<1>4. Current'
    BY <1>0
    DEF Current, Threads, OneToken, InUse, TypeOK, first_timer, Request, server, timers, daemons
<1>5. OneDelete'
    BY <1>0
    DEF OneDelete, Threads, OneToken, Current, Count, Event, InUse, TypeOK, first_timer, Request, server, timers, daemons
<1>6. ChainAlive'
    BY <1>0
    DEF ChainAlive, Threads, Alive, CheckDue, TypeOK, first_timer, Request, server, timers, daemons
<1>7. QED
    BY <1>1, <1>2, <1>3, <1>4, <1>5, <1>6 DEF IInv

\* The instance is gone.
LEMMA first_timer_fault_keeps == IInv /\ first_timer_fault => IInv'
<1> SUFFICES ASSUME IInv, first_timer_fault PROVE IInv'
    OBVIOUS
<1>0. TypeOK /\ Threads /\ OneToken /\ Current /\ OneDelete /\ ChainAlive
    BY DEF IInv
<1>1. TypeOK'
    BY <1>0, HansiAssumption
    DEF TypeOK, Msg, Answer, Event, Count, first_timer_fault, server, timers, daemons, CREATE, DELETE, CHECKING, IS_DELETE, SERVER_DELETE
<1>2. Threads'
    BY <1>0
    DEF Threads, TypeOK, OneToken, Current, first_timer_fault, server, timers, daemons
<1>3. OneToken'
    BY <1>0
    DEF OneToken, Threads, InUse, first_timer_fault, server, timers, daemons
<1>4. Current'
    BY <1>0
    DEF Current, Threads, OneToken, InUse, TypeOK, first_timer_fault, server, timers, daemons
<1>5. OneDelete'
    BY <1>0
    DEF OneDelete, Threads, OneToken, Current, Count, Event, InUse, TypeOK, first_timer_fault, server, timers, daemons
<1>6. ChainAlive'
    BY <1>0
    DEF ChainAlive, Threads, Alive, CheckDue, TypeOK, first_timer_fault, server, timers, daemons
<1>7. QED
    BY <1>1, <1>2, <1>3, <1>4, <1>5, <1>6 DEF IInv

\* A deletion is passed on.
LEMMA forward_delete_keeps == IInv /\ forward_delete => IInv'
<1> SUFFICES ASSUME IInv, forward_delete PROVE IInv'
    OBVIOUS
<1>0. TypeOK /\ Threads /\ OneToken /\ Current /\ OneDelete /\ ChainAlive
    BY DEF IInv
<1>q1. /\ tocli' \in Seq(Msg) /\ Head(tocli) \in Msg
       /\ \A op : Has(tocli, op) <=> (Head(tocli).op = op \/ Has(tocli', op))
       /\ \A op : One(tocli, op) => One(tocli', op)
       /\ \A op : One(tocli, op) /\ Head(tocli).op = op => ~Has(tocli', op)
       /\ \A op, g : About(tocli, op, g) => About(tocli', op, g)
       /\ \A op, g : About(tocli, op, g) /\ Head(tocli).op = op => Head(tocli).gen = g
       /\ InOrder(tocli) => InOrder(tocli')
       /\ InOrder(tocli) /\ Head(tocli).op = DELETE => ~Has(tocli, CREATE)
  <2>1. tocli \in Seq(Msg) /\ tocli # <<>> /\ tocli' = Tail(tocli)
      BY <1>0 DEF TypeOK, forward_delete, Received
  <2>2. QED
      BY <2>1, TakeMsg
<1> DEFINE e == Head(tocli)
<1> HIDE DEF e
<1>e. mq' = Append(mq, e) /\ e.op = DELETE /\ e \in Msg /\ e = Head(tocli)
    BY <1>0, <1>q1 DEF e, forward_delete, Received, TypeOK
<1>q2. /\ mq' \in Seq(Msg)
       /\ \A op : Has(mq', op) <=> (Has(mq, op) \/ e.op = op)
       /\ \A op : One(mq, op) /\ (e.op # op \/ ~Has(mq, op)) => One(mq', op)
       /\ \A op, g : About(mq, op, g) /\ (e.op = op => e.gen = g)
             => About(mq', op, g)
       /\ InOrder(mq) /\ (e.op = CREATE => ~Has(mq, DELETE)) => InOrder(mq')
  <2>1. mq \in Seq(Msg) /\ e \in Msg
      BY <1>0, <1>e DEF TypeOK
  <2>2. QED
      BY <2>1, <1>e, PutMsg
<1>r1. /\ Head(tocli).op = DELETE /\ Has(tocli, DELETE)
       /\ Has(tocli', CREATE) <=> Has(tocli, CREATE)
       /\ (One(tocli, CREATE) => One(tocli', CREATE)) /\ (About(tocli, CREATE, gen) => About(tocli', CREATE, gen))
       /\ (One(tocli, DELETE) => One(tocli', DELETE)) /\ (About(tocli, DELETE, gen) => About(tocli', DELETE, gen))
       /\ Has(tocli', CHECKING) <=> Has(tocli, CHECKING)
       /\ (One(tocli, CHECKING) => One(tocli', CHECKING)) /\ (About(tocli, CHECKING, gen) => About(tocli', CHECKING, gen))
       /\ (Has(tocli', DELETE) => Has(tocli, DELETE)) /\ (One(tocli, DELETE) => ~Has(tocli', DELETE))
       /\ About(tocli, DELETE, gen) => Head(tocli).gen = gen
       /\ InOrder(tocli) => InOrder(tocli')
       /\ InOrder(tocli) => ~Has(tocli, CREATE)
    BY <1>q1 DEF forward_delete, Received, CREATE, DELETE, CHECKING, IS_DELETE, SERVER_DELETE
<1>r2. /\ mq' \in Seq(Msg) /\ Has(mq', DELETE)
       /\ (Has(mq', CREATE) <=> Has(mq, CREATE)) /\ (One(mq, CREATE) => One(mq', CREATE))
       /\ About(mq, CREATE, gen) => About(mq', CREATE, gen)
       /\ (Has(mq', CHECKING) <=> Has(mq, CHECKING)) /\ (One(mq, CHECKING) => One(mq', CHECKING))
       /\ About(mq, CHECKING, gen) => About(mq', CHECKING, gen)
       /\ One(mq, DELETE) /\ ~Has(mq, DELETE) => One(mq', DELETE)
       /\ About(mq, DELETE, gen) /\ e.gen = gen => About(mq', DELETE, gen)
       /\ InOrder(mq) => InOrder(mq')
  <2>1. CREATE # DELETE /\ CREATE # CHECKING /\ DELETE # CHECKING
      BY DEF CREATE, DELETE, CHECKING
  <2>2. mq' \in Seq(Msg) /\ Has(mq', DELETE)
      BY <1>q2, <1>e, <2>1, Zenon
  <2>3. (Has(mq', CREATE) <=> Has(mq, CREATE)) /\ (One(mq, CREATE) => One(mq', CREATE))
      BY <1>q2, <1>e, <2>1, Zenon
  <2>4. About(mq, CREATE, gen) => About(mq', CREATE, gen)
      BY <1>q2, <1>e, <2>1, Zenon
  <2>5. (Has(mq', CHECKING) <=> Has(mq, CHECKING)) /\ (One(mq, CHECKING) => One(mq', CHECKING))
      BY <1>q2, <1>e, <2>1, Zenon
  <2>6. About(mq, CHECKING, gen) => About(mq', CHECKING, gen)
      BY <1>q2, <1>e, <2>1, Zenon
  <2>7. One(mq, DELETE) /\ ~Has(mq, DELETE) => One(mq', DELETE)
      BY <1>q2, <1>e, <2>1, Zenon
  <2>8. About(mq, DELETE, gen) /\ e.gen = gen => About(mq', DELETE, gen)
      BY <1>q2, <1>e, <2>1, Zenon
  <2>9. InOrder(mq) => InOrder(mq')
      BY <1>q2, <1>e, <2>1, Zenon
  <2>10. QED
      BY <2>2, <2>3, <2>4, <2>5, <2>6, <2>7, <2>8, <2>9
<1>1. TypeOK'
    BY <1>0, <1>e, <1>r1, <1>q1, <1>r2, HansiAssumption
    DEF TypeOK, Msg, Answer, Event, Count, forward_delete, Received, server, timers, daemons, CREATE, DELETE, CHECKING, IS_DELETE, SERVER_DELETE
<1>2. Threads'
    BY <1>0, <1>e, <1>r1, <1>q1, <1>r2
    DEF Threads, TypeOK, OneToken, Current, forward_delete, Received, server, timers, daemons
<1>3. OneToken'
    BY <1>0, <1>e, <1>r1, <1>q1, <1>r2
    DEF OneToken, Threads, InUse, forward_delete, Received, server, timers, daemons
<1>4. Current'
    BY <1>0, <1>e, <1>r1, <1>q1, <1>r2
    DEF Current, Threads, OneToken, InUse, TypeOK, forward_delete, Received, server, timers, daemons
<1>5. OneDelete'
    BY <1>0, <1>e, <1>r1, <1>q1, <1>r2
    DEF OneDelete, Threads, OneToken, Current, Count, Event, InUse, TypeOK, forward_delete, Received, server, timers, daemons
<1>6. ChainAlive'
    BY <1>0, <1>e, <1>r1, <1>q1, <1>r2
    DEF ChainAlive, Threads, Alive, CheckDue, TypeOK, forward_delete, Received, server, timers, daemons
<1>7. QED
    BY <1>1, <1>2, <1>3, <1>4, <1>5, <1>6 DEF IInv

\* The monitor starts, or ends.
LEMMA HMDHansiMonitor_init_keeps == IInv /\ HMDHansiMonitor_init => IInv'
<1> SUFFICES ASSUME IInv, HMDHansiMonitor_init PROVE IInv'
    OBVIOUS
<1>0. TypeOK /\ Threads /\ OneToken /\ Current /\ OneDelete /\ ChainAlive
    BY DEF IInv
<1>1. TypeOK'
    BY <1>0, HansiAssumption
    DEF TypeOK, Msg, Answer, Event, Count, HMDHansiMonitor_init, server, timers, daemons, CREATE, DELETE, CHECKING, IS_DELETE, SERVER_DELETE
<1>2. Threads'
    BY <1>0
    DEF Threads, TypeOK, OneToken, Current, HMDHansiMonitor_init, server, timers, daemons
<1>3. OneToken'
    BY <1>0
    DEF OneToken, Threads, InUse, HMDHansiMonitor_init, server, timers, daemons
<1>4. Current'
    BY <1>0
    DEF Current, Threads, OneToken, InUse, TypeOK, HMDHansiMonitor_init, server, timers, daemons
<1>5. OneDelete'
    BY <1>0
    DEF OneDelete, Threads, OneToken, Current, Count, Event, InUse, TypeOK, HMDHansiMonitor_init, server, timers, daemons
<1>6. ChainAlive'
    BY <1>0
    DEF ChainAlive, Threads, Alive, CheckDue, TypeOK, HMDHansiMonitor_init, server, timers, daemons
<1>7. QED
    BY <1>1, <1>2, <1>3, <1>4, <1>5, <1>6 DEF IInv

\* A check begins.
LEMMA HANSI_CHECKING_begin_keeps == IInv /\ HANSI_CHECKING_begin => IInv'
<1> SUFFICES ASSUME IInv, HANSI_CHECKING_begin PROVE IInv'
    OBVIOUS
<1>0. TypeOK /\ Threads /\ OneToken /\ Current /\ OneDelete /\ ChainAlive
    BY DEF IInv
<1>q1. /\ mq' \in Seq(Msg) /\ Head(mq) \in Msg
       /\ \A op : Has(mq, op) <=> (Head(mq).op = op \/ Has(mq', op))
       /\ \A op : One(mq, op) => One(mq', op)
       /\ \A op : One(mq, op) /\ Head(mq).op = op => ~Has(mq', op)
       /\ \A op, g : About(mq, op, g) => About(mq', op, g)
       /\ \A op, g : About(mq, op, g) /\ Head(mq).op = op => Head(mq).gen = g
       /\ InOrder(mq) => InOrder(mq')
       /\ InOrder(mq) /\ Head(mq).op = DELETE => ~Has(mq, CREATE)
  <2>1. mq \in Seq(Msg) /\ mq # <<>> /\ mq' = Tail(mq)
      BY <1>0 DEF TypeOK, HANSI_CHECKING_begin, Taken
  <2>2. QED
      BY <2>1, TakeMsg
<1>r1. /\ Head(mq).op = CHECKING /\ Has(mq, CHECKING)
       /\ Has(mq', CREATE) <=> Has(mq, CREATE)
       /\ (One(mq, CREATE) => One(mq', CREATE)) /\ (About(mq, CREATE, gen) => About(mq', CREATE, gen))
       /\ Has(mq', DELETE) <=> Has(mq, DELETE)
       /\ (One(mq, DELETE) => One(mq', DELETE)) /\ (About(mq, DELETE, gen) => About(mq', DELETE, gen))
       /\ (One(mq, CHECKING) => One(mq', CHECKING)) /\ (About(mq, CHECKING, gen) => About(mq', CHECKING, gen))
       /\ (Has(mq', CHECKING) => Has(mq, CHECKING)) /\ (One(mq, CHECKING) => ~Has(mq', CHECKING))
       /\ About(mq, CHECKING, gen) => Head(mq).gen = gen
       /\ InOrder(mq) => InOrder(mq')
    BY <1>q1 DEF HANSI_CHECKING_begin, Taken, CREATE, DELETE, CHECKING, IS_DELETE, SERVER_DELETE
<1>1. TypeOK'
    BY <1>0, <1>r1, <1>q1, HansiAssumption
    DEF TypeOK, Msg, Answer, Event, Count, HANSI_CHECKING_begin, Taken, server, timers, daemons, CREATE, DELETE, CHECKING, IS_DELETE, SERVER_DELETE
<1>2. Threads'
    BY <1>0, <1>r1, <1>q1
    DEF Threads, TypeOK, OneToken, Current, HANSI_CHECKING_begin, Taken, server, timers, daemons
<1>3. OneToken'
    BY <1>0, <1>r1, <1>q1
    DEF OneToken, Threads, InUse, HANSI_CHECKING_begin, Taken, server, timers, daemons
<1>4. Current'
    BY <1>0, <1>r1, <1>q1
    DEF Current, Threads, OneToken, InUse, TypeOK, HANSI_CHECKING_begin, Taken, server, timers, daemons
<1>5. OneDelete'
    BY <1>0, <1>r1, <1>q1
    DEF OneDelete, Threads, OneToken, Current, Count, Event, InUse, TypeOK, HANSI_CHECKING_begin, Taken, server, timers, daemons
<1>6. ChainAlive'
    BY <1>0, <1>r1, <1>q1
    DEF ChainAlive, Threads, Alive, CheckDue, TypeOK, HANSI_CHECKING_begin, Taken, server, timers, daemons
<1>7. QED
    BY <1>1, <1>2, <1>3, <1>4, <1>5, <1>6 DEF IInv

\* A check of eag leaves both counters below their limits.
LEMMA EagChecked ==
    ASSUME TypeOK, hansi_eag_checking
    PROVE  /\ eag' \in {"runs", "hangs", "dead"}
           /\ eag_check' \in 0..EAG_FAILS - 1
           /\ eag_check_timeout' \in 0..EAG_TIMEOUTS - 1
<1> DEFINE errors == IF eag = "dead" THEN eag_check + 1 ELSE eag_check
           silent == IF eag = "hangs" THEN eag_check_timeout + 1
                                      ELSE eag_check_timeout
<1>1. errors \in Nat /\ silent \in Nat
    BY DEF TypeOK
<1>2. CASE eag = "runs" \/ errors >= EAG_FAILS \/ silent >= EAG_TIMEOUTS
  <2>1. eag' = "runs" /\ eag_check' = 0 /\ eag_check_timeout' = 0
      BY <1>2 DEF hansi_eag_checking
  <2>2. QED
      BY <2>1, HansiAssumption
<1>3. CASE ~(eag = "runs" \/ errors >= EAG_FAILS \/ silent >= EAG_TIMEOUTS)
  <2>1. eag' = eag /\ eag_check' = errors /\ eag_check_timeout' = silent
      BY <1>3 DEF hansi_eag_checking
  <2>2. errors \in 0..EAG_FAILS - 1 /\ silent \in 0..EAG_TIMEOUTS - 1
    <3> HIDE DEF errors, silent
    <3>1. QED
        BY <1>1, <1>3, HansiAssumption
  <2>3. QED
      BY <2>1, <2>2 DEF TypeOK
<1>4. QED
    BY <1>2, <1>3

\* A check ends.
LEMMA HANSI_CHECKING_end_keeps == IInv /\ HANSI_CHECKING_end => IInv'
<1> SUFFICES ASSUME IInv, HANSI_CHECKING_end PROVE IInv'
    OBVIOUS
<1>0. TypeOK /\ Threads /\ OneToken /\ Current /\ OneDelete /\ ChainAlive
    BY DEF IInv
<1>1. TypeOK'
  <2>1. /\ own' \in BOOLEAN /\ handler' \in BOOLEAN
        /\ check_op' \in BOOLEAN
      BY <1>0, Zenon DEF TypeOK, HANSI_CHECKING_end, hansi_eag_checking, Request, server, timers, daemons
  <2>2. srv' \in {"none", "present", "deleting"}
      BY <1>0, HansiAssumption
      DEF TypeOK, Msg, Answer, Event, Count, HANSI_CHECKING_end, hansi_eag_checking, Request, server, timers, daemons, CREATE, DELETE, CHECKING, IS_DELETE, SERVER_DELETE
  <2>3. gen' \in 0..MaxGen /\ asked' \in 0..gen' /\ inst' \in 0..gen'
      BY <1>0, HansiAssumption
      DEF TypeOK, Msg, Answer, Event, Count, HANSI_CHECKING_end, hansi_eag_checking, Request, server, timers, daemons, CREATE, DELETE, CHECKING, IS_DELETE, SERVER_DELETE
  <2>4. tocli' \in Seq(Msg) /\ mq' \in Seq(Msg)
      BY <1>0, HansiAssumption
      DEF TypeOK, Msg, Answer, Event, Count, HANSI_CHECKING_end, hansi_eag_checking, Request, server, timers, daemons, CREATE, DELETE, CHECKING, IS_DELETE, SERVER_DELETE
  <2>5. tosrv' \in Seq({IS_DELETE, SERVER_DELETE})
      BY <1>0, HansiAssumption
      DEF TypeOK, Msg, Answer, Event, Count, HANSI_CHECKING_end, hansi_eag_checking, Request, server, timers, daemons, CREATE, DELETE, CHECKING, IS_DELETE, SERVER_DELETE
  <2>6. mgmt' \in {"idle", "starting", "requesting", "ended", "dead"}
      BY <1>0, HansiAssumption
      DEF TypeOK, Msg, Answer, Event, Count, HANSI_CHECKING_end, hansi_eag_checking, Request, server, timers, daemons, CREATE, DELETE, CHECKING, IS_DELETE, SERVER_DELETE
  <2>7. monitor' \in {"none", "init", "idle", "checking", "deleting", "notified"}
      BY <1>0, HansiAssumption
      DEF TypeOK, Msg, Answer, Event, Count, HANSI_CHECKING_end, hansi_eag_checking, Request, server, timers, daemons, CREATE, DELETE, CHECKING, IS_DELETE, SERVER_DELETE
  <2>8. leaving' \in Nat /\ stray' \in Nat
      BY <1>0, HansiAssumption
      DEF TypeOK, Msg, Answer, Event, Count, HANSI_CHECKING_end, hansi_eag_checking, Request, server, timers, daemons, CREATE, DELETE, CHECKING, IS_DELETE, SERVER_DELETE
  <2>9. /\ eag' \in {"runs", "hangs", "dead"}
        /\ eag_check' \in 0..EAG_FAILS - 1
        /\ eag_check_timeout' \in 0..EAG_TIMEOUTS - 1
    <3>1. CASE inst # 0
        BY <1>0, <3>1, EagChecked DEF HANSI_CHECKING_end
    <3>2. CASE inst = 0
        BY <1>0, <3>2 DEF TypeOK, HANSI_CHECKING_end, daemons
    <3>3. QED
        BY <3>1, <3>2
  <2>10. used' \in [Event -> Nat]
      BY <1>0, HansiAssumption
      DEF TypeOK, Msg, Answer, Event, Count, HANSI_CHECKING_end, hansi_eag_checking, Request, server, timers, daemons, CREATE, DELETE, CHECKING, IS_DELETE, SERVER_DELETE
  <2>11. QED
      BY <2>1, <2>2, <2>3, <2>4, <2>5, <2>6, <2>7, <2>8, <2>9, <2>10, Zenon DEF TypeOK
<1>2. Threads'
    BY <1>0
    DEF Threads, TypeOK, OneToken, Current, HANSI_CHECKING_end, hansi_eag_checking, Request, server, timers, daemons
<1>3. OneToken'
    BY <1>0
    DEF OneToken, Threads, InUse, HANSI_CHECKING_end, hansi_eag_checking, Request, server, timers, daemons
<1>4. Current'
    BY <1>0
    DEF Current, Threads, OneToken, InUse, TypeOK, HANSI_CHECKING_end, hansi_eag_checking, Request, server, timers, daemons
<1>5. OneDelete'
    BY <1>0
    DEF OneDelete, Threads, OneToken, Current, Count, Event, InUse, TypeOK, HANSI_CHECKING_end, hansi_eag_checking, Request, server, timers, daemons
<1>6. ChainAlive'
    BY <1>0
    DEF ChainAlive, Threads, Alive, CheckDue, TypeOK, HANSI_CHECKING_end, hansi_eag_checking, Request, server, timers, daemons
<1>7. QED
    BY <1>1, <1>2, <1>3, <1>4, <1>5, <1>6 DEF IInv

\* A deletion begins.
LEMMA HANSI_DELETE_begin_keeps == IInv /\ HANSI_DELETE_begin => IInv'
<1> SUFFICES ASSUME IInv, HANSI_DELETE_begin PROVE IInv'
    OBVIOUS
<1>0. TypeOK /\ Threads /\ OneToken /\ Current /\ OneDelete /\ ChainAlive
    BY DEF IInv
<1>q1. /\ mq' \in Seq(Msg) /\ Head(mq) \in Msg
       /\ \A op : Has(mq, op) <=> (Head(mq).op = op \/ Has(mq', op))
       /\ \A op : One(mq, op) => One(mq', op)
       /\ \A op : One(mq, op) /\ Head(mq).op = op => ~Has(mq', op)
       /\ \A op, g : About(mq, op, g) => About(mq', op, g)
       /\ \A op, g : About(mq, op, g) /\ Head(mq).op = op => Head(mq).gen = g
       /\ InOrder(mq) => InOrder(mq')
       /\ InOrder(mq) /\ Head(mq).op = DELETE => ~Has(mq, CREATE)
  <2>1. mq \in Seq(Msg) /\ mq # <<>> /\ mq' = Tail(mq)
      BY <1>0 DEF TypeOK, HANSI_DELETE_begin, Taken
  <2>2. QED
      BY <2>1, TakeMsg
<1>q2. /\ tosrv' \in Seq(Answer)
       /\ Frees(tosrv') <=> (Frees(tosrv) \/ IS_DELETE = SERVER_DELETE)
       /\ OneFree(tosrv) /\ (IS_DELETE # SERVER_DELETE \/ ~Frees(tosrv)) => OneFree(tosrv')
  <2>1. tosrv \in Seq(Answer) /\ IS_DELETE \in Answer /\ tosrv' = Append(tosrv, IS_DELETE)
      BY <1>0 DEF TypeOK, Answer, HANSI_DELETE_begin
  <2>2. QED
      BY <2>1, PutAnswer
<1>r1. /\ Head(mq).op = DELETE /\ Has(mq, DELETE)
       /\ Has(mq', CREATE) <=> Has(mq, CREATE)
       /\ (One(mq, CREATE) => One(mq', CREATE)) /\ (About(mq, CREATE, gen) => About(mq', CREATE, gen))
       /\ (One(mq, DELETE) => One(mq', DELETE)) /\ (About(mq, DELETE, gen) => About(mq', DELETE, gen))
       /\ Has(mq', CHECKING) <=> Has(mq, CHECKING)
       /\ (One(mq, CHECKING) => One(mq', CHECKING)) /\ (About(mq, CHECKING, gen) => About(mq', CHECKING, gen))
       /\ (Has(mq', DELETE) => Has(mq, DELETE)) /\ (One(mq, DELETE) => ~Has(mq', DELETE))
       /\ About(mq, DELETE, gen) => Head(mq).gen = gen
       /\ InOrder(mq) => InOrder(mq')
       /\ InOrder(mq) => ~Has(mq, CREATE)
    BY <1>q1 DEF HANSI_DELETE_begin, Taken, CREATE, DELETE, CHECKING, IS_DELETE, SERVER_DELETE
<1>r2. /\ tosrv' \in Seq(Answer)
       /\ (Frees(tosrv') <=> Frees(tosrv)) /\ (OneFree(tosrv) => OneFree(tosrv'))
    BY <1>q2 DEF HANSI_DELETE_begin, Taken, CREATE, DELETE, CHECKING, IS_DELETE, SERVER_DELETE
<1>1. TypeOK'
    BY <1>0, <1>r1, <1>q1, <1>r2, HansiAssumption
    DEF TypeOK, Msg, Answer, Event, Count, HANSI_DELETE_begin, Taken, server, timers, daemons, CREATE, DELETE, CHECKING, IS_DELETE, SERVER_DELETE
<1>2. Threads'
    BY <1>0, <1>r1, <1>q1, <1>r2
    DEF Threads, TypeOK, OneToken, Current, HANSI_DELETE_begin, Taken, server, timers, daemons
<1>3. OneToken'
    BY <1>0, <1>r1, <1>q1, <1>r2
    DEF OneToken, Threads, InUse, HANSI_DELETE_begin, Taken, server, timers, daemons
<1>4. Current'
    BY <1>0, <1>r1, <1>q1, <1>r2
    DEF Current, Threads, OneToken, InUse, TypeOK, HANSI_DELETE_begin, Taken, server, timers, daemons
<1>5. OneDelete'
    BY <1>0, <1>r1, <1>q1, <1>r2
    DEF OneDelete, Threads, OneToken, Current, Count, Event, InUse, TypeOK, HANSI_DELETE_begin, Taken, server, timers, daemons
<1>6. ChainAlive'
    BY <1>0, <1>r1, <1>q1, <1>r2
    DEF ChainAlive, Threads, Alive, CheckDue, TypeOK, HANSI_DELETE_begin, Taken, server, timers, daemons
<1>7. QED
    BY <1>1, <1>2, <1>3, <1>4, <1>5, <1>6 DEF IInv

\* The main board is told to free the entry.
LEMMA HANSI_DELETE_notice_keeps == IInv /\ HANSI_DELETE_notice => IInv'
<1> SUFFICES ASSUME IInv, HANSI_DELETE_notice PROVE IInv'
    OBVIOUS
<1>0. TypeOK /\ Threads /\ OneToken /\ Current /\ OneDelete /\ ChainAlive
    BY DEF IInv
<1>q1. /\ tosrv' \in Seq(Answer)
       /\ Frees(tosrv') <=> (Frees(tosrv) \/ SERVER_DELETE = SERVER_DELETE)
       /\ OneFree(tosrv) /\ (SERVER_DELETE # SERVER_DELETE \/ ~Frees(tosrv)) => OneFree(tosrv')
  <2>1. tosrv \in Seq(Answer) /\ SERVER_DELETE \in Answer /\ tosrv' = Append(tosrv, SERVER_DELETE)
      BY <1>0 DEF TypeOK, Answer, HANSI_DELETE_notice
  <2>2. QED
      BY <2>1, PutAnswer
<1>r1. /\ tosrv' \in Seq(Answer)
       /\ Frees(tosrv') /\ (OneFree(tosrv) /\ ~Frees(tosrv) => OneFree(tosrv'))
    BY <1>q1 DEF HANSI_DELETE_notice, CREATE, DELETE, CHECKING, IS_DELETE, SERVER_DELETE
<1>1. TypeOK'
    BY <1>0, <1>r1, HansiAssumption
    DEF TypeOK, Msg, Answer, Event, Count, HANSI_DELETE_notice, server, timers, daemons, CREATE, DELETE, CHECKING, IS_DELETE, SERVER_DELETE
<1>2. Threads'
    BY <1>0, <1>r1
    DEF Threads, TypeOK, OneToken, Current, HANSI_DELETE_notice, server, timers, daemons
<1>3. OneToken'
    BY <1>0, <1>r1
    DEF OneToken, Threads, InUse, HANSI_DELETE_notice, server, timers, daemons
<1>4. Current'
    BY <1>0, <1>r1
    DEF Current, Threads, OneToken, InUse, TypeOK, HANSI_DELETE_notice, server, timers, daemons
<1>5. OneDelete'
    BY <1>0, <1>r1
    DEF OneDelete, Threads, OneToken, Current, Count, Event, InUse, TypeOK, HANSI_DELETE_notice, server, timers, daemons
<1>6. ChainAlive'
    BY <1>0, <1>r1
    DEF ChainAlive, Threads, Alive, CheckDue, TypeOK, HANSI_DELETE_notice, server, timers, daemons
<1>7. QED
    BY <1>1, <1>2, <1>3, <1>4, <1>5, <1>6 DEF IInv

\* The instance is freed.
LEMMA HANSI_DELETE_free_keeps == IInv /\ HANSI_DELETE_free => IInv'
<1> SUFFICES ASSUME IInv, HANSI_DELETE_free PROVE IInv'
    OBVIOUS
<1>0. TypeOK /\ Threads /\ OneToken /\ Current /\ OneDelete /\ ChainAlive
    BY DEF IInv
<1>1. TypeOK'
    BY <1>0, HansiAssumption
    DEF TypeOK, Msg, Answer, Event, Count, HANSI_DELETE_free, server, timers, daemons, CREATE, DELETE, CHECKING, IS_DELETE, SERVER_DELETE
<1>2. Threads'
    BY <1>0
    DEF Threads, TypeOK, OneToken, Current, HANSI_DELETE_free, server, timers, daemons
<1>3. OneToken'
    BY <1>0
    DEF OneToken, Threads, InUse, HANSI_DELETE_free, server, timers, daemons
<1>4. Current'
    BY <1>0
    DEF Current, Threads, OneToken, InUse, TypeOK, HANSI_DELETE_free, server, timers, daemons
<1>5. OneDelete'
    BY <1>0
    DEF OneDelete, Threads, OneToken, Current, Count, Event, InUse, TypeOK, HANSI_DELETE_free, server, timers, daemons
<1>6. ChainAlive'
    BY <1>0
    DEF ChainAlive, Threads, Alive, CheckDue, TypeOK, HANSI_DELETE_free, server, timers, daemons
<1>7. QED
    BY <1>1, <1>2, <1>3, <1>4, <1>5, <1>6 DEF IInv

\* The monitor of an earlier incarnation stops eag.
LEMMA HANSI_DELETE_EAG_keeps == IInv /\ HANSI_DELETE_EAG => IInv'
<1> SUFFICES ASSUME IInv, HANSI_DELETE_EAG PROVE IInv'
    OBVIOUS
<1>0. TypeOK /\ Threads /\ OneToken /\ Current /\ OneDelete /\ ChainAlive
    BY DEF IInv
<1>1. TypeOK'
  <2>1. /\ own' \in BOOLEAN /\ handler' \in BOOLEAN
        /\ check_op' \in BOOLEAN
      BY <1>0, Zenon DEF TypeOK, HANSI_DELETE_EAG, server, timers, daemons
  <2>2. srv' \in {"none", "present", "deleting"}
      BY <1>0, HansiAssumption
      DEF TypeOK, Msg, Answer, Event, Count, HANSI_DELETE_EAG, server, timers, daemons, CREATE, DELETE, CHECKING, IS_DELETE, SERVER_DELETE
  <2>3. gen' \in 0..MaxGen /\ asked' \in 0..gen' /\ inst' \in 0..gen'
      BY <1>0, HansiAssumption
      DEF TypeOK, Msg, Answer, Event, Count, HANSI_DELETE_EAG, server, timers, daemons, CREATE, DELETE, CHECKING, IS_DELETE, SERVER_DELETE
  <2>4. tocli' \in Seq(Msg) /\ mq' \in Seq(Msg)
      BY <1>0, HansiAssumption
      DEF TypeOK, Msg, Answer, Event, Count, HANSI_DELETE_EAG, server, timers, daemons, CREATE, DELETE, CHECKING, IS_DELETE, SERVER_DELETE
  <2>5. tosrv' \in Seq({IS_DELETE, SERVER_DELETE})
      BY <1>0, HansiAssumption
      DEF TypeOK, Msg, Answer, Event, Count, HANSI_DELETE_EAG, server, timers, daemons, CREATE, DELETE, CHECKING, IS_DELETE, SERVER_DELETE
  <2>6. mgmt' \in {"idle", "starting", "requesting", "ended", "dead"}
      BY <1>0, HansiAssumption
      DEF TypeOK, Msg, Answer, Event, Count, HANSI_DELETE_EAG, server, timers, daemons, CREATE, DELETE, CHECKING, IS_DELETE, SERVER_DELETE
  <2>7. monitor' \in {"none", "init", "idle", "checking", "deleting", "notified"}
      BY <1>0, HansiAssumption
      DEF TypeOK, Msg, Answer, Event, Count, HANSI_DELETE_EAG, server, timers, daemons, CREATE, DELETE, CHECKING, IS_DELETE, SERVER_DELETE
  <2>8. leaving' \in Nat /\ stray' \in Nat
      BY <1>0, HansiAssumption
      DEF TypeOK, Msg, Answer, Event, Count, HANSI_DELETE_EAG, server, timers, daemons, CREATE, DELETE, CHECKING, IS_DELETE, SERVER_DELETE
  <2>9. /\ eag' \in {"runs", "hangs", "dead"}
        /\ eag_check' \in 0..EAG_FAILS - 1
        /\ eag_check_timeout' \in 0..EAG_TIMEOUTS - 1
      BY <1>0, HansiAssumption
      DEF TypeOK, Msg, Answer, Event, Count, HANSI_DELETE_EAG, server, timers, daemons, CREATE, DELETE, CHECKING, IS_DELETE, SERVER_DELETE
  <2>10. used' \in [Event -> Nat]
      BY <1>0, HansiAssumption
      DEF TypeOK, Msg, Answer, Event, Count, HANSI_DELETE_EAG, server, timers, daemons, CREATE, DELETE, CHECKING, IS_DELETE, SERVER_DELETE
  <2>11. QED
      BY <2>1, <2>2, <2>3, <2>4, <2>5, <2>6, <2>7, <2>8, <2>9, <2>10, Zenon DEF TypeOK
<1>2. Threads'
    BY <1>0
    DEF Threads, TypeOK, OneToken, Current, HANSI_DELETE_EAG, server, timers, daemons
<1>3. OneToken'
    BY <1>0
    DEF OneToken, Threads, InUse, HANSI_DELETE_EAG, server, timers, daemons
<1>4. Current'
    BY <1>0
    DEF Current, Threads, OneToken, InUse, TypeOK, HANSI_DELETE_EAG, server, timers, daemons
<1>5. OneDelete'
    BY <1>0
    DEF OneDelete, Threads, OneToken, Current, Count, Event, InUse, TypeOK, HANSI_DELETE_EAG, server, timers, daemons
<1>6. ChainAlive'
    BY <1>0
    DEF ChainAlive, Threads, Alive, CheckDue, TypeOK, HANSI_DELETE_EAG, server, timers, daemons
<1>7. QED
    BY <1>1, <1>2, <1>3, <1>4, <1>5, <1>6 DEF IInv

\* eag dies or hangs.
LEMMA EagFails_keeps == IInv /\ EagFails => IInv'
<1> SUFFICES ASSUME IInv, EagFails PROVE IInv'
    OBVIOUS
<1>0. TypeOK /\ Threads /\ OneToken /\ Current /\ OneDelete /\ ChainAlive
    BY DEF IInv
<1>1. TypeOK'
  <2>1. /\ own' \in BOOLEAN /\ handler' \in BOOLEAN
        /\ check_op' \in BOOLEAN
      BY <1>0, Zenon DEF TypeOK, EagFails, server, timers, daemons
  <2>2. srv' \in {"none", "present", "deleting"}
      BY <1>0, HansiAssumption
      DEF TypeOK, Msg, Answer, Event, Count, EagFails, server, timers, daemons, CREATE, DELETE, CHECKING, IS_DELETE, SERVER_DELETE
  <2>3. gen' \in 0..MaxGen /\ asked' \in 0..gen' /\ inst' \in 0..gen'
      BY <1>0, HansiAssumption
      DEF TypeOK, Msg, Answer, Event, Count, EagFails, server, timers, daemons, CREATE, DELETE, CHECKING, IS_DELETE, SERVER_DELETE
  <2>4. tocli' \in Seq(Msg) /\ mq' \in Seq(Msg)
      BY <1>0, HansiAssumption
      DEF TypeOK, Msg, Answer, Event, Count, EagFails, server, timers, daemons, CREATE, DELETE, CHECKING, IS_DELETE, SERVER_DELETE
  <2>5. tosrv' \in Seq({IS_DELETE, SERVER_DELETE})
      BY <1>0, HansiAssumption
      DEF TypeOK, Msg, Answer, Event, Count, EagFails, server, timers, daemons, CREATE, DELETE, CHECKING, IS_DELETE, SERVER_DELETE
  <2>6. mgmt' \in {"idle", "starting", "requesting", "ended", "dead"}
      BY <1>0, HansiAssumption
      DEF TypeOK, Msg, Answer, Event, Count, EagFails, server, timers, daemons, CREATE, DELETE, CHECKING, IS_DELETE, SERVER_DELETE
  <2>7. monitor' \in {"none", "init", "idle", "checking", "deleting", "notified"}
      BY <1>0, HansiAssumption
      DEF TypeOK, Msg, Answer, Event, Count, EagFails, server, timers, daemons, CREATE, DELETE, CHECKING, IS_DELETE, SERVER_DELETE
  <2>8. leaving' \in Nat /\ stray' \in Nat
      BY <1>0, HansiAssumption
      DEF TypeOK, Msg, Answer, Event, Count, EagFails, server, timers, daemons, CREATE, DELETE, CHECKING, IS_DELETE, SERVER_DELETE
  <2>9. /\ eag' \in {"runs", "hangs", "dead"}
        /\ eag_check' \in 0..EAG_FAILS - 1
        /\ eag_check_timeout' \in 0..EAG_TIMEOUTS - 1
      BY <1>0, HansiAssumption
      DEF TypeOK, Msg, Answer, Event, Count, EagFails, server, timers, daemons, CREATE, DELETE, CHECKING, IS_DELETE, SERVER_DELETE
  <2>10. used' \in [Event -> Nat]
      BY <1>0, HansiAssumption
      DEF TypeOK, Msg, Answer, Event, Count, EagFails, server, timers, daemons, CREATE, DELETE, CHECKING, IS_DELETE, SERVER_DELETE
  <2>11. QED
      BY <2>1, <2>2, <2>3, <2>4, <2>5, <2>6, <2>7, <2>8, <2>9, <2>10, Zenon DEF TypeOK
<1>2. Threads'
    BY <1>0
    DEF Threads, TypeOK, OneToken, Current, EagFails, server, timers, daemons
<1>3. OneToken'
    BY <1>0
    DEF OneToken, Threads, InUse, EagFails, server, timers, daemons
<1>4. Current'
    BY <1>0
    DEF Current, Threads, OneToken, InUse, TypeOK, EagFails, server, timers, daemons
<1>5. OneDelete'
    BY <1>0
    DEF OneDelete, Threads, OneToken, Current, Count, Event, InUse, TypeOK, EagFails, server, timers, daemons
<1>6. ChainAlive'
    BY <1>0
    DEF ChainAlive, Threads, Alive, CheckDue, TypeOK, EagFails, server, timers, daemons
<1>7. QED
    BY <1>1, <1>2, <1>3, <1>4, <1>5, <1>6 DEF IInv

\* eag answers again.
LEMMA EagResumes_keeps == IInv /\ EagResumes => IInv'
<1> SUFFICES ASSUME IInv, EagResumes PROVE IInv'
    OBVIOUS
<1>0. TypeOK /\ Threads /\ OneToken /\ Current /\ OneDelete /\ ChainAlive
    BY DEF IInv
<1>1. TypeOK'
  <2>1. /\ own' \in BOOLEAN /\ handler' \in BOOLEAN
        /\ check_op' \in BOOLEAN
      BY <1>0, Zenon DEF TypeOK, EagResumes, server, timers, daemons
  <2>2. srv' \in {"none", "present", "deleting"}
      BY <1>0, HansiAssumption
      DEF TypeOK, Msg, Answer, Event, Count, EagResumes, server, timers, daemons, CREATE, DELETE, CHECKING, IS_DELETE, SERVER_DELETE
  <2>3. gen' \in 0..MaxGen /\ asked' \in 0..gen' /\ inst' \in 0..gen'
      BY <1>0, HansiAssumption
      DEF TypeOK, Msg, Answer, Event, Count, EagResumes, server, timers, daemons, CREATE, DELETE, CHECKING, IS_DELETE, SERVER_DELETE
  <2>4. tocli' \in Seq(Msg) /\ mq' \in Seq(Msg)
      BY <1>0, HansiAssumption
      DEF TypeOK, Msg, Answer, Event, Count, EagResumes, server, timers, daemons, CREATE, DELETE, CHECKING, IS_DELETE, SERVER_DELETE
  <2>5. tosrv' \in Seq({IS_DELETE, SERVER_DELETE})
      BY <1>0, HansiAssumption
      DEF TypeOK, Msg, Answer, Event, Count, EagResumes, server, timers, daemons, CREATE, DELETE, CHECKING, IS_DELETE, SERVER_DELETE
  <2>6. mgmt' \in {"idle", "starting", "requesting", "ended", "dead"}
      BY <1>0, HansiAssumption
      DEF TypeOK, Msg, Answer, Event, Count, EagResumes, server, timers, daemons, CREATE, DELETE, CHECKING, IS_DELETE, SERVER_DELETE
  <2>7. monitor' \in {"none", "init", "idle", "checking", "deleting", "notified"}
      BY <1>0, HansiAssumption
      DEF TypeOK, Msg, Answer, Event, Count, EagResumes, server, timers, daemons, CREATE, DELETE, CHECKING, IS_DELETE, SERVER_DELETE
  <2>8. leaving' \in Nat /\ stray' \in Nat
      BY <1>0, HansiAssumption
      DEF TypeOK, Msg, Answer, Event, Count, EagResumes, server, timers, daemons, CREATE, DELETE, CHECKING, IS_DELETE, SERVER_DELETE
  <2>9. /\ eag' \in {"runs", "hangs", "dead"}
        /\ eag_check' \in 0..EAG_FAILS - 1
        /\ eag_check_timeout' \in 0..EAG_TIMEOUTS - 1
      BY <1>0, HansiAssumption
      DEF TypeOK, Msg, Answer, Event, Count, EagResumes, server, timers, daemons, CREATE, DELETE, CHECKING, IS_DELETE, SERVER_DELETE
  <2>10. used' \in [Event -> Nat]
      BY <1>0, HansiAssumption
      DEF TypeOK, Msg, Answer, Event, Count, EagResumes, server, timers, daemons, CREATE, DELETE, CHECKING, IS_DELETE, SERVER_DELETE
  <2>11. QED
      BY <2>1, <2>2, <2>3, <2>4, <2>5, <2>6, <2>7, <2>8, <2>9, <2>10, Zenon DEF TypeOK
<1>2. Threads'
    BY <1>0
    DEF Threads, TypeOK, OneToken, Current, EagResumes, server, timers, daemons
<1>3. OneToken'
    BY <1>0
    DEF OneToken, Threads, InUse, EagResumes, server, timers, daemons
<1>4. Current'
    BY <1>0
    DEF Current, Threads, OneToken, InUse, TypeOK, EagResumes, server, timers, daemons
<1>5. OneDelete'
    BY <1>0
    DEF OneDelete, Threads, OneToken, Current, Count, Event, InUse, TypeOK, EagResumes, server, timers, daemons
<1>6. ChainAlive'
    BY <1>0
    DEF ChainAlive, Threads, Alive, CheckDue, TypeOK, EagResumes, server, timers, daemons
<1>7. QED
    BY <1>1, <1>2, <1>3, <1>4, <1>5, <1>6 DEF IInv

\* A message between the boards is lost.
LEMMA Lose_keeps == IInv /\ Lose => IInv'
<1> SUFFICES ASSUME IInv, Lose PROVE IInv'
    OBVIOUS
<1>0. TypeOK /\ Threads /\ OneToken /\ Current /\ OneDelete /\ ChainAlive
    BY DEF IInv
<1>1. /\ tocli' \in Seq(Msg)
      /\ (Has(tocli', CREATE) => Has(tocli, CREATE)) /\ (Has(tocli', DELETE) => Has(tocli, DELETE))
      /\ (One(tocli, CREATE) => One(tocli', CREATE)) /\ (One(tocli, DELETE) => One(tocli', DELETE))
      /\ About(tocli, CREATE, gen) => About(tocli', CREATE, gen)
      /\ About(tocli, DELETE, gen) => About(tocli', DELETE, gen)
      /\ InOrder(tocli) => InOrder(tocli')
  <2>1. tocli \in Seq(Msg)
      BY <1>0 DEF TypeOK
  <2>2. CASE tocli # <<>> /\ tocli' = Tail(tocli)
      BY <2>1, <2>2, TakeMsg
  <2>3. CASE tocli' = tocli
      BY <2>1, <2>3
  <2>4. QED
      BY <2>2, <2>3 DEF Lose
<1>2. /\ tosrv' \in Seq(Answer)
      /\ Frees(tosrv') => Frees(tosrv)
      /\ OneFree(tosrv) => OneFree(tosrv')
  <2>1. tosrv \in Seq(Answer)
      BY <1>0 DEF TypeOK, Answer
  <2>2. CASE tosrv # <<>> /\ tosrv' = Tail(tosrv)
      BY <2>1, <2>2, TakeAnswer
  <2>3. CASE tosrv' = tosrv
      BY <2>1, <2>3
  <2>4. QED
      BY <2>2, <2>3 DEF Lose
<1>3. /\ UNCHANGED <<srv, gen, asked, inst, mgmt, monitor, leaving, mq, own, stray>>
      /\ UNCHANGED <<handler, check_op, eag, eag_check, eag_check_timeout>>
    BY DEF Lose, server, timers, daemons
<1>4. used' = [used EXCEPT !["loss"] = @ + 1]
    BY DEF Lose, Count
<1>5. TypeOK'
    BY <1>0, <1>1, <1>2, <1>3, <1>4 DEF TypeOK, Answer, Event
<1>6. Threads'
    BY <1>0, <1>3 DEF Threads
<1>7. OneToken'
    BY <1>0, <1>1, <1>2, <1>3 DEF OneToken, InUse
<1>8. Current'
    BY <1>0, <1>1, <1>3 DEF Current, InUse
<1>9. OneDelete'
    BY <1>0, <1>1, <1>2, <1>3, <1>4 DEF OneDelete, TypeOK, Event
<1>10. ChainAlive'
    BY <1>0, <1>3 DEF ChainAlive, Alive, CheckDue
<1>11. QED
    BY <1>5, <1>6, <1>7, <1>8, <1>9, <1>10 DEF IInv

-----------------------------------------------------------------------------
(* The theorems.                                                           *)

\* hmd starts with no hansi and empty queues.
LEMMA Init_IInv == Init => IInv
<1> SUFFICES ASSUME Init PROVE IInv
    OBVIOUS
<1>1. tocli = <<>> /\ mq = <<>> /\ tosrv = <<>>
    BY DEF Init
<1>2. /\ \A op : ~Has(tocli, op) /\ ~Has(mq, op)
      /\ \A op : One(tocli, op) /\ One(mq, op)
      /\ \A op, g : About(tocli, op, g) /\ About(mq, op, g)
      /\ InOrder(tocli) /\ ~Frees(tosrv) /\ OneFree(tosrv)
    BY <1>1 DEF Has, One, About, InOrder, Frees, OneFree
<1>3. TypeOK
  <2>1. used \in [Event -> Nat]
      BY DEF Init
  <2>2. eag_check \in 0..EAG_FAILS - 1 /\ eag_check_timeout \in 0..EAG_TIMEOUTS - 1
      BY HansiAssumption DEF Init
  <2>3. own \in BOOLEAN /\ handler \in BOOLEAN /\ check_op \in BOOLEAN
      BY Zenon DEF Init
  <2>4. gen \in 0..MaxGen /\ asked \in 0..gen /\ inst \in 0..gen
      BY HansiAssumption DEF Init
  <2>5. QED
      BY <1>1, <2>1, <2>2, <2>3, <2>4 DEF Init, TypeOK
<1>4. Threads /\ ChainAlive
    BY DEF Init, Threads, ChainAlive, Alive
<1>5. OneToken /\ Current
    BY <1>2 DEF Init, OneToken, Current, InUse
<1>6. OneDelete
    BY <1>2 DEF Init, OneDelete
<1>7. QED
    BY <1>3, <1>4, <1>5, <1>6 DEF IInv

\* Every step keeps the invariant.
LEMMA Next_keeps == IInv /\ [Next]_vars => IInv'
<1> SUFFICES ASSUME IInv, [Next]_vars PROVE IInv'
    OBVIOUS
<1>1. CASE Server
    BY <1>1, is_delete_hansi_keeps, server_delete_hansi_keeps DEF Server
<1>2. CASE User
    BY <1>2, config_remote_hansi_keeps, delete_remote_hansi_keeps,
       set_hansi_check_state_keeps DEF User
<1>3. CASE Ticker
    BY <1>3, HandleTimer_test_keeps, HandleTimer_send_keeps DEF Ticker
<1>4. CASE Management
    BY <1>4, create_instance_keeps, create_monitor_keeps, first_timer_keeps,
       first_timer_fault_keeps, forward_delete_keeps DEF Management
<1>5. CASE Monitor
    BY <1>5, HMDHansiMonitor_init_keeps, HANSI_CHECKING_begin_keeps,
       HANSI_CHECKING_end_keeps, HANSI_DELETE_begin_keeps,
       HANSI_DELETE_notice_keeps, HANSI_DELETE_free_keeps DEF Monitor
<1>6. CASE HANSI_DELETE_EAG \/ Lose \/ EagFails \/ EagResumes
    BY <1>6, HANSI_DELETE_EAG_keeps, Lose_keeps, EagFails_keeps,
       EagResumes_keeps
<1>7. CASE UNCHANGED vars
    BY <1>7 DEF vars, IInv, TypeOK, Threads, OneToken, Current, OneDelete,
       ChainAlive, InUse, Alive, CheckDue
<1>8. QED
    BY <1>1, <1>2, <1>3, <1>4, <1>5, <1>6, <1>7 DEF Next

\* The invariant holds for any number of configurations, deletions, lost
\* messages, switches and crashes.
THEOREM Inductive == Spec => []IInv
<1>1. QED
    BY Init_IInv, Next_keeps, PTL DEF Spec

\* The kinds of the variables, and eag is reloaded in time
\* (hansi_eag_checking).
THEOREM TypeCorrect == Spec => []TypeOK
<1>1. IInv => TypeOK
    BY DEF IInv
<1>2. QED
    BY <1>1, Inductive, PTL

\* The chain of checks never breaks (HANSI_CHECKING, HmdHandleTimer).
THEOREM ChecksGoOn == Spec => []ChainAlive
<1>1. IInv => ChainAlive
    BY DEF IInv
<1>2. QED
    BY <1>1, Inductive, PTL

\* The main board does not lose a hansi the service board has
\* (hmd_dbus_interface_delete_remote_hansi, HMD_SERVER_DELETE_HANSI).
THEOREM NoneOrphaned == Spec => []NoOrphan
<1>1. IInv => NoOrphan
    BY DEF IInv, OneToken, InUse, NoOrphan
<1>2. QED
    BY <1>1, Inductive, PTL

\* Neither thread uses an instance that was freed, unless a deletion was
\* repeated (HMDManagementC, HANSI_DELETE).
THEOREM NoneUsedFreed == Spec => []NoUseAfterFree
<1>1. IInv => NoUseAfterFree
  <2> SUFFICES ASSUME IInv PROVE NoUseAfterFree
      OBVIOUS
  <2>1. used["repeat"] \in Nat
      BY DEF IInv, TypeOK, Event
  <2>2. QED
      BY <2>1 DEF IInv, Threads, OneDelete, NoUseAfterFree
<1>2. QED
    BY <1>1, Inductive, PTL

\* A monitor deletes the incarnation whose deletion was asked for, unless a
\* deletion was repeated (HANSI_DELETE).
THEOREM DeletesAsked == Spec => DeletesWhatWasAsked
<1> DEFINE Right ==
        monitor # "deleting" /\ monitor' = "deleting" =>
            Head(mq).gen = inst \/ used["repeat"] > 0
<1>1. IInv /\ [Next]_vars => [Right]_vars
  <2> SUFFICES ASSUME IInv, Next, monitor # "deleting", monitor' = "deleting",
                      ~(used["repeat"] > 0)
               PROVE  Head(mq).gen = inst
      BY Zenon
  <2>1. HANSI_DELETE_begin
      BY DEF Next, Server, User, Ticker, Management, Monitor,
         is_delete_hansi, server_delete_hansi, config_remote_hansi,
         delete_remote_hansi, set_hansi_check_state, HandleTimer_test,
         HandleTimer_send, create_instance, create_monitor, first_timer,
         first_timer_fault, forward_delete, HMDHansiMonitor_init,
         HANSI_CHECKING_begin, HANSI_CHECKING_end, HANSI_DELETE_notice,
         HANSI_DELETE_free, HANSI_DELETE_EAG, Lose, EagFails, EagResumes
  <2>2. used["repeat"] = 0
      BY DEF IInv, TypeOK, Event
  <2>3. About(mq, DELETE, gen)
      BY <2>2 DEF IInv, OneDelete
  <2>4. mq \in Seq(Msg) /\ mq # <<>> /\ Head(mq).op = DELETE
      BY <2>1 DEF IInv, TypeOK, HANSI_DELETE_begin, Taken
  <2>5. Head(mq).gen = gen
      BY <2>3, <2>4, TakeMsg
  <2>6. inst = gen
      BY <2>1 DEF IInv, Threads, Current, InUse, HANSI_DELETE_begin, Taken
  <2>7. QED
      BY <2>5, <2>6
<1>2. QED
    BY <1>1, Inductive, PTL DEF Spec, DeletesWhatWasAsked

=============================================================================
