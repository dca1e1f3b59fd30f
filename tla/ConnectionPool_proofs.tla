-------------------------- MODULE ConnectionPool_proofs --------------------------
(* Proofs about ConnectionPool: its types, that no client is lost or used   *)
(* twice, that only as many transactions as there are clients stall it, and *)
(* that a request only comes nearer to its answer, whatever the number of   *)
(* clients and requests.                                                    *)
EXTENDS ConnectionPool, FiniteSetTheorems, TLAPS

(* Which clients a request can hold at each of its steps. ClientsAccounted  *)
(* says nothing of a request that waits or runs a statement; this does.     *)
ClientsPlaced ==
  \A r \in Requests :
    /\ pc[r] # "statement" => extra[r] = {}
    /\ pc[r] \in {"connect", "own"} => Transactional(handler[r])
    /\ ~Transactional(handler[r]) => own[r] = {}
    /\ pc[r] \in {"nested", "statement"} => left[r] > 0

PoolInv == TypeOK /\ ClientsPlaced /\ ClientsAccounted

----------------------------------------------------------------------------
(* The queue, as the set of those who wait                                  *)

(* Who joins the queue waits in it, and nobody else does anew.              *)
LEMMA Joining ==
  ASSUME NEW S, NEW q \in Seq(S), NEW e \in S
  PROVE  /\ Append(q, e) \in Seq(S)
         /\ ToSet(Append(q, e)) = ToSet(q) \cup {e}
         /\ IsInjective(q) /\ e \notin ToSet(q) => IsInjective(Append(q, e))
<1>1. /\ Append(q, e) \in Seq(S)
      /\ DOMAIN q = 1 .. Len(q) /\ Len(q) \in Nat
      /\ DOMAIN Append(q, e) = 1 .. Len(q) + 1
      /\ \A k \in 1 .. Len(q) : Append(q, e)[k] = q[k]
      /\ Append(q, e)[Len(q) + 1] = e
  OBVIOUS
<1>2. ToSet(Append(q, e)) = ToSet(q) \cup {e}
  BY <1>1, SMTT(30) DEF ToSet
<1>3. ASSUME IsInjective(q), e \notin ToSet(q)
      PROVE  IsInjective(Append(q, e))
  BY <1>1, <1>3, SMTT(30) DEF ToSet, IsInjective
<1>. QED  BY <1>1, <1>2, <1>3

(* Who is at the head leaves it, and everyone else stays.                   *)
LEMMA Leading ==
  ASSUME NEW S, NEW q \in Seq(S), q # <<>>
  PROVE  /\ Tail(q) \in Seq(S) /\ Head(q) \in S /\ Head(q) \in ToSet(q)
         /\ IsInjective(q) =>
              /\ IsInjective(Tail(q))
              /\ ToSet(Tail(q)) = ToSet(q) \ {Head(q)}
<1>1. /\ Tail(q) \in Seq(S) /\ Head(q) \in S /\ Head(q) = q[1]
      /\ Len(q) \in Nat \ {0} /\ DOMAIN q = 1 .. Len(q)
      /\ DOMAIN Tail(q) = 1 .. Len(q) - 1
      /\ \A k \in 1 .. Len(q) - 1 : Tail(q)[k] = q[k + 1]
  OBVIOUS
<1>2. Head(q) \in ToSet(q)
  BY <1>1 DEF ToSet
<1>3. ASSUME IsInjective(q)
      PROVE  IsInjective(Tail(q))
  BY <1>1, <1>3, SMTT(30) DEF IsInjective
<1>4. ASSUME IsInjective(q)
      PROVE  ToSet(Tail(q)) = ToSet(q) \ {Head(q)}
  <2>1. ASSUME NEW k \in 1 .. Len(q) - 1
        PROVE  q[k + 1] \in ToSet(q) \ {Head(q)}
    BY <1>1, <1>4, <2>1 DEF ToSet, IsInjective
  <2>2. ASSUME NEW k \in 1 .. Len(q), q[k] # Head(q)
        PROVE  k - 1 \in 1 .. Len(q) - 1 /\ Tail(q)[k - 1] = q[k]
    BY <1>1, <2>2
  <2>3. ToSet(Tail(q)) \subseteq ToSet(q) \ {Head(q)}
    BY <1>1, <2>1 DEF ToSet
  <2>4. ToSet(q) \ {Head(q)} \subseteq ToSet(Tail(q))
    <3>1. ASSUME NEW k \in 1 .. Len(q), q[k] # Head(q)
          PROVE  q[k] \in ToSet(Tail(q))
      BY <1>1, <2>2, <3>1 DEF ToSet
    <3>. QED  BY <1>1, <3>1 DEF ToSet
  <2>. QED  BY <2>3, <2>4
<1>. QED  BY <1>1, <1>2, <1>3, <1>4

(* Who gives up leaves it from wherever it stands.                          *)
LEMMA Leaving ==
  ASSUME NEW S, NEW q \in Seq(S), IsInjective(q), NEW k \in DOMAIN q
  PROVE  /\ RemoveAt(q, k) \in Seq(S)
         /\ IsInjective(RemoveAt(q, k))
         /\ ToSet(RemoveAt(q, k)) = ToSet(q) \ {q[k]}
<1>. DEFINE p == RemoveAt(q, k)
            from(n) == IF n < k THEN n ELSE n + 1
<1>1. Len(q) \in Nat /\ DOMAIN q = 1 .. Len(q) /\ k \in 1 .. Len(q)
  OBVIOUS
<1>2. /\ SubSeq(q, 1, k - 1) \in Seq(S) /\ Len(SubSeq(q, 1, k - 1)) = k - 1
      /\ \A n \in 1 .. k - 1 : SubSeq(q, 1, k - 1)[n] = q[n]
  BY <1>1
<1>3. /\ SubSeq(q, k + 1, Len(q)) \in Seq(S)
      /\ Len(SubSeq(q, k + 1, Len(q))) = Len(q) - k
      /\ \A n \in 1 .. Len(q) - k :
           SubSeq(q, k + 1, Len(q))[n] = q[k + n]
  BY <1>1
<1>4. p \in Seq(S) /\ Len(p) = Len(q) - 1 /\ DOMAIN p = 1 .. Len(q) - 1
  <2>1. ASSUME NEW a \in Seq(S), NEW b \in Seq(S),
               Len(a) = k - 1, Len(b) = Len(q) - k
        PROVE  a \o b \in Seq(S) /\ Len(a \o b) = Len(q) - 1
    <3>1. a \o b \in Seq(S) /\ Len(a \o b) = Len(a) + Len(b)
      OBVIOUS
    <3>. QED  BY ONLY <1>1, <2>1, <3>1
  <2>2. p \in Seq(S) /\ Len(p) = Len(q) - 1
    BY <1>2, <1>3, <2>1 DEF RemoveAt
  <2>. QED  BY <1>1, <2>2
<1>5. ASSUME NEW n \in 1 .. Len(q) - 1
      PROVE  /\ p[n] = q[from(n)]
             /\ from(n) \in 1 .. Len(q) /\ from(n) # k
  <2>1. ASSUME NEW a \in Seq(S), NEW b \in Seq(S),
               Len(a) = k - 1, Len(b) = Len(q) - k
        PROVE  /\ n < k => (a \o b)[n] = a[n]
               /\ ~ n < k => (a \o b)[n] = b[n - k + 1]
    BY ONLY <1>1, <2>1, n \in 1 .. Len(q) - 1, SMTT(30)
  <2>2. from(n) \in 1 .. Len(q) /\ from(n) # k
    BY ONLY <1>1, n \in 1 .. Len(q) - 1
  <2>3. CASE n < k
    <3>1. p[n] = SubSeq(q, 1, k - 1)[n]
      BY <1>2, <1>3, <2>1, <2>3 DEF RemoveAt
    <3>. QED  BY <1>1, <1>2, <2>2, <2>3, <3>1
  <2>4. CASE ~ n < k
    <3>1. p[n] = SubSeq(q, k + 1, Len(q))[n - k + 1]
      BY <1>2, <1>3, <2>1, <2>4 DEF RemoveAt
    <3>2. n - k + 1 \in 1 .. Len(q) - k /\ k + (n - k + 1) = n + 1
      BY <1>1, <2>4
    <3>. QED  BY <1>3, <2>2, <2>4, <3>1, <3>2
  <2>. QED  BY <2>3, <2>4
<1>6. IsInjective(p)
  <2>1. ASSUME NEW m \in 1 .. Len(q) - 1, NEW n \in 1 .. Len(q) - 1,
               p[m] = p[n]
        PROVE  m = n
    <3>1. from(m) = from(n)
      BY <1>1, <1>5, <2>1 DEF IsInjective
    <3>. QED  BY <3>1, <1>1
  <2>. QED  BY <1>4, <2>1 DEF IsInjective
<1>7. ASSUME NEW j \in 1 .. Len(q), j # k
      PROVE  \E n \in 1 .. Len(q) - 1 : from(n) = j
  <2>1. CASE j < k
    BY <1>1, <2>1
  <2>2. CASE j > k
    <3>1. j - 1 \in 1 .. Len(q) - 1 /\ from(j - 1) = j
      BY <1>1, <2>2
    <3>. QED  BY <3>1
  <2>. QED  BY <1>1, <1>7, <2>1, <2>2
<1>8. ToSet(p) = ToSet(q) \ {q[k]}
  <2>1. ASSUME NEW n \in 1 .. Len(q) - 1
        PROVE  p[n] \in ToSet(q) \ {q[k]}
    BY <1>1, <1>5 DEF ToSet, IsInjective
  <2>2. ASSUME NEW j \in 1 .. Len(q), q[j] # q[k]
        PROVE  \E n \in 1 .. Len(q) - 1 : p[n] = q[j]
    BY <1>5, <1>7, <2>2
  <2>. HIDE DEF p
  <2>3. ToSet(p) \subseteq ToSet(q) \ {q[k]}
    BY <1>4, <2>1 DEF ToSet
  <2>4. ASSUME NEW j \in 1 .. Len(q), q[j] # q[k]
        PROVE  q[j] \in ToSet(p)
    BY <1>4, <2>2, <2>4 DEF ToSet
  <2>. QED  BY <1>1, <2>3, <2>4 DEF ToSet
<1>. QED  BY <1>4, <1>6, <1>8

----------------------------------------------------------------------------
(* The invariant                                                            *)

LEMMA InitPool == Init => PoolInv
<1>. SUFFICES ASSUME Init PROVE PoolInv
  OBVIOUS
<1>1. queue \in Seq(Requests) /\ ToSet(queue) = {} /\ IsInjective(queue)
  BY DEF Init, ToSet, IsInjective
<1>2. TypeOK
  BY <1>1 DEF Init, TypeOK, PCs
<1>. QED
  BY <1>1, <1>2
  DEF Init, PoolInv, ClientsPlaced, ClientsAccounted, Transactional, Waiting

(* One case per action; the queue's share of each is in the lemmas above.   *)
LEMMA PoolStep == PoolInv /\ [Next]_vars => PoolInv'
<1>. SUFFICES ASSUME PoolInv, [Next]_vars PROVE PoolInv'
  OBVIOUS
<1>. USE DEF PoolInv
<1>1. ASSUME NEW r \in Requests, NEW h \in Handlers, Receive(r, h)
      PROVE  PoolInv'
  <2>1. h \in AllHandlers /\ NestedOf(h) \subseteq Nat
        /\ (~Transactional(h) => NestedOf(h) = {1})
    BY HandlersAssumption, NestedAssumption
    DEF NestedOf, Transactional, AllHandlers
  <2>2. /\ queue' \in Seq(Requests) /\ IsInjective(queue')
        /\ ToSet(queue') = ToSet(queue) \cup {r}
    <3>1. queue' = Append(queue, r) /\ pc[r] = "idle"
      BY <1>1 DEF Receive
    <3>2. queue \in Seq(Requests) /\ IsInjective(queue)
      BY DEF TypeOK, ClientsAccounted
    <3>3. r \notin ToSet(queue)
      BY <3>1 DEF ClientsAccounted, Waiting
    <3>. QED  BY <3>1, <3>2, <3>3, Joining
  <2>3. TypeOK'
    BY <1>1, <2>1, <2>2 DEF Receive, Goto, TypeOK, PCs
  <2>4. ClientsPlaced'
    BY <1>1, <2>1
    DEF Receive, Goto, TypeOK, ClientsPlaced, ClientsAccounted, Transactional
  <2>5. /\ pc[r] = "idle" /\ UNCHANGED <<own, extra>>
        /\ \E w \in {"connect", "nested"} : pc' = [pc EXCEPT ![r] = w]
    BY <1>1 DEF Receive, Goto
  <2>6. ClientsAccounted'
    BY <2>2, <2>5 DEF TypeOK, ClientsAccounted, Waiting
  <2>. QED  BY <2>3, <2>4, <2>6
<1>2. ASSUME NEW c \in Clients, Grant(c)
      PROVE  PoolInv'
  <2>. DEFINE r == Head(queue)
  <2>1. /\ r \in Requests /\ r \in Waiting
        /\ queue' \in Seq(Requests) /\ IsInjective(queue')
        /\ ToSet(queue') = ToSet(queue) \ {r}
    BY <1>2, Leading DEF Grant, TypeOK, ClientsAccounted, Waiting
  <2>2. pc[r] \in {"connect", "nested"}
    BY <2>1 DEF ClientsAccounted
  <2>3. \A s \in Requests : c \notin own[s] \cup extra[s]
    BY <1>2 DEF Grant, FreeClients
  <2>. HIDE DEF r
  <2>4. CASE pc[r] = "connect"
    <3>1. /\ own' = [own EXCEPT ![r] = {c}]
          /\ pc' = [pc EXCEPT ![r] = "own"]
          /\ UNCHANGED <<extra, reply, handler, left>>
      BY <1>2, <2>4 DEF Grant, Goto, r
    <3>2. TypeOK'
      BY <2>1, <3>1 DEF TypeOK, PCs
    <3>3. ClientsPlaced'
      BY <2>1, <2>4, <3>1 DEF TypeOK, ClientsPlaced
    <3>4. ClientsAccounted'
      BY <2>1, <2>3, <2>4, <3>1 DEF TypeOK, ClientsAccounted, Waiting
    <3>. QED  BY <3>2, <3>3, <3>4
  <2>5. CASE pc[r] = "nested"
    <3>1. /\ extra' = [extra EXCEPT ![r] = {c}]
          /\ pc' = [pc EXCEPT ![r] = "statement"]
          /\ UNCHANGED <<own, reply, handler, left>>
      BY <1>2, <2>5 DEF Grant, Goto, r
    <3>2. TypeOK'
      BY <2>1, <3>1 DEF TypeOK, PCs
    <3>3. ClientsPlaced'
      BY <2>1, <2>5, <3>1 DEF TypeOK, ClientsPlaced
    <3>4. ClientsAccounted'
      BY <2>1, <2>3, <2>5, <3>1 DEF TypeOK, ClientsAccounted, Waiting
    <3>. QED  BY <3>2, <3>3, <3>4
  <2>. QED  BY <2>2, <2>4, <2>5
<1>3. ASSUME NEW r \in Requests, AskNested(r)
      PROVE  PoolInv'
  <2>1. /\ queue' \in Seq(Requests) /\ IsInjective(queue')
        /\ ToSet(queue') = ToSet(queue) \cup {r}
    <3>1. queue' = Append(queue, r) /\ r \in Requests
      BY <1>3 DEF AskNested
    <3>2. queue \in Seq(Requests) /\ IsInjective(queue) /\ r \notin ToSet(queue)
      BY <1>3 DEF AskNested, TypeOK, ClientsAccounted, Waiting
    <3>. QED  BY <3>1, <3>2, Joining
  <2>2. TypeOK'
    BY <1>3, <2>1 DEF AskNested, Goto, TypeOK, PCs
  <2>3. ClientsPlaced'
    BY <1>3 DEF AskNested, Goto, TypeOK, ClientsPlaced
  <2>4. ClientsAccounted'
    BY <1>3, <2>1 DEF AskNested, Goto, TypeOK, ClientsAccounted, Waiting
  <2>. QED  BY <2>2, <2>3, <2>4
<1>4. ASSUME NEW r \in Requests, StatementEnds(r)
      PROVE  PoolInv'
  <2>1. left[r] \in Nat /\ left[r] > 0
    BY <1>4 DEF StatementEnds, TypeOK, ClientsPlaced
  <2>2. /\ pc' = [pc EXCEPT ![r] = IF Transactional(handler[r])
                                    THEN "own" ELSE "done"]
        /\ reply' \in [Requests -> {"none", "ok", "error"}]
    BY <1>4 DEF StatementEnds, Goto, Reply, TypeOK
  <2>3. TypeOK'
    BY <1>4, <2>1, <2>2 DEF StatementEnds, TypeOK, PCs
  <2>4. ClientsPlaced'
    BY <1>4, <2>2 DEF StatementEnds, TypeOK, ClientsPlaced, Transactional
  <2>5. ClientsAccounted'
    BY <1>4, <2>2
    DEF StatementEnds, TypeOK, ClientsPlaced, ClientsAccounted, Waiting,
        Transactional
  <2>. QED  BY <2>3, <2>4, <2>5
<1>5. ASSUME NEW r \in Requests, Finish(r)
      PROVE  PoolInv'
  <2>1. TypeOK'
    BY <1>5 DEF Finish, Reply, TypeOK, PCs
  <2>2. ClientsPlaced'
    BY <1>5 DEF Finish, Reply, TypeOK, ClientsPlaced
  <2>3. ClientsAccounted'
    BY <1>5 DEF Finish, Reply, TypeOK, ClientsPlaced, ClientsAccounted,
                Waiting
  <2>. QED  BY <2>1, <2>2, <2>3
<1>6. ASSUME NEW r \in Requests, Timeout(r)
      PROVE  PoolInv'
  <2>1. PICK k \in DOMAIN queue :
          queue[k] = r /\ queue' = RemoveAt(queue, k)
    BY <1>6 DEF Timeout, LeaveQueue
  <2>2. /\ queue' \in Seq(Requests) /\ IsInjective(queue')
        /\ ToSet(queue') = ToSet(queue) \ {r}
    BY <2>1, Leaving DEF TypeOK, ClientsAccounted
  <2>3. r \in Waiting
    BY <2>1 DEF Waiting, ToSet
  <2>4. pc[r] \in {"connect", "nested"} /\ extra[r] = {}
    BY <2>3 DEF ClientsAccounted, ClientsPlaced
  <2>5. CASE handler[r] = "billing" /\ pc[r] = "nested"
    <3>1. /\ left' = [left EXCEPT ![r] = @ - 1]
          /\ pc' = [pc EXCEPT ![r] = "own"]
          /\ UNCHANGED <<reply, own, handler, extra>>
      BY <1>6, <2>5 DEF Timeout, Goto
    <3>2. left[r] \in Nat /\ left[r] > 0 /\ Transactional(handler[r])
      BY <2>5 DEF TypeOK, ClientsPlaced, Transactional
    <3>3. TypeOK'
      BY <2>2, <3>1, <3>2 DEF TypeOK, PCs
    <3>4. ClientsPlaced'
      BY <2>4, <3>1, <3>2 DEF TypeOK, ClientsPlaced
    <3>5. ClientsAccounted'
      BY <2>2, <3>1 DEF TypeOK, ClientsAccounted, Waiting
    <3>. QED  BY <3>3, <3>4, <3>5
  <2>6. CASE ~(handler[r] = "billing" /\ pc[r] = "nested")
    <3>1. /\ pc' = [pc EXCEPT ![r] = "done"]
          /\ reply' = [reply EXCEPT ![r] = "error"]
          /\ own' = [own EXCEPT ![r] = {}]
          /\ UNCHANGED <<left, handler, extra>>
      BY <1>6, <2>6 DEF Timeout, Reply
    <3>2. TypeOK'
      BY <2>2, <3>1 DEF TypeOK, PCs
    <3>3. ClientsPlaced'
      BY <2>4, <3>1 DEF TypeOK, ClientsPlaced
    <3>4. ClientsAccounted'
      BY <2>2, <2>4, <3>1 DEF TypeOK, ClientsAccounted, Waiting
    <3>. QED  BY <3>2, <3>3, <3>4
  <2>. QED  BY <2>5, <2>6
<1>7. CASE UNCHANGED vars
  BY <1>7 DEF vars, TypeOK, ClientsPlaced, ClientsAccounted, Waiting
<1>. QED
  BY <1>1, <1>2, <1>3, <1>4, <1>5, <1>6, <1>7 DEF Next, RequestStep

(* Every variable of the pool keeps its type.                               *)
THEOREM PoolTypeCorrect == Spec => []TypeOK
<1>1. PoolInv => TypeOK
  BY DEF PoolInv
<1>. QED  BY <1>1, InitPool, PoolStep, PTL DEF Spec

(* No client is lost and none is used twice, with any number of clients, of *)
(* requests and of statements, and with every handler.                      *)
THEOREM PoolAccountsForClients == Spec => []ClientsAccounted
<1>1. PoolInv => ClientsAccounted
  BY DEF PoolInv
<1>. QED  BY <1>1, InitPool, PoolStep, PTL DEF Spec

----------------------------------------------------------------------------
(* The stall                                                                *)

(* A transaction has one client, never two.                                 *)
OneClientEach == \A r \in Requests : \A c, d \in own[r] : c = d

LEMMA OneClientStep == TypeOK /\ OneClientEach /\ [Next]_vars => OneClientEach'
<1>. SUFFICES ASSUME TypeOK, OneClientEach, [Next]_vars PROVE OneClientEach'
  OBVIOUS
<1>1. \/ UNCHANGED own
      \/ \E r \in Requests : own' = [own EXCEPT ![r] = {}]
      \/ \E c \in Clients : \E r : own' = [own EXCEPT ![r] = {c}]
  BY DEF Next, Receive, Grant, RequestStep, AskNested, StatementEnds, Finish,
         Timeout, vars
<1>2. DOMAIN own = Requests
  BY DEF TypeOK
<1>3. ASSUME NEW r \in Requests
      PROVE  own'[r] = own[r] \/ \E c : own'[r] \subseteq {c}
  BY <1>1, <1>2
<1>4. ASSUME NEW r \in Requests, NEW c \in own'[r], NEW d \in own'[r]
      PROVE  c = d
  BY <1>3 DEF OneClientEach
<1>. QED  BY <1>4 DEF OneClientEach

(* With no client free and no statement under way, every client belongs to  *)
(* a transaction that goes on.                                              *)
LEMMA StalledClients ==
  ASSUME PoolInv, FreeClients = {}, \A r \in Requests : pc[r] # "statement",
         NEW c \in Clients
  PROVE  \E r \in InTransaction : c \in own[r]
<1>1. PICK r \in Requests : c \in own[r] \cup extra[r]
  BY DEF FreeClients
<1>2. c \in own[r]
  BY <1>1 DEF PoolInv, ClientsPlaced
<1>3. pc[r] \in {"own", "nested"}
  BY <1>2 DEF PoolInv, TypeOK, PCs, ClientsAccounted
<1>4. Transactional(handler[r])
  BY <1>2 DEF PoolInv, ClientsPlaced
<1>. QED  BY <1>2, <1>3, <1>4 DEF InTransaction

(* So there are as many of them as there are clients: with fewer, two       *)
(* clients would belong to one of them.                                     *)
LEMMA StallCounted == PoolInv /\ OneClientEach => StallNeedsTransactions
<1>. SUFFICES ASSUME PoolInv, OneClientEach,
                     Cardinality(InTransaction) < Cardinality(Clients),
                     FreeClients = {},
                     \A r \in Requests : pc[r] # "statement"
              PROVE  FALSE
  BY DEF StallNeedsTransactions
<1>. DEFINE holder == [c \in Clients |-> CHOOSE r \in InTransaction : c \in own[r]]
<1>1. \A c \in Clients : holder[c] \in InTransaction /\ c \in own[holder[c]]
  BY StalledClients
<1>2. IsFiniteSet(Clients) /\ IsFiniteSet(InTransaction)
  BY ClientsAssumption, FS_Subset DEF InTransaction
<1>3. holder \in [Clients -> InTransaction]
  BY <1>1
<1>. HIDE DEF holder
<1>4. PICK c, d \in Clients : c # d /\ holder[c] = holder[d]
  BY <1>2, <1>3, FS_PigeonHole
<1>5. c \in own[holder[c]] /\ d \in own[holder[c]] /\ holder[c] \in Requests
  BY <1>1, <1>4 DEF InTransaction
<1>. QED  BY <1>4, <1>5 DEF OneClientEach

(* As long as fewer requests than the pool has clients stand in a           *)
(* transaction, no request waits for another's timeout: whatever the size   *)
(* of the pool and the number of requests, some client is free or about to  *)
(* be given back.                                                           *)
THEOREM StallTakesTransactions == Spec => []StallNeedsTransactions
<1>1. Init => OneClientEach
  BY DEF Init, OneClientEach
<1>2. PoolInv => TypeOK
  BY DEF PoolInv
<1>. QED
  BY <1>1, <1>2, InitPool, PoolStep, OneClientStep, StallCounted, PTL DEF Spec

----------------------------------------------------------------------------
(* The way to the answer                                                    *)

(* How many steps a request has to its answer, at most: for each statement  *)
(* to be run through the pool it joins the queue, is given a client and     *)
(* gives it back.                                                           *)
StepsToAnswer(r) ==
  CASE pc[r] = "connect" -> 3 * left[r] + 2
    [] pc[r] = "own" -> 3 * left[r] + 1
    [] pc[r] = "nested" -> 3 * left[r]
    [] pc[r] = "statement" -> 3 * left[r] - 1
    [] OTHER -> 0

Still(r) == UNCHANGED <<pc[r], left[r], reply[r]>>

(* A request that has come is answered, or can go on itself, or stands in   *)
(* the queue, where its time runs out. Every step of it or of the pool for  *)
(* it takes it on, and no step of another, nor an arrival, takes it back.   *)
OnTheWay(r) ==
  /\ \/ pc[r] = "done" /\ reply[r] # "none"
     \/ StepsToAnswer(r) > 0 /\ (pc[r] \in {"own", "statement"} \/ r \in Waiting)
  /\ \/ StepsToAnswer(r)' < StepsToAnswer(r)
     \/ Still(r) /\ ~ RequestStep(r) /\ ~ Timeout(r)

PoolStepsAdvance == [][\A r \in Requests : pc[r] # "idle" => OnTheWay(r)]_vars

(* An answer has been given to all that are done and to nobody else.        *)
DoneIsAnswered == \A r \in Requests : pc[r] = "done" <=> reply[r] # "none"

(* Who is done does not wait.                                               *)
LEMMA HeadWaits ==
  ASSUME PoolInv, queue # <<>>
  PROVE  Head(queue) \in Requests /\ pc[Head(queue)] \in {"connect", "nested"}
BY Leading DEF PoolInv, TypeOK, ClientsAccounted, Waiting

LEMMA LeaverWaits ==
  ASSUME PoolInv, NEW r \in Requests, Timeout(r)
  PROVE  pc[r] \in {"connect", "nested"}
<1>1. r \in Waiting
  BY DEF Timeout, LeaveQueue, Waiting, ToSet
<1>. QED  BY <1>1 DEF PoolInv, ClientsAccounted

LEMMA AnsweredStep == PoolInv /\ DoneIsAnswered /\ [Next]_vars => DoneIsAnswered'
<1>. SUFFICES ASSUME PoolInv, DoneIsAnswered, [Next]_vars PROVE DoneIsAnswered'
  OBVIOUS
<1>1. ASSUME NEW r \in Requests, NEW answer \in {"ok", "error"}, Reply(r, answer)
      PROVE  DoneIsAnswered'
  BY <1>1 DEF DoneIsAnswered, PoolInv, TypeOK, Reply
<1>2. ASSUME NEW r \in Requests, NEW step \in PCs \ {"done"}, Goto(r, step), pc[r] # "done"
      PROVE  DoneIsAnswered'
  BY <1>2 DEF DoneIsAnswered, PoolInv, TypeOK, Goto
<1>3. ASSUME NEW r \in Requests, NEW h \in Handlers, Receive(r, h)
      PROVE  DoneIsAnswered'
  BY <1>2, <1>3 DEF Receive, PCs
<1>4. ASSUME NEW c \in Clients, Grant(c)
      PROVE  DoneIsAnswered'
  BY <1>2, <1>4, HeadWaits DEF Grant, PCs
<1>5. ASSUME NEW r \in Requests, RequestStep(r)
      PROVE  DoneIsAnswered'
  BY <1>1, <1>2, <1>5 DEF RequestStep, AskNested, StatementEnds, Finish, PCs
<1>6. ASSUME NEW r \in Requests, Timeout(r)
      PROVE  DoneIsAnswered'
  BY <1>1, <1>2, <1>6, LeaverWaits DEF Timeout, PCs
<1>7. CASE UNCHANGED vars
  BY <1>7 DEF vars, DoneIsAnswered
<1>. QED  BY <1>3, <1>4, <1>5, <1>6, <1>7 DEF Next

LEMMA StepShortens ==
  ASSUME PoolInv, NEW r \in Requests, RequestStep(r) \/ Timeout(r)
  PROVE  StepsToAnswer(r)' < StepsToAnswer(r)
<1>. USE DEF PoolInv, TypeOK, ClientsPlaced, Goto, Reply
<1>1. left[r] \in Nat /\ r \in DOMAIN pc /\ r \in DOMAIN left
  OBVIOUS
<1>2. CASE AskNested(r)
  <2>1. pc[r] = "own" /\ pc'[r] = "nested" /\ left'[r] = left[r]
    BY <1>2 DEF AskNested
  <2>. QED  BY <1>1, <2>1 DEF StepsToAnswer
<1>3. CASE StatementEnds(r)
  <2>1. /\ left[r] > 0 /\ left'[r] = left[r] - 1
        /\ pc[r] = "statement" /\ pc'[r] \in {"own", "done"}
    BY <1>3 DEF StatementEnds
  <2>. QED  BY <1>1, <2>1 DEF StepsToAnswer
<1>4. CASE Finish(r)
  <2>1. pc[r] = "own" /\ pc'[r] = "done"
    BY <1>4 DEF Finish
  <2>. QED  BY <1>1, <2>1 DEF StepsToAnswer
<1>5. CASE Timeout(r)
  <2>1. pc[r] \in {"connect", "nested"} /\ (pc[r] = "nested" => left[r] > 0)
    BY <1>5, LeaverWaits
  <2>2. \/ pc[r] = "nested" /\ pc'[r] = "own" /\ left'[r] = left[r] - 1
        \/ pc'[r] = "done"
    BY <1>5 DEF Timeout
  <2>. QED  BY <1>1, <2>1, <2>2 DEF StepsToAnswer
<1>. QED  BY <1>2, <1>3, <1>4, <1>5 DEF RequestStep

LEMMA OthersStandStill ==
  ASSUME PoolInv, [Next]_vars, NEW r \in Requests, pc[r] # "idle",
         ~ RequestStep(r), ~ Timeout(r)
  PROVE  Still(r) \/ StepsToAnswer(r)' < StepsToAnswer(r)
<1>. USE DEF PoolInv, TypeOK, Goto, Reply
<1>1. ASSUME NEW s \in Requests, NEW h \in Handlers, Receive(s, h)
      PROVE  Still(r)
  BY <1>1 DEF Receive, Still
<1>2. ASSUME NEW s \in Requests, RequestStep(s)
      PROVE  Still(r)
  BY <1>2 DEF RequestStep, AskNested, StatementEnds, Finish, Still
<1>3. ASSUME NEW s \in Requests, Timeout(s)
      PROVE  Still(r)
  BY <1>3 DEF Timeout, Still
<1>4. ASSUME NEW c \in Clients, Grant(c)
      PROVE  Still(r) \/ StepsToAnswer(r)' < StepsToAnswer(r)
  <2>. DEFINE s == Head(queue)
  <2>1. s \in Requests /\ pc[s] \in {"connect", "nested"} /\ UNCHANGED <<left, reply>>
        /\ pc' = [pc EXCEPT ![s] = IF pc[s] = "connect" THEN "own" ELSE "statement"]
    BY <1>4, HeadWaits DEF Grant
  <2>. HIDE DEF s
  <2>2. CASE s # r
    BY <2>1, <2>2 DEF Still
  <2>3. CASE s = r
    BY <2>1, <2>3 DEF StepsToAnswer
  <2>. QED  BY <2>2, <2>3
<1>5. CASE UNCHANGED vars
  BY <1>5 DEF vars, Still
<1>. QED  BY <1>1, <1>2, <1>3, <1>4, <1>5 DEF Next

LEMMA WayKept ==
  ASSUME PoolInv, DoneIsAnswered, [Next]_vars, NEW r \in Requests, pc[r] # "idle"
  PROVE  OnTheWay(r)
<1>1. CASE pc[r] = "done"
  BY <1>1, StepShortens, OthersStandStill DEF OnTheWay, DoneIsAnswered
<1>2. CASE pc[r] \in {"own", "statement", "connect", "nested"}
  <2>1. left[r] \in Nat /\ (pc[r] \in {"nested", "statement"} => left[r] > 0)
    BY DEF PoolInv, TypeOK, ClientsPlaced
  <2>2. StepsToAnswer(r) > 0
    BY <1>2, <2>1 DEF StepsToAnswer
  <2>3. pc[r] \in {"own", "statement"} \/ r \in Waiting
    BY <1>2 DEF PoolInv, ClientsAccounted
  <2>. QED  BY <2>2, <2>3, StepShortens, OthersStandStill DEF OnTheWay
<1>. QED  BY <1>1, <1>2 DEF PoolInv, TypeOK, PCs

(* However large the pool, however many requests stand in a transaction and *)
(* whoever is granted a client: a request is answered after three steps at  *)
(* most for each of its statements, and two, of its own, of the pool for it *)
(* or of its timeout; it never waits where none of them can come            *)
(* (config/database.js:26-31, contract-recurring.service.js:53).            *)
THEOREM RequestsStayOnTheWay == Spec => PoolStepsAdvance
<1>1. Init => DoneIsAnswered
  BY DEF Init, DoneIsAnswered
<1>2. PoolInv /\ DoneIsAnswered /\ [Next]_vars =>
        [\A r \in Requests : pc[r] # "idle" => OnTheWay(r)]_vars
  BY WayKept
<1>. QED
  BY <1>1, <1>2, InitPool, PoolStep, AnsweredStep, PTL DEF Spec, PoolStepsAdvance
=============================================================================
