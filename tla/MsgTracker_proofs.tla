-------------------------- MODULE MsgTracker_proofs --------------------------
(***************************************************************************)
(* CMsgTracker keeps its array in time order and within its capacity, for  *)
(* every capacity and age limit; hence DropExpired, which stops at the     *)
(* first entry that is not expired, misses none.                           *)
(***************************************************************************)
EXTENDS MsgTracker, TLAPS

\* The inductive invariant: type, capacity and time order of the array.
TrackerInv == TypeOK /\ TimeOrdered

\* Closing the gap at position i (memmove) yields an array one entry shorter
\* whose entries are those of the old one, in order.
LEMMA WithoutFacts ==
  ASSUME NEW l \in Seq(Msg), NEW i \in 1..Len(l)
  PROVE  /\ Without(l, i) \in Seq(Msg)
         /\ Len(Without(l, i)) = Len(l) - 1
         /\ \A j \in 1..(Len(l) - 1) :
               Without(l, i)[j] = IF j < i THEN l[j] ELSE l[j + 1]
  BY DEF Without

\* Every position that a search can find is a position of the array.
LEMMA SearchInDomain ==
  ASSUME NEW l \in Seq(Msg), NEW h, NEW s, NEW t
  PROVE  /\ First(OfHandle(l, h)) \subseteq 1..Len(l)
         /\ First(OfTxn(l, s, t)) \subseteq 1..Len(l)
  BY DEF First, OfHandle, OfTxn

\* The renewed array has the type and length of the old one.
LEMMA RenewedType ==
  ASSUME NEW l \in Seq(Msg), Len(l) <= Capacity, NEW i \in 1..Len(l),
         NEW h \in Handle, NEW tm \in 0..MaxTime
  PROVE  Renewed(l, i, h, tm) \in Seq(Msg) /\ Len(Renewed(l, i, h, tm)) = Len(l)
<1> DEFINE m == [l[i] EXCEPT !.handle = h, !.time = tm]
<1>0. l[i] \in Msg
  OBVIOUS
<1>1. l[i] \in Msg /\ m \in Msg
  BY <1>0 DEF Msg
<1>2. CASE Full(l)
  BY <1>1, <1>2 DEF Renewed, Msg
<1>3. CASE ~Full(l)
  <2>1. Without(l, i) \in Seq(Msg) /\ Len(Without(l, i)) = Len(l) - 1
    BY WithoutFacts
  <2>2. Renewed(l, i, h, tm) = Append(Without(l, i), m)
    BY <1>3 DEF Renewed
  <2> HIDE DEF m
  <2>3. QED
    BY <1>1, <2>1, <2>2
<1>4. QED
  BY <1>2, <1>3

\* An array whose entries are picked from a tracker array, in order, is itself
\* a tracker array: the shape of every removal.
LEMMA SubsequenceInv ==
  ASSUME TrackerInv, NEW n \in 0..Len(msgs), NEW g \in [1..n -> 1..Len(msgs)],
         \A a, b \in 1..n : a < b => g[a] < g[b],
         msgs' = [a \in 1..n |-> msgs[g[a]]], now' = now
  PROVE  TrackerInv'
<1>1. msgs \in Seq(Msg) /\ Len(msgs) <= Capacity /\ now \in 0..MaxTime
  BY DEF TrackerInv, TypeOK
<1>2. \A a \in 1..n : msgs[g[a]] \in Msg
  BY <1>1
<1>3. msgs' \in Seq(Msg) /\ Len(msgs') = n /\ DOMAIN msgs' = 1..n
  BY <1>2
<1>4. TypeOK'
  BY <1>1, <1>3, CapacityAssumption DEF TypeOK
<1>5. ASSUME NEW a \in 1..n, NEW b \in 1..n, a <= b
      PROVE  msgs'[a].time <= msgs'[b].time
  <2>1. g[a] \in 1..Len(msgs) /\ g[b] \in 1..Len(msgs) /\ g[a] <= g[b]
    BY <1>5
  <2>2. msgs[g[a]].time <= msgs[g[b]].time
    BY <1>1, <2>1 DEF TrackerInv, TimeOrdered
  <2>3. QED
    BY <1>5, <2>2
<1>6. ASSUME NEW a \in 1..n PROVE msgs'[a].time <= now'
  BY <1>1, <1>6 DEF TrackerInv, TimeOrdered
<1>7. TimeOrdered'
  BY <1>3, <1>5, <1>6 DEF TimeOrdered
<1>8. QED
  BY <1>4, <1>7 DEF TrackerInv

LEMMA InitInv == Init => TrackerInv
  BY CapacityAssumption, AgeAssumption DEF Init, TrackerInv, TypeOK, TimeOrdered

\* Every operation of the tracker keeps the type, the capacity and the order.
LEMMA NextInv == TrackerInv /\ [Next]_vars => TrackerInv'
<1> SUFFICES ASSUME TrackerInv, [Next]_vars PROVE TrackerInv'
  OBVIOUS
<1> USE CapacityAssumption, AgeAssumption
<1>0. /\ msgs \in Seq(Msg) /\ Len(msgs) <= Capacity /\ now \in 0..MaxTime
      /\ \A i \in 1..Len(msgs) : msgs[i] \in Msg /\ msgs[i].time \in 0..MaxTime
      /\ \A i, j \in 1..Len(msgs) : i <= j => msgs[i].time <= msgs[j].time
      /\ \A i \in 1..Len(msgs) : msgs[i].time <= now
  <2>1. msgs \in Seq(Msg) /\ Len(msgs) <= Capacity /\ now \in 0..MaxTime
    BY DEF TrackerInv, TypeOK
  <2>2. \A i \in 1..Len(msgs) : msgs[i] \in Msg
    BY <2>1
  <2>3. \A i \in 1..Len(msgs) : msgs[i].time \in 0..MaxTime
    BY <2>2 DEF Msg
  <2>4. DOMAIN msgs = 1..Len(msgs)
    BY <2>1
  <2>5. QED
    BY <2>1, <2>2, <2>3, <2>4 DEF TrackerInv, TimeOrdered
<1>a. ASSUME NEW i \in 1..Len(msgs), msgs' = Without(msgs, i), UNCHANGED now
      PROVE  TrackerInv'
  <2> DEFINE n == Len(msgs) - 1
             g == [a \in 1..n |-> IF a < i THEN a ELSE a + 1]
  <2>1. n \in 0..Len(msgs) /\ g \in [1..n -> 1..Len(msgs)]
    BY <1>0
  <2>2. \A a, b \in 1..n : a < b => g[a] < g[b]
    BY <1>0
  <2>3. msgs' = [a \in 1..n |-> msgs[g[a]]]
    BY <1>0, <1>a DEF Without
  <2> HIDE DEF g, n
  <2>4. QED
    BY <1>a, <2>1, <2>2, <2>3, SubsequenceInv
<1>1. ASSUME NEW h \in Handle, NEW s \in Session, NEW t \in Txn, AddMessage(h, s, t)
      PROVE  TrackerInv'
  <2> DEFINE m == [handle |-> h, sess |-> s, txn |-> t, time |-> now]
  <2>1. CASE Full(msgs)
    BY <1>0, <1>1, <2>1 DEF AddMessage, Added, TrackerInv, TypeOK, TimeOrdered
  <2>2. CASE ~Full(msgs)
    <3>1. m \in Msg /\ m.time = now
      BY <1>0 DEF Msg
    <3>2. msgs' = Append(msgs, m) /\ now' = now /\ Len(msgs) < Capacity
      BY <1>0, <1>1, <2>2 DEF AddMessage, Added, Full
    <3> HIDE DEF m
    <3>3. QED
      BY <1>0, <3>1, <3>2 DEF TrackerInv, TypeOK, TimeOrdered
  <2>3. QED
    BY <2>1, <2>2
<1>2. ASSUME NEW h \in Handle, RemoveHandle(h)
      PROVE  TrackerInv'
  BY <1>0, <1>2, <1>a, SearchInDomain DEF RemoveHandle
<1>3. ASSUME NEW s \in Session, NEW t \in Txn, RemoveTxn(s, t)
      PROVE  TrackerInv'
  BY <1>0, <1>3, <1>a, SearchInDomain DEF RemoveTxn
<1>4. ASSUME NEW h \in Handle, NEW h2 \in Handle, RenewMessage(h, h2)
      PROVE  TrackerInv'
  <2>1. PICK i \in 1..Len(msgs) : msgs' = Renewed(msgs, i, h2, now) /\ now' = now
    BY <1>0, <1>4, SearchInDomain DEF RenewMessage
  <2>2. TypeOK'
    BY <1>0, <2>1, RenewedType DEF TypeOK
  <2>3. CASE Full(msgs)
    <3>1. /\ Len(msgs') = Len(msgs)
          /\ \A j \in 1..Len(msgs) : msgs'[j].time = msgs[j].time
      BY <1>0, <2>1, <2>3 DEF Renewed, Msg
    <3>2. QED
      BY <1>0, <2>1, <2>2, <3>1, SMTT(30) DEF TrackerInv, TimeOrdered
  <2>4. CASE ~Full(msgs)
    <3> DEFINE w == Without(msgs, i)
               m == [msgs[i] EXCEPT !.handle = h2, !.time = now]
    <3>1. /\ w \in Seq(Msg) /\ Len(w) = Len(msgs) - 1
          /\ \A j \in 1..(Len(msgs) - 1) :
                w[j] = IF j < i THEN msgs[j] ELSE msgs[j + 1]
      BY <1>0, WithoutFacts
    <3>2. m \in Msg /\ m.time = now
      BY <1>0 DEF Msg
    <3>3. msgs' = Append(w, m)
      BY <2>1, <2>4 DEF Renewed
    <3> HIDE DEF w, m
    <3>4. /\ Len(msgs') = Len(msgs)
          /\ msgs'[Len(msgs)] = m
          /\ \A j \in 1..(Len(msgs) - 1) : msgs'[j] = w[j]
      <4>1. Len(w) \in Nat /\ Len(msgs) \in Nat /\ Len(w) + 1 = Len(msgs)
        BY <1>0, <3>1
      <4>2. QED
        BY <3>1, <3>2, <3>3, <4>1
    <3>5. DOMAIN msgs' = 1..Len(msgs)
      BY <1>0, <3>1, <3>2, <3>3, <3>4
    <3>a. Len(msgs) \in Nat /\ now \in Nat
      BY <1>0
    <3>6. ASSUME NEW j \in 1..(Len(msgs) - 1), NEW k \in 1..(Len(msgs) - 1), j <= k
          PROVE  /\ w[j].time <= w[k].time /\ w[k].time <= now
                 /\ w[j].time \in Nat /\ w[k].time \in Nat
      <4> DEFINE u(x) == IF x < i THEN x ELSE x + 1
      <4>1. u(j) \in 1..Len(msgs) /\ u(k) \in 1..Len(msgs) /\ u(j) <= u(k)
        BY <3>6, <3>a
      <4>2. w[j] = msgs[u(j)] /\ w[k] = msgs[u(k)]
        BY <3>1
      <4> HIDE DEF u
      <4>3. QED
        BY <1>0, <4>1, <4>2, SMTT(30)
    <3>7. ASSUME NEW j \in 1..Len(msgs) PROVE msgs'[j].time <= now
      <4>1. CASE j = Len(msgs)
        BY <3>a, <3>2, <3>4, <4>1
      <4>2. CASE j # Len(msgs)
        <5>1. j \in 1..(Len(msgs) - 1)
          BY <3>a, <4>2
        <5>2. QED
          BY <3>4, <3>6, <5>1
      <4>3. QED
        BY <4>1, <4>2
    <3>8. ASSUME NEW j \in 1..Len(msgs), NEW k \in 1..Len(msgs), j <= k
          PROVE  msgs'[j].time <= msgs'[k].time
      <4>1. CASE k = Len(msgs)
        BY <3>2, <3>4, <3>7, <4>1
      <4>2. CASE k # Len(msgs)
        <5>1. j \in 1..(Len(msgs) - 1) /\ k \in 1..(Len(msgs) - 1)
          BY <3>8, <3>a, <4>2
        <5>2. w[j].time <= w[k].time
          BY <3>6, <3>8, <5>1
        <5>3. QED
          BY <3>4, <5>1, <5>2
      <4>3. QED
        BY <4>1, <4>2
    <3>9. QED
      BY <2>1, <2>2, <3>5, <3>7, <3>8 DEF TrackerInv, TimeOrdered
  <2>5. QED
    BY <2>3, <2>4
<1>5. ASSUME DropExpired
      PROVE  TrackerInv'
  <2>1. PICK i \in 0..Len(msgs) : msgs' = SubSeq(msgs, i + 1, Len(msgs)) /\ now' = now
    BY <1>5 DEF DropExpired, DropCount
  <2> DEFINE n == Len(msgs) - i
             g == [a \in 1..n |-> i + a]
  <2>2. n \in 0..Len(msgs) /\ g \in [1..n -> 1..Len(msgs)]
    BY <1>0
  <2>3. \A a, b \in 1..n : a < b => g[a] < g[b]
    BY <1>0
  <2>4. msgs' = [a \in 1..n |-> msgs[g[a]]]
    BY <1>0, <2>1
  <2> HIDE DEF g, n
  <2>5. QED
    BY <2>1, <2>2, <2>3, <2>4, SubsequenceInv
<1>6. ASSUME NEW s \in Session, ProcessSessionDelete(s)
      PROVE  TrackerInv'
  <2> DEFINE K == {i \in DOMAIN msgs : msgs[i].sess # s}
  <2>1. PICK f \in KeptOrder(msgs, K) :
           msgs' = [a \in DOMAIN f |-> msgs[f[a]]] /\ now' = now
    BY <1>6 DEF ProcessSessionDelete
  <2>2. PICK n \in 0..Len(msgs) :
           f \in [1..n -> K] /\ \A a, b \in 1..n : a < b => f[a] < f[b]
    BY <2>1 DEF KeptOrder
  <2>3. f \in [1..n -> 1..Len(msgs)]
    BY <1>0, <2>2
  <2>4. msgs' = [a \in 1..n |-> msgs[f[a]]]
    BY <2>1, <2>2
  <2>5. QED
    BY <2>1, <2>2, <2>3, <2>4, SubsequenceInv
<1>7. ASSUME Tick
      PROVE  TrackerInv'
  BY <1>0, <1>7, SMTT(30) DEF Tick, TrackerInv, TypeOK, TimeOrdered
<1>8. ASSUME UNCHANGED vars
      PROVE  TrackerInv'
  BY <1>8 DEF vars, TrackerInv, TypeOK, TimeOrdered
<1>9. QED
  BY <1>1, <1>2, <1>3, <1>4, <1>5, <1>6, <1>7, <1>8 DEF Next

\* For every capacity, age limit and clock, the tracker keeps the type and
\* capacity of its array ...
THEOREM TrackerTypeCorrect == Spec => []TypeOK
<1>1. TrackerInv => TypeOK
  BY DEF TrackerInv
<1>2. QED
  BY <1>1, InitInv, NextInv, PTL DEF Spec

\* ... and its time order, which DropExpired and MsgTracker.h:81 rely on.
THEOREM TrackerTimeOrdered == Spec => []TimeOrdered
<1>1. TrackerInv => TimeOrdered
  BY DEF TrackerInv
<1>2. QED
  BY <1>1, InitInv, NextInv, PTL DEF Spec

\* DropExpired, which stops at the first entry that is not expired, leaves no
\* expired entry behind and drops no entry that is not expired.
THEOREM TrackerDropsExactlyExpired == Spec => DropsExactlyExpired
<1> DEFINE Exact == DropExpired =>
                      /\ \A i \in DOMAIN msgs' : ~Expired(msgs'[i], now)
                      /\ \A i \in DOMAIN msgs : ~Expired(msgs[i], now) =>
                            \E j \in DOMAIN msgs' : msgs'[j] = msgs[i]
<1>1. TrackerInv => Exact
  <2> SUFFICES ASSUME TrackerInv, DropExpired
               PROVE  /\ \A i \in DOMAIN msgs' : ~Expired(msgs'[i], now)
                      /\ \A i \in DOMAIN msgs : ~Expired(msgs[i], now) =>
                            \E j \in DOMAIN msgs' : msgs'[j] = msgs[i]
    OBVIOUS
  <2>0. /\ msgs \in Seq(Msg) /\ now \in Int /\ MaxAge \in Int
        /\ \A i \in 1..Len(msgs) : msgs[i].time \in Int
        /\ \A i, j \in 1..Len(msgs) : i <= j => msgs[i].time <= msgs[j].time
    <3>1. msgs \in Seq(Msg) /\ now \in 0..MaxTime
      BY DEF TrackerInv, TypeOK
    <3>2. \A i \in 1..Len(msgs) : msgs[i] \in Msg
      BY <3>1
    <3>3. \A i \in 1..Len(msgs) : msgs[i].time \in 0..MaxTime
      BY <3>2 DEF Msg
    <3>4. DOMAIN msgs = 1..Len(msgs)
      BY <3>1
    <3>5. QED
      BY <3>1, <3>3, <3>4, AgeAssumption, SMTT(30) DEF TrackerInv, TimeOrdered
  <2>1. PICK n \in 0..Len(msgs) :
           /\ \A j \in 1..n : Expired(msgs[j], now)
           /\ n < Len(msgs) => ~Expired(msgs[n + 1], now)
           /\ msgs' = SubSeq(msgs, n + 1, Len(msgs))
    BY DEF DropExpired, DropCount
  <2>2. /\ DOMAIN msgs' = 1..(Len(msgs) - n)
        /\ \A j \in 1..(Len(msgs) - n) : msgs'[j] = msgs[n + j]
    BY <2>0, <2>1
  <2>3. \A i \in 1..Len(msgs) : i > n => ~Expired(msgs[i], now)
    BY <2>0, <2>1 DEF Expired
  <2>4. \A i \in DOMAIN msgs' : ~Expired(msgs'[i], now)
    BY <2>0, <2>2, <2>3, SMTT(30)
  <2>5. ASSUME NEW i \in DOMAIN msgs, ~Expired(msgs[i], now)
        PROVE  \E j \in DOMAIN msgs' : msgs'[j] = msgs[i]
    <3>1. i \in 1..Len(msgs) /\ i > n
      BY <2>0, <2>1, <2>5
    <3>2. i - n \in DOMAIN msgs' /\ msgs'[i - n] = msgs[i]
      BY <2>0, <2>2, <3>1
    <3>3. QED
      BY <3>2
  <2>6. QED
    BY <2>4, <2>5
<1>2. TrackerInv => [Exact]_vars
  BY <1>1
<1>3. QED
  BY <1>2, InitInv, NextInv, PTL DEF Spec, DropsExactlyExpired
=============================================================================
