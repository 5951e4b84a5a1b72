------------------------- MODULE ClientServer_proofs -------------------------
(***************************************************************************)
(* The client/server service with its tracker, its cache and the stack     *)
(* below, for every number of sessions, transactions, contracts, handles   *)
(* and tracker entries: no confirm that the tracker could send is lost,    *)
(* every end of a request clears m_mapPendingReq, and, as long as          *)
(* contracts are deleted only after their leases, a host is answered from  *)
(* the cache with data of its own contract.                                *)
(***************************************************************************)
EXTENDS ClientServer, TLAPS

-----------------------------------------------------------------------------
(* The inductive invariants.                                               *)

\* Types, with what they need: a contract id that is out of the table may be
\* given out once more, and a request in the stack knows its contract.
TypeInv ==
    /\ TypeOK
    /\ \A c \in Contract : c \notin live => gen[c] < MaxGen
    /\ \A h \in 1..app : on[h] # << >>

\* The tracker has one entry for a handle, and the entry of a host is the one
\* that its transaction waits for; so a removal by session and transaction
\* finds the entry that was looked up by handle.
OneEntry ==
    \A i, j \in DOMAIN msgs : msgs[i].handle = msgs[j].handle => i = j

EntryOfHost ==
    \A i \in DOMAIN msgs :
        /\ msgs[i].handle <= app
        /\ msgs[i].sess # 0 =>
              /\ msgs[i].sess \in valid
              /\ msgs[i].txn \in Txn
              /\ wait[msgs[i].sess][msgs[i].txn] = msgs[i].handle

\* The stack resolves a request before its entry expires.
InTime ==
    \A i \in DOMAIN msgs :
        asl[msgs[i].handle] = "pending" => now - msgs[i].time <= StackLife

IsEntryOf(i, s, t) ==
    msgs[i].handle = wait[s][t] /\ msgs[i].sess = s /\ msgs[i].txn = t

\* A transaction that waits has its entry.
HostHasEntry ==
    \A s \in Session, t \in Txn :
        wait[s][t] # 0 =>
            /\ wait[s][t] <= app
            /\ wait[s][t] \notin refused =>
                 /\ asl[wait[s][t]] \in {"pending", "discarded"}
                 /\ asl[wait[s][t]] = "pending" =>
                      \E i \in DOMAIN msgs : IsEntryOf(i, s, t)

ConfirmInv == TypeInv /\ OneEntry /\ EntryOfHost /\ InTime /\ HostHasEntry

\* A contract whose data the service may hold: the one to the System Manager,
\* which the gateway itself uses, or one with a lease.
InUse(c) == c = SMContract \/ (c # NoContract /\ \E s \in Session : lease[s] = c)

\* What is cached is of the present incarnation of a contract in use, and what
\* is pending goes out on the contract of its key.
CacheInv ==
    /\ SMContract \in live
    /\ \A k \in Key : cache[k] # NotCached =>
          k[1] \in live /\ InUse(k[1]) /\ cache[k].gen = gen[k[1]]
    /\ \A h \in Handle : pending[h] # NoKey =>
          InUse(pending[h][1]) /\ on[h] # << >> /\ on[h][1] = pending[h][1]

-----------------------------------------------------------------------------
(* The operations of the tracker.                                          *)

\* The array after a removal that keeps the entries at the positions K.
Kept(K) ==
    /\ msgs' \in Seq(Tracker!Msg)
    /\ Len(msgs') <= Capacity
    /\ \A a \in DOMAIN msgs' : \E i \in K : msgs'[a] = msgs[i]
    /\ \A i \in K : \E a \in DOMAIN msgs' : msgs'[a] = msgs[i]
    /\ \A a, b \in DOMAIN msgs' : msgs'[a].handle = msgs'[b].handle => a = b

\* Entries picked in order from an array with one entry for a handle make such
\* an array again: the shape of every removal.
LEMMA KeptSubsequence ==
  ASSUME msgs \in Seq(Tracker!Msg), Len(msgs) <= Capacity, OneEntry,
         NEW K \in SUBSET (1..Len(msgs)), NEW n \in 0..Len(msgs),
         NEW g \in [1..n -> K],
         \A a, b \in 1..n : a < b => g[a] < g[b],
         \A i \in K : \E a \in 1..n : g[a] = i,
         msgs' = [a \in 1..n |-> msgs[g[a]]]
  PROVE  Kept(K)
<1>1. \A a \in 1..n : g[a] \in 1..Len(msgs) /\ g[a] \in K
  OBVIOUS
<1>2. \A i \in 1..Len(msgs) : msgs[i] \in Tracker!Msg
  OBVIOUS
<1>3. /\ msgs' \in Seq(Tracker!Msg) /\ Len(msgs') = n /\ DOMAIN msgs' = 1..n
      /\ \A a \in 1..n : msgs'[a] = msgs[g[a]]
  BY <1>1, <1>2
<1>4. ASSUME NEW a \in 1..n, NEW b \in 1..n, msgs'[a].handle = msgs'[b].handle
      PROVE  a = b
  <2>1. g[a] = g[b]
    BY <1>1, <1>3, <1>4 DEF OneEntry
  <2>2. g[a] \in Int /\ ~(a < b) /\ ~(b < a)
    BY <1>1, <2>1
  <2>3. QED
    BY <2>2
<1>5. n <= Capacity
  BY ParametersOK
<1>6. QED
  BY <1>1, <1>3, <1>4, <1>5 DEF Kept

\* Nothing is removed.
LEMMA KeptAll ==
  ASSUME msgs \in Seq(Tracker!Msg), Len(msgs) <= Capacity, OneEntry, msgs' = msgs
  PROVE  Kept(DOMAIN msgs)
  BY DEF Kept, OneEntry

\* Closing the gap at position i keeps all the other entries.
LEMMA KeptWithout ==
  ASSUME msgs \in Seq(Tracker!Msg), Len(msgs) <= Capacity, OneEntry,
         NEW i \in DOMAIN msgs, msgs' = Tracker!Without(msgs, i)
  PROVE  Kept(DOMAIN msgs \ {i})
<1> DEFINE n == Len(msgs) - 1
           g == [a \in 1..n |-> IF a < i THEN a ELSE a + 1]
           K == DOMAIN msgs \ {i}
<1>0. Len(msgs) \in Nat /\ i \in 1..Len(msgs) /\ DOMAIN msgs = 1..Len(msgs)
  OBVIOUS
<1>1. K \in SUBSET (1..Len(msgs)) /\ n \in 0..Len(msgs) /\ g \in [1..n -> K]
  BY <1>0
<1>2. \A a, b \in 1..n : a < b => g[a] < g[b]
  BY <1>0
<1>3. ASSUME NEW j \in K PROVE \E a \in 1..n : g[a] = j
  <2>1. CASE j < i
    BY <1>0, <2>1
  <2>2. CASE ~(j < i)
    <3>1. j - 1 \in 1..n /\ g[j - 1] = j
      BY <1>0, <2>2
    <3>2. QED
      BY <3>1
  <2>3. QED
    BY <2>1, <2>2
<1>4. msgs' = [a \in 1..n |-> msgs[g[a]]]
  BY <1>0 DEF Tracker!Without
<1> HIDE DEF g, n, K
<1>5. Kept(K)
  BY <1>1, <1>2, <1>3, <1>4, KeptSubsequence
<1>6. QED
  BY <1>5 DEF K

\* DropExpired keeps every entry that is not expired.
LEMMA KeptUnexpired ==
  ASSUME msgs \in Seq(Tracker!Msg), Len(msgs) <= Capacity, OneEntry,
         Tracker!DropExpired
  PROVE  \E K \in SUBSET DOMAIN msgs :
            /\ Kept(K)
            /\ \A j \in DOMAIN msgs \ K : Tracker!Expired(msgs[j], now)
<1>1. PICK d \in 0..Len(msgs) :
         /\ \A j \in 1..d : Tracker!Expired(msgs[j], now)
         /\ msgs' = SubSeq(msgs, d + 1, Len(msgs))
  BY DEF Tracker!DropExpired, Tracker!DropCount
<1> DEFINE n == Len(msgs) - d
           g == [a \in 1..n |-> d + a]
           K == {j \in DOMAIN msgs : j > d}
<1>0. Len(msgs) \in Nat /\ d \in Nat /\ d <= Len(msgs) /\ DOMAIN msgs = 1..Len(msgs)
  OBVIOUS
<1>2. K \in SUBSET (1..Len(msgs)) /\ n \in 0..Len(msgs) /\ g \in [1..n -> K]
  BY <1>0
<1>3. \A a, b \in 1..n : a < b => g[a] < g[b]
  BY <1>0
<1>4. ASSUME NEW j \in K PROVE \E a \in 1..n : g[a] = j
  <2>1. j - d \in 1..n /\ g[j - d] = j
    BY <1>0
  <2>2. QED
    BY <2>1
<1>5. msgs' = [a \in 1..n |-> msgs[g[a]]]
  BY <1>0, <1>1
<1>6. \A j \in DOMAIN msgs \ K : j \in 1..d
  BY <1>0
<1> HIDE DEF g, n, K
<1>7. Kept(K)
  BY <1>2, <1>3, <1>4, <1>5, KeptSubsequence
<1>8. K \in SUBSET DOMAIN msgs
  BY <1>0, <1>2
<1>9. QED
  BY <1>1, <1>6, <1>7, <1>8

\* ProcessSessionDelete keeps the entries of the other sessions.
LEMMA KeptOthers ==
  ASSUME msgs \in Seq(Tracker!Msg), Len(msgs) <= Capacity, OneEntry,
         NEW s, Tracker!ProcessSessionDelete(s)
  PROVE  Kept({i \in DOMAIN msgs : msgs[i].sess # s})
<1> DEFINE K == {i \in DOMAIN msgs : msgs[i].sess # s}
<1> HIDE DEF K
<1>1. PICK f : f \in Tracker!KeptOrder(msgs, K) /\ msgs' = [a \in DOMAIN f |-> msgs[f[a]]]
  BY DEF Tracker!ProcessSessionDelete, K
<1>2. PICK n : n \in 0..Len(msgs) /\ f \in [1..n -> K]
                 /\ (\A a, b \in 1..n : a < b => f[a] < f[b])
                 /\ (\A i \in K : \E a \in 1..n : f[a] = i)
  BY <1>1 DEF Tracker!KeptOrder
<1>3. DOMAIN f = 1..n
  BY <1>2
<1>4. msgs' = [a \in 1..n |-> msgs[f[a]]]
  BY <1>1, <1>3, Zenon
<1>5. K \in SUBSET (1..Len(msgs))
  BY DEF K
<1>6. Kept(K)
  BY <1>2, <1>4, <1>5, KeptSubsequence
<1>7. QED
  BY <1>6 DEF K

-----------------------------------------------------------------------------
(* No confirm is lost.                                                     *)

\* What the types say of the entries and of the waiting transactions.
LEMMA EntryTypes ==
  ASSUME TypeOK
  PROVE  /\ msgs \in Seq(Tracker!Msg) /\ Len(msgs) <= Capacity
         /\ now \in 0..MaxTime /\ app \in 0..MaxHandle
         /\ \A i \in DOMAIN msgs :
               /\ msgs[i].handle \in Handle
               /\ msgs[i].sess \in Session \cup {0}
               /\ msgs[i].txn \in Txn \cup {0}
               /\ msgs[i].time \in 0..MaxTime
         /\ \A s \in Session, t \in Txn : wait[s][t] \in Handle \cup {0}
         /\ valid \subseteq Session
<1>1. msgs \in Seq(Tracker!Msg) /\ Len(msgs) <= Capacity /\ now \in 0..MaxTime
  BY DEF TypeOK, Tracker!TypeOK
<1>2. \A i \in DOMAIN msgs : msgs[i] \in Tracker!Msg
  BY <1>1
<1>3. \A i \in DOMAIN msgs :
               /\ msgs[i].handle \in Handle
               /\ msgs[i].sess \in Session \cup {0}
               /\ msgs[i].txn \in Txn \cup {0}
               /\ msgs[i].time \in 0..MaxTime
  BY <1>2 DEF Tracker!Msg
<1>4. app \in 0..MaxHandle /\ valid \subseteq Session
  BY DEF TypeOK
<1>5. \A s \in Session, t \in Txn : wait[s][t] \in Handle \cup {0}
  BY DEF TypeOK
<1>6. QED
  BY <1>1, <1>3, <1>4, <1>5

\* Entries may go, and requests end, as long as no entry that is kept loses its
\* transaction and no transaction that still waits loses its entry.
LEMMA RemovalInv ==
  ASSUME ConfirmInv, NEW K \in SUBSET DOMAIN msgs, Kept(K),
         now' = now, app' = app, refused' = refused,
         \A h \in Handle : asl'[h] = "pending" => asl[h] = "pending",
         \A i \in K : msgs[i].sess # 0 =>
            /\ msgs[i].sess \in valid'
            /\ wait'[msgs[i].sess][msgs[i].txn] = wait[msgs[i].sess][msgs[i].txn],
         \A s \in Session, t \in Txn : wait'[s][t] # 0 =>
            /\ wait'[s][t] = wait[s][t]
            /\ wait[s][t] \notin refused =>
                  asl'[wait[s][t]] \in {"pending", "discarded"}
            /\ \A i \in DOMAIN msgs \ K :
                  IsEntryOf(i, s, t) => asl'[wait[s][t]] # "pending"
  PROVE  OneEntry' /\ EntryOfHost' /\ InTime' /\ HostHasEntry'
<1>0. /\ \A i \in DOMAIN msgs : msgs[i].handle \in Handle
      /\ \A s \in Session, t \in Txn : wait[s][t] \in Handle \cup {0}
  BY EntryTypes DEF ConfirmInv, TypeInv
<1>1. OneEntry'
  BY DEF Kept, OneEntry
<1>2. ASSUME NEW a \in DOMAIN msgs'
      PROVE  /\ msgs'[a].handle <= app'
             /\ msgs'[a].sess # 0 =>
                   /\ msgs'[a].sess \in valid'
                   /\ msgs'[a].txn \in Txn
                   /\ wait'[msgs'[a].sess][msgs'[a].txn] = msgs'[a].handle
             /\ asl'[msgs'[a].handle] = "pending" => now' - msgs'[a].time <= StackLife
  <2>1. PICK i \in K : msgs'[a] = msgs[i]
    BY DEF Kept
  <2>2. i \in DOMAIN msgs
    OBVIOUS
  <2>3. /\ msgs[i].handle <= app
        /\ msgs[i].sess # 0 => /\ msgs[i].txn \in Txn
                               /\ wait[msgs[i].sess][msgs[i].txn] = msgs[i].handle
    BY <2>2 DEF ConfirmInv, EntryOfHost
  <2>4. asl[msgs[i].handle] = "pending" => now - msgs[i].time <= StackLife
    BY <2>2 DEF ConfirmInv, InTime
  <2>5. msgs[i].handle \in Handle
    BY <1>0, <2>2
  <2>6. QED
    BY <2>1, <2>3, <2>4, <2>5
<1>3. EntryOfHost' /\ InTime'
  BY <1>2 DEF EntryOfHost, InTime
<1>4. ASSUME NEW s \in Session, NEW t \in Txn, wait'[s][t] # 0
      PROVE  /\ wait'[s][t] <= app'
             /\ wait'[s][t] \notin refused' =>
                  /\ asl'[wait'[s][t]] \in {"pending", "discarded"}
                  /\ asl'[wait'[s][t]] = "pending" =>
                       \E a \in DOMAIN msgs' : IsEntryOf(a, s, t)'
  <2>1. wait'[s][t] = wait[s][t] /\ wait[s][t] \in Handle
    BY <1>0, <1>4
  <2>2. wait[s][t] <= app
    BY <1>4, <2>1 DEF ConfirmInv, HostHasEntry
  <2>3. ASSUME wait[s][t] \notin refused, asl'[wait[s][t]] = "pending"
        PROVE  \E a \in DOMAIN msgs' : IsEntryOf(a, s, t)'
    <3>1. asl[wait[s][t]] = "pending"
      BY <2>1, <2>3
    <3>2. PICK i \in DOMAIN msgs : IsEntryOf(i, s, t)
      BY <1>4, <2>1, <2>3, <3>1 DEF ConfirmInv, HostHasEntry
    <3>3. i \in K
      BY <1>4, <2>3, <3>2
    <3>4. PICK a \in DOMAIN msgs' : msgs'[a] = msgs[i]
      BY <3>3 DEF Kept
    <3>5. IsEntryOf(a, s, t)'
      BY <2>1, <3>2, <3>4 DEF IsEntryOf
    <3>6. QED
      BY <3>5
  <2>4. wait[s][t] \notin refused => asl'[wait[s][t]] \in {"pending", "discarded"}
    BY <1>4
  <2>5. QED
    BY <2>1, <2>2, <2>3, <2>4
<1>5. HostHasEntry'
  BY <1>4 DEF HostHasEntry
<1>6. QED
  BY <1>1, <1>3, <1>5

\* The search by handle finds the only entry of the handle.
LEMMA TrackedIsEntry ==
  ASSUME OneEntry, NEW h, msgs \in Seq(Tracker!Msg)
  PROVE  /\ \A i \in DOMAIN msgs : msgs[i].handle = h => i \in Tracked(h)
         /\ \A i \in Tracked(h) : i \in DOMAIN msgs /\ msgs[i].handle = h
         /\ \A i, j \in Tracked(h) : i = j
<1>1. \A i \in Tracked(h) : i \in DOMAIN msgs /\ msgs[i].handle = h
  BY DEF Tracked, Tracker!First, Tracker!OfHandle
<1>2. ASSUME NEW i \in DOMAIN msgs, msgs[i].handle = h PROVE i \in Tracked(h)
  <2>1. \A j \in Tracker!OfHandle(msgs, h) : j = i /\ i <= j
    BY <1>2 DEF Tracker!OfHandle, OneEntry
  <2>2. i \in Tracker!OfHandle(msgs, h)
    BY <1>2 DEF Tracker!OfHandle
  <2>3. QED
    BY <2>1, <2>2 DEF Tracked, Tracker!First
<1>3. \A i, j \in Tracked(h) : i = j
  BY <1>1 DEF OneEntry
<1>4. QED
  BY <1>1, <1>2, <1>3

\* The end of request h, as the stack reports it: the host that waits for it is
\* confirmed, and no other host loses its entry or stops waiting.
LEMMA EndOfRequest ==
  ASSUME ConfirmInv, NEW h \in Handle, asl[h] = "pending",
         NEW x \in {"answered", "failed"},
         \A g \in Handle : asl'[g] = IF g = h THEN x ELSE asl[g],
         app' = app, refused' = refused, valid' = valid,
         \/ \E i \in Tracked(h) : SendConfirm(i)
         \/ \E i \in Tracked(h) : /\ msgs[i].sess = 0
                                  /\ Tracker!RemoveHandle(h)
                                  /\ UNCHANGED wait
         \/ /\ \A i \in Tracked(h) : msgs[i].sess \notin valid
            /\ UNCHANGED <<msgs, now, wait>>
  PROVE  /\ OneEntry' /\ EntryOfHost' /\ InTime' /\ HostHasEntry'
         /\ Tracker!TypeOK' /\ wait' \in [Session -> [Txn -> Handle \cup {0}]]
<1>0. /\ TypeOK /\ OneEntry /\ EntryOfHost /\ HostHasEntry
      /\ 0 \notin Session
  BY ParametersOK DEF ConfirmInv, TypeInv
<1>1. /\ msgs \in Seq(Tracker!Msg) /\ Len(msgs) <= Capacity
      /\ now \in 0..MaxTime /\ valid \subseteq Session
      /\ \A i \in DOMAIN msgs : msgs[i].handle \in Handle
      /\ \A s \in Session, t \in Txn : wait[s][t] \in Handle \cup {0}
  BY <1>0, EntryTypes
<1>2. /\ \A i \in DOMAIN msgs : msgs[i].handle = h => i \in Tracked(h)
      /\ \A i \in Tracked(h) : i \in DOMAIN msgs /\ msgs[i].handle = h
      /\ \A i, j \in Tracked(h) : i = j
  BY <1>0, <1>1, TrackedIsEntry
<1>3. ASSUME NEW s \in Session, NEW t \in Txn, wait[s][t] # 0, wait[s][t] \notin refused
      PROVE  /\ wait[s][t] # h => asl'[wait[s][t]] \in {"pending", "discarded"}
             /\ wait[s][t] = h =>
                  \E i \in Tracked(h) : msgs[i].sess = s /\ msgs[i].txn = t /\ s \in valid
  <2>1. /\ asl[wait[s][t]] \in {"pending", "discarded"}
        /\ asl[wait[s][t]] = "pending" => \E i \in DOMAIN msgs : IsEntryOf(i, s, t)
        /\ wait[s][t] \in Handle
    BY <1>0, <1>1, <1>3 DEF HostHasEntry
  <2>2. wait[s][t] # h => asl'[wait[s][t]] \in {"pending", "discarded"}
    BY <2>1
  <2>3. ASSUME wait[s][t] = h
        PROVE  \E i \in Tracked(h) : msgs[i].sess = s /\ msgs[i].txn = t /\ s \in valid
    <3>1. PICK i \in DOMAIN msgs : IsEntryOf(i, s, t)
      BY <2>1, <2>3
    <3>2. i \in Tracked(h) /\ msgs[i].sess = s /\ msgs[i].txn = t
      BY <1>2, <2>3, <3>1 DEF IsEntryOf
    <3>3. s \in valid
      BY <1>0, <3>2 DEF EntryOfHost
    <3>4. QED
      BY <3>2, <3>3
  <2>4. QED
    BY <2>2, <2>3
<1>4. wait \in [Session -> [Txn -> Handle \cup {0}]]
  BY <1>0 DEF TypeOK
<1>5. \A g \in Handle : asl'[g] = "pending" => asl[g] = "pending"
  OBVIOUS
<1>6. ASSUME NEW i \in Tracked(h), SendConfirm(i)
      PROVE  /\ OneEntry' /\ EntryOfHost' /\ InTime' /\ HostHasEntry'
             /\ Tracker!TypeOK' /\ wait' \in [Session -> [Txn -> Handle \cup {0}]]
  <2> DEFINE S == msgs[i].sess
             T == msgs[i].txn
             K == DOMAIN msgs \ {i}
  <2>1. /\ S \in valid /\ S \in Session /\ S # 0 /\ i \in DOMAIN msgs
        /\ msgs[i].handle = h
    BY <1>0, <1>1, <1>2, <1>6 DEF SendConfirm
  <2>2. T \in Txn /\ wait[S][T] = h
    BY <1>0, <2>1 DEF EntryOfHost
  <2>3. \A j \in DOMAIN msgs : msgs[j].sess = S /\ msgs[j].txn = T => j = i
    BY <1>0, <2>1, <2>2 DEF EntryOfHost, OneEntry
  <2>4. now' = now /\ \E j \in Tracker!First(Tracker!OfTxn(msgs, S, T)) : msgs' = Tracker!Without(msgs, j)
    BY <1>6 DEF SendConfirm, Tracker!RemoveTxn
  <2>5. msgs' = Tracker!Without(msgs, i)
    BY <2>3, <2>4 DEF Tracker!First, Tracker!OfTxn
  <2>6. Kept(K)
    BY <1>0, <1>1, <2>1, <2>5, KeptWithout
  <2>7. wait' = [wait EXCEPT ![S][T] = 0]
    BY <1>6 DEF SendConfirm
  <2>8. wait' \in [Session -> [Txn -> Handle \cup {0}]]
    BY <1>4, <2>1, <2>2, <2>7
  <2>9. \A s \in Session, t \in Txn :
           wait'[s][t] = IF s = S /\ t = T THEN 0 ELSE wait[s][t]
    BY <1>4, <2>1, <2>2, <2>7
  <2>10. ASSUME NEW j \in K, msgs[j].sess # 0
         PROVE  /\ msgs[j].sess \in valid'
                /\ wait'[msgs[j].sess][msgs[j].txn] = wait[msgs[j].sess][msgs[j].txn]
    <3>1. j \in DOMAIN msgs /\ j # i
      OBVIOUS
    <3>2. ~(msgs[j].sess = S /\ msgs[j].txn = T)
      BY <2>3, <3>1
    <3>3. msgs[j].sess \in valid /\ msgs[j].txn \in Txn
      BY <1>0, <2>10, <3>1 DEF EntryOfHost
    <3>4. QED
      BY <1>1, <2>9, <3>2, <3>3
  <2>11. ASSUME NEW s \in Session, NEW t \in Txn, wait'[s][t] # 0
         PROVE  /\ wait'[s][t] = wait[s][t]
                /\ wait[s][t] \notin refused =>
                      asl'[wait[s][t]] \in {"pending", "discarded"}
                /\ \A j \in DOMAIN msgs \ K :
                      IsEntryOf(j, s, t) => asl'[wait[s][t]] # "pending"
    <3>1. wait'[s][t] = wait[s][t] /\ ~(s = S /\ t = T)
      BY <2>9, <2>11
    <3>2. \A j \in DOMAIN msgs \ K : ~IsEntryOf(j, s, t)
      BY <2>1, <3>1 DEF IsEntryOf
    <3>3. wait[s][t] \notin refused => wait[s][t] # h
      BY <1>2, <1>3, <2>11, <3>1
    <3>4. QED
      BY <1>3, <2>11, <3>1, <3>2, <3>3
  <2>12. K \in SUBSET DOMAIN msgs
    OBVIOUS
  <2> HIDE DEF K, S, T
  <2>13. OneEntry' /\ EntryOfHost' /\ InTime' /\ HostHasEntry'
    BY <1>5, <2>4, <2>6, <2>10, <2>11, <2>12, RemovalInv
  <2>14. Tracker!TypeOK'
    BY <1>1, <2>4, <2>6 DEF Kept, Tracker!TypeOK
  <2>15. QED
    BY <2>8, <2>13, <2>14
<1>7. ASSUME NEW i \in Tracked(h), msgs[i].sess = 0, Tracker!RemoveHandle(h), wait' = wait
      PROVE  /\ OneEntry' /\ EntryOfHost' /\ InTime' /\ HostHasEntry'
             /\ Tracker!TypeOK' /\ wait' \in [Session -> [Txn -> Handle \cup {0}]]
  <2> DEFINE K == DOMAIN msgs \ {i}
  <2>1. now' = now /\ \E j \in Tracked(h) : msgs' = Tracker!Without(msgs, j)
    BY <1>7 DEF Tracker!RemoveHandle, Tracked
  <2>2. msgs' = Tracker!Without(msgs, i) /\ i \in DOMAIN msgs
    BY <1>2, <2>1
  <2>3. Kept(K)
    BY <1>0, <1>1, <2>2, KeptWithout
  <2>4. \A j \in K : msgs[j].sess # 0 => msgs[j].sess \in valid
    BY <1>0 DEF EntryOfHost
  <2>5. ASSUME NEW s \in Session, NEW t \in Txn, wait[s][t] # 0
        PROVE  /\ wait[s][t] \notin refused =>
                     asl'[wait[s][t]] \in {"pending", "discarded"}
               /\ \A j \in DOMAIN msgs \ K :
                     IsEntryOf(j, s, t) => asl'[wait[s][t]] # "pending"
    <3>1. \A j \in DOMAIN msgs \ K : ~IsEntryOf(j, s, t)
      BY <1>0, <1>7 DEF IsEntryOf
    <3>2. wait[s][t] \notin refused => wait[s][t] # h
      BY <1>0, <1>2, <1>3, <1>7, <2>5
    <3>3. QED
      BY <1>3, <2>5, <3>1, <3>2
  <2>6. K \in SUBSET DOMAIN msgs
    OBVIOUS
  <2> HIDE DEF K
  <2>7. OneEntry' /\ EntryOfHost' /\ InTime' /\ HostHasEntry'
    BY <1>5, <1>7, <2>1, <2>3, <2>4, <2>5, <2>6, RemovalInv
  <2>8. Tracker!TypeOK'
    BY <1>1, <2>1, <2>3 DEF Kept, Tracker!TypeOK
  <2>9. QED
    BY <1>4, <1>7, <2>7, <2>8
<1>8. ASSUME \A i \in Tracked(h) : msgs[i].sess \notin valid, UNCHANGED <<msgs, now, wait>>
      PROVE  /\ OneEntry' /\ EntryOfHost' /\ InTime' /\ HostHasEntry'
             /\ Tracker!TypeOK' /\ wait' \in [Session -> [Txn -> Handle \cup {0}]]
  <2>1. Kept(DOMAIN msgs) /\ now' = now /\ wait' = wait
    BY <1>0, <1>1, <1>8, KeptAll
  <2>2. \A j \in DOMAIN msgs : msgs[j].sess # 0 => msgs[j].sess \in valid
    BY <1>0 DEF EntryOfHost
  <2>3. ASSUME NEW s \in Session, NEW t \in Txn, wait[s][t] # 0
        PROVE  wait[s][t] \notin refused => asl'[wait[s][t]] \in {"pending", "discarded"}
    BY <1>3, <1>8, <2>3
  <2>4. OneEntry' /\ EntryOfHost' /\ InTime' /\ HostHasEntry'
    BY <1>5, <2>1, <2>2, <2>3, RemovalInv
  <2>5. Tracker!TypeOK'
    BY <1>1, <2>1 DEF Kept, Tracker!TypeOK
  <2>6. QED
    BY <1>4, <2>1, <2>4, <2>5
<1>9. QED
  BY <1>6, <1>7, <1>8

\* A request goes to the stack under a new handle; the tracker takes it, or is
\* full and the handle is refused.  The transaction did not wait, so that it
\* has no entry yet.
LEMMA SendRequest ==
  ASSUME ConfirmInv, NEW k \in Key, NEW s \in Session \cup {0}, NEW t \in Txn \cup {0},
         SendRequestToASL(k, s, t), UNCHANGED <<cache, table>>,
         \/ s = 0 /\ wait' = wait
         \/ /\ s \in valid /\ t \in Txn /\ wait[s][t] = 0
            /\ wait' = [wait EXCEPT ![s][t] = app + 1]
  PROVE  ConfirmInv'
<1> DEFINE h == app + 1
           m == [handle |-> h, sess |-> s, txn |-> t, time |-> now]
<1>0. /\ TypeOK /\ OneEntry /\ EntryOfHost /\ InTime /\ HostHasEntry
      /\ 0 \notin Session /\ StackLife \in Nat /\ Capacity \in Nat
      /\ MaxHandle \in Nat /\ MaxTime \in Nat
  BY ParametersOK DEF ConfirmInv, TypeInv
<1>1. /\ msgs \in Seq(Tracker!Msg) /\ Len(msgs) <= Capacity
      /\ now \in 0..MaxTime /\ valid \subseteq Session /\ app \in 0..MaxHandle
      /\ \A i \in DOMAIN msgs : msgs[i].handle \in Handle
      /\ \A u \in Session, v \in Txn : wait[u][v] \in Handle \cup {0}
  BY <1>0, EntryTypes
<1>2. /\ app < MaxHandle /\ k[1] \in live /\ app' = h /\ asl[h] = "idle"
      /\ asl' = [asl EXCEPT ![h] = "pending"]
      /\ msgs' = Tracker!Added(msgs, h, s, t, now) /\ now' = now
      /\ pending' = [pending EXCEPT ![h] = k]
      /\ on' = [on EXCEPT ![h] = <<k[1], gen[k[1]]>>]
      /\ refused' = IF Tracker!Full(msgs) THEN refused \cup {h} ELSE refused
  BY DEF SendRequestToASL, Asl!Submit, Tracker!AddMessage
<1>3. /\ h \in Handle /\ h > app /\ h # 0
      /\ \A i \in DOMAIN msgs : msgs[i].handle <= app /\ msgs[i].handle # h
      /\ \A u \in Session, v \in Txn : wait[u][v] # 0 => wait[u][v] <= app /\ wait[u][v] # h
  <2>1. h \in Handle /\ h > app /\ h # 0
    BY <1>0, <1>1, <1>2 DEF Handle
  <2>2. \A i \in DOMAIN msgs : msgs[i].handle <= app
    BY <1>0 DEF EntryOfHost
  <2>3. \A u \in Session, v \in Txn : wait[u][v] # 0 => wait[u][v] <= app
    BY <1>0 DEF HostHasEntry
  <2>4. QED
    BY <1>1, <2>1, <2>2, <2>3 DEF Handle
<1>4. m \in Tracker!Msg
  BY <1>1, <1>3 DEF Tracker!Msg
<1>5. /\ asl \in [Handle -> Asl!Fate] /\ \A g \in Handle : asl[g] = "idle" <=> g > app
      /\ wait \in [Session -> [Txn -> Handle \cup {0}]] /\ refused \subseteq 1..app
  BY <1>0 DEF TypeOK
<1>6. /\ \A g \in Handle : asl'[g] = IF g = h THEN "pending" ELSE asl[g]
      /\ asl' \in [Handle -> Asl!Fate]
      /\ \A g \in Handle : asl'[g] = "idle" <=> g > app'
  <2>1. asl' \in [Handle -> Asl!Fate]
    BY <1>2, <1>5 DEF Asl!Fate
  <2>2. \A g \in Handle : asl'[g] = IF g = h THEN "pending" ELSE asl[g]
    BY <1>2, <1>3, <1>5
  <2>3. \A g \in Handle : asl'[g] = "idle" <=> g > app'
    BY <1>1, <1>2, <1>5, <2>2 DEF Handle
  <2>4. QED
    BY <2>1, <2>2, <2>3
<1>7. /\ wait' \in [Session -> [Txn -> Handle \cup {0}]]
      /\ \A u \in Session, v \in Txn :
            wait'[u][v] = IF u = s /\ v = t THEN h ELSE wait[u][v]
  BY <1>0, <1>1, <1>3, <1>5
<1>8. /\ Tracker!TypeOK' /\ OneEntry' /\ EntryOfHost' /\ InTime' /\ HostHasEntry'
  <2> HIDE DEF h
  <2>1. ASSUME NEW i \in DOMAIN msgs
        PROVE  /\ msgs[i].handle <= h
               /\ msgs[i].sess # 0 =>
                     /\ msgs[i].sess \in valid /\ msgs[i].txn \in Txn
                     /\ wait'[msgs[i].sess][msgs[i].txn] = msgs[i].handle
               /\ asl'[msgs[i].handle] = "pending" => now - msgs[i].time <= StackLife
    <3>1. msgs[i].handle <= h
      BY <1>1, <1>3 DEF Handle, h
    <3>2. ASSUME msgs[i].sess # 0
          PROVE  /\ msgs[i].sess \in valid /\ msgs[i].txn \in Txn
                 /\ wait'[msgs[i].sess][msgs[i].txn] = msgs[i].handle
      <4>1. /\ msgs[i].sess \in valid /\ msgs[i].txn \in Txn
            /\ wait[msgs[i].sess][msgs[i].txn] = msgs[i].handle
        BY <1>0, <3>2 DEF EntryOfHost
      <4>2. msgs[i].handle # 0
        BY <1>1 DEF Handle
      <4>3. ~(msgs[i].sess = s /\ msgs[i].txn = t)
        BY <3>2, <4>1, <4>2
      <4>4. QED
        BY <1>1, <1>7, <4>1, <4>3
    <3>3. asl'[msgs[i].handle] = "pending" => now - msgs[i].time <= StackLife
      BY <1>0, <1>1, <1>3, <1>6 DEF InTime
    <3>4. QED
      BY <3>1, <3>2, <3>3
  <2>2. ASSUME NEW u \in Session, NEW v \in Txn, wait'[u][v] # 0, wait'[u][v] # h
        PROVE  /\ wait'[u][v] = wait[u][v] /\ wait[u][v] # 0 /\ wait[u][v] <= app'
               /\ asl'[wait[u][v]] = asl[wait[u][v]]
    <3>1. wait'[u][v] = wait[u][v] /\ wait[u][v] # 0 /\ wait[u][v] \in Handle
      BY <1>1, <1>7, <2>2
    <3>2. wait[u][v] <= app'
      BY <1>1, <1>2, <1>3, <3>1 DEF Handle, h
    <3>3. asl'[wait[u][v]] = asl[wait[u][v]]
      BY <1>6, <2>2, <3>1
    <3>4. QED
      BY <3>1, <3>2, <3>3
  <2>3. CASE Tracker!Full(msgs)
    <3>1. msgs' = msgs /\ refused' = refused \cup {h}
      BY <1>2, <2>3 DEF Tracker!Added
    <3>2. Tracker!TypeOK' /\ OneEntry'
      BY <1>0, <1>1, <1>2, <3>1 DEF Tracker!TypeOK, OneEntry
    <3>3. EntryOfHost' /\ InTime'
      <4>1. valid' = valid
        BY DEF table
      <4>2. QED
        BY <1>2, <2>1, <3>1, <4>1 DEF EntryOfHost, InTime
    <3>4. ASSUME NEW u \in Session, NEW v \in Txn, wait'[u][v] # 0
          PROVE  /\ wait'[u][v] <= app'
                 /\ wait'[u][v] \notin refused' =>
                      /\ asl'[wait'[u][v]] \in {"pending", "discarded"}
                      /\ asl'[wait'[u][v]] = "pending" =>
                           \E i \in DOMAIN msgs' : IsEntryOf(i, u, v)'
      <4>1. CASE wait'[u][v] = h
        BY <1>1, <1>2, <3>1, <4>1 DEF h
      <4>2. CASE wait'[u][v] # h
        <5>1. \A i \in DOMAIN msgs : IsEntryOf(i, u, v) => IsEntryOf(i, u, v)'
          BY <2>2, <3>1, <3>4, <4>2 DEF IsEntryOf
        <5>2. QED
          BY <1>0, <2>2, <3>1, <3>4, <4>2, <5>1 DEF HostHasEntry
      <4>3. QED
        BY <4>1, <4>2
    <3>5. HostHasEntry'
      BY <3>4 DEF HostHasEntry
    <3>6. QED
      BY <3>2, <3>3, <3>5
  <2>4. CASE ~Tracker!Full(msgs)
    <3>1. msgs' = Append(msgs, m) /\ refused' = refused /\ Len(msgs) < Capacity
      BY <1>0, <1>1, <1>2, <2>4 DEF Tracker!Added, Tracker!Full
    <3>2. m.handle = h /\ m.sess = s /\ m.txn = t /\ m.time = now
      OBVIOUS
    <3> HIDE DEF m
    <3>3. PICK n \in Nat : n = Len(msgs) /\ DOMAIN msgs = 1..n
      BY <1>1
    <3>4. /\ msgs' \in Seq(Tracker!Msg) /\ Len(msgs') = n + 1 /\ DOMAIN msgs' = 1..(n + 1)
          /\ msgs'[n + 1] = m /\ \A i \in 1..n : msgs'[i] = msgs[i]
      BY <1>1, <1>4, <3>1, <3>3
    <3>5. Tracker!TypeOK'
      BY <1>0, <1>1, <1>2, <3>1, <3>3, <3>4 DEF Tracker!TypeOK
    <3>6. OneEntry'
      <4>1. \A i \in 1..(n + 1) : i = n + 1 \/ i \in 1..n
        BY <3>3
      <4>2. \A i \in 1..n : msgs'[i].handle # msgs'[n + 1].handle
        BY <1>3, <3>2, <3>3, <3>4
      <4>3. \A i, j \in 1..n : msgs'[i].handle = msgs'[j].handle => i = j
        BY <1>0, <3>3, <3>4 DEF OneEntry
      <4>4. QED
        BY <3>4, <4>1, <4>2, <4>3 DEF OneEntry
    <3>7. ASSUME NEW i \in 1..n
          PROVE  /\ msgs'[i].handle <= h
                 /\ msgs'[i].sess # 0 =>
                       /\ msgs'[i].sess \in valid /\ msgs'[i].txn \in Txn
                       /\ wait'[msgs'[i].sess][msgs'[i].txn] = msgs'[i].handle
                 /\ asl'[msgs'[i].handle] = "pending" => now - msgs'[i].time <= StackLife
      <4>1. msgs'[i] = msgs[i] /\ i \in DOMAIN msgs
        BY <3>3, <3>4
      <4>2. QED
        BY <2>1, <4>1
    <3>8. /\ m.handle <= h
          /\ m.sess # 0 => /\ m.sess \in valid /\ m.txn \in Txn
                           /\ wait'[m.sess][m.txn] = m.handle
          /\ now - m.time <= StackLife
      <4>1. h <= h /\ now - now <= StackLife
        BY <1>0, <1>1, <1>3 DEF Handle
      <4>2. s # 0 => s \in valid /\ t \in Txn /\ wait'[s][t] = h
        BY <1>1, <1>7
      <4>3. QED
        BY <3>2, <4>1, <4>2
    <3>9. EntryOfHost' /\ InTime'
      <4>1. valid' = valid
        BY DEF table
      <4>2. \A i \in DOMAIN msgs' : i \in 1..n \/ msgs'[i] = m
        BY <3>3, <3>4
      <4>3. QED
        BY <1>2, <3>7, <3>8, <4>1, <4>2 DEF EntryOfHost, InTime
    <3>10. ASSUME NEW u \in Session, NEW v \in Txn, wait'[u][v] # 0
           PROVE  /\ wait'[u][v] <= app'
                  /\ wait'[u][v] \notin refused' =>
                      /\ asl'[wait'[u][v]] \in {"pending", "discarded"}
                      /\ asl'[wait'[u][v]] = "pending" =>
                           \E i \in DOMAIN msgs' : IsEntryOf(i, u, v)'
      <4>1. CASE wait'[u][v] = h
        <5>1. u = s /\ v = t
          BY <1>3, <1>7, <3>10, <4>1
        <5>2. IsEntryOf(n + 1, u, v)' /\ n + 1 \in DOMAIN msgs'
          BY <3>2, <3>4, <4>1, <5>1 DEF IsEntryOf
        <5>3. asl'[h] = "pending" /\ h <= app'
          BY <1>1, <1>2, <1>3, <1>6 DEF h
        <5>4. QED
          BY <4>1, <5>2, <5>3
      <4>2. CASE wait'[u][v] # h
        <5>1. \A i \in DOMAIN msgs : IsEntryOf(i, u, v) => i \in DOMAIN msgs' /\ IsEntryOf(i, u, v)'
          BY <2>2, <3>3, <3>4, <3>10, <4>2 DEF IsEntryOf
        <5>2. QED
          BY <1>0, <2>2, <3>1, <3>10, <4>2, <5>1 DEF HostHasEntry
      <4>3. QED
        BY <4>1, <4>2
    <3>11. HostHasEntry'
      BY <3>10 DEF HostHasEntry
    <3>12. QED
      BY <3>5, <3>6, <3>9, <3>11
  <2>5. QED
    BY <2>3, <2>4
<1>9. TypeInv'
  <2>1. /\ app' \in 0..MaxHandle /\ refused' \subseteq 1..app'
    BY <1>0, <1>1, <1>2, <1>5
  <2>2. pending' \in [Handle -> Key \cup {NoKey}]
    BY <1>0, <1>2 DEF TypeOK
  <2>3. /\ gen \in [Contract -> 1..MaxGen] /\ k[1] \in Contract
        /\ on \in [Handle -> (Contract \X (1..MaxGen)) \cup {<< >>}]
    BY <1>0 DEF TypeOK, Key
  <2>4. <<k[1], gen[k[1]]>> \in Contract \X (1..MaxGen)
    BY <2>3
  <2>5. on' \in [Handle -> (Contract \X (1..MaxGen)) \cup {<< >>}]
    BY <1>2, <2>3, <2>4
  <2>6. ASSUME NEW g \in 1..app' PROVE on'[g] # << >>
    <3>1. CASE g = h
      <4>1. on'[g] = <<k[1], gen[k[1]]>>
        BY <1>2, <1>3, <2>3, <3>1
      <4>2. QED
        BY <4>1
    <3>2. CASE g # h
      <4>1. g \in 1..app /\ g \in Handle
        BY <1>0, <1>1, <1>2, <3>2 DEF Handle
      <4>2. on'[g] = on[g]
        BY <1>2, <2>3, <3>2, <4>1
      <4>3. QED
        BY <4>1, <4>2 DEF ConfirmInv, TypeInv
    <3>3. QED
      BY <3>1, <3>2
  <2>7. UNCHANGED <<cache, valid, lease, live, gen>>
    BY DEF table
  <2>8. /\ cache' \in [Key -> [rx : 0..MaxTime, gen : 1..MaxGen] \cup {NotCached}]
        /\ valid' \subseteq Session /\ lease' \in [Session -> live' \cup {NoContract}]
        /\ live' \subseteq Contract /\ gen' \in [Contract -> 1..MaxGen]
        /\ \A c \in Contract : c \notin live' => gen'[c] < MaxGen
    BY <1>0, <2>7 DEF TypeOK, ConfirmInv, TypeInv
  <2>9. TypeOK'
    BY <1>6, <1>7, <1>8, <2>1, <2>2, <2>5, <2>8 DEF TypeOK
  <2>10. QED
    BY <2>6, <2>8, <2>9 DEF TypeInv
<1>10. QED
  BY <1>8, <1>9 DEF ConfirmInv

\* What the stack does to the fate of request h when it ends.
LEMMA FateOfRequest ==
  ASSUME TypeOK, NEW h \in Handle, NEW x,
         \/ x = "answered" /\ Asl!Answer(h)
         \/ x = "failed" /\ Asl!Resolve({h}, {})
         \/ x = "discarded" /\ Asl!Resolve({}, {h})
  PROVE  /\ asl[h] = "pending" /\ h <= app
         /\ \A g \in Handle : asl'[g] = IF g = h THEN x ELSE asl[g]
         /\ asl' \in [Handle -> Asl!Fate]
         /\ \A g \in Handle : asl'[g] = "idle" <=> g > app
<1>1. asl \in [Handle -> Asl!Fate] /\ \A g \in Handle : asl[g] = "idle" <=> g > app
  BY DEF TypeOK
<1>2. asl[h] = "pending"
  BY DEF Asl!Answer, Asl!Resolve
<1>3. \A g \in Handle : asl'[g] = IF g = h THEN x ELSE asl[g]
  <2>1. CASE x = "answered" /\ Asl!Answer(h)
    BY <1>1, <2>1 DEF Asl!Answer
  <2>2. CASE x = "failed" /\ Asl!Resolve({h}, {})
    BY <1>1, <2>2 DEF Asl!Resolve
  <2>3. CASE x = "discarded" /\ Asl!Resolve({}, {h})
    BY <1>1, <2>3 DEF Asl!Resolve
  <2>4. QED
    BY <2>1, <2>2, <2>3
<1>4. x \in Asl!Fate /\ x # "idle"
  BY DEF Asl!Fate
<1>5. \A g \in Handle : asl'[g] \in Asl!Fate
  BY <1>1, <1>3, <1>4
<1>6. asl' = [g \in Handle |-> asl'[g]]
  <2>1. CASE x = "answered" /\ Asl!Answer(h)
    BY <1>1, <2>1 DEF Asl!Answer
  <2>2. CASE x # "answered"
    BY <1>1, <2>2 DEF Asl!Resolve
  <2>3. QED
    BY <2>1, <2>2
<1>7. asl' \in [Handle -> Asl!Fate]
  BY <1>5, <1>6
<1>8. h <= app
  <2>1. ~(h > app) /\ app \in Int /\ h \in Int
    BY <1>1, <1>2 DEF TypeOK, Handle
  <2>2. QED
    BY <2>1
<1>9. QED
  BY <1>1, <1>2, <1>3, <1>4, <1>7, <1>8

\* The types of what a step leaves alone or forgets: m_mapPendingReq and the
\* cache may lose keys, and the tables of sessions and leases entries.
LEMMA PurgeTypes ==
  ASSUME TypeOK, NEW s \in Session, OnLeaseDelete(s)
  PROVE  /\ pending' \in [Handle -> Key \cup {NoKey}]
         /\ cache' \in [Key -> [rx : 0..MaxTime, gen : 1..MaxGen] \cup {NotCached}]
<1>1. /\ pending \in [Handle -> Key \cup {NoKey}]
      /\ cache \in [Key -> [rx : 0..MaxTime, gen : 1..MaxGen] \cup {NotCached}]
  BY DEF TypeOK
<1>2. CASE UNCHANGED <<cache, pending>>
  BY <1>1, <1>2
<1>3. CASE Purge(lease[s])
  <2>1. PICK c : c = lease[s]
    OBVIOUS
  <2>2. Purge(c)
    BY <1>3, <2>1
  <2>3. pending' \in [Handle -> Key \cup {NoKey}]
    BY <1>1, <2>2 DEF Purge
  <2>4. cache' \in [Key -> [rx : 0..MaxTime, gen : 1..MaxGen] \cup {NotCached}]
    BY <1>1, <2>2 DEF Purge
  <2>5. QED
    BY <2>3, <2>4
<1>4. QED
  BY <1>2, <1>3 DEF OnLeaseDelete

\* A step that touches neither the tracker, nor the stack, nor a transaction
\* keeps what relates them.
LEMMA ElsewhereInv ==
  ASSUME ConfirmInv, UNCHANGED <<app, msgs, now, asl, valid, wait, refused>>
  PROVE  OneEntry' /\ EntryOfHost' /\ InTime' /\ HostHasEntry'
  BY DEF ConfirmInv, OneEntry, EntryOfHost, InTime, HostHasEntry, IsEntryOf

\* At the start nobody waits and the tracker is empty.
LEMMA InitConfirm == Init => ConfirmInv
<1> SUFFICES ASSUME Init PROVE ConfirmInv
  OBVIOUS
<1>1. /\ SMContract \in Contract /\ MaxHandle \in Nat /\ MaxTime \in Nat
      /\ MaxGen \in Nat \ {0} /\ Capacity \in Nat \ {0}
  BY ParametersOK
<1>2. msgs = <<>> /\ now = 0 /\ app = 0 /\ asl = [h \in Handle |-> "idle"]
  BY DEF Init, Tracker!Init, Asl!Init
<1>3. Tracker!TypeOK
  BY <1>1, <1>2 DEF Tracker!TypeOK
<1>4. OneEntry /\ EntryOfHost /\ InTime
  BY <1>2 DEF OneEntry, EntryOfHost, InTime
<1>5. HostHasEntry
  BY DEF Init, HostHasEntry
<1>6. asl \in [Handle -> Asl!Fate] /\ \A h \in Handle : asl[h] = "idle" <=> h > app
  BY <1>1, <1>2 DEF Handle, Asl!Fate
<1>7. /\ app \in 0..MaxHandle /\ refused \subseteq 1..app
      /\ pending \in [Handle -> Key \cup {NoKey}]
      /\ on \in [Handle -> (Contract \X (1..MaxGen)) \cup {<< >>}]
      /\ valid \subseteq Session /\ live \subseteq Contract
      /\ gen \in [Contract -> 1..MaxGen]
      /\ wait \in [Session -> [Txn -> Handle \cup {0}]]
  BY <1>1 DEF Init
<1>8. /\ cache \in [Key -> [rx : 0..MaxTime, gen : 1..MaxGen] \cup {NotCached}]
      /\ lease \in [Session -> live \cup {NoContract}]
  BY DEF Init
<1>9. TypeOK
  BY <1>3, <1>6, <1>7, <1>8 DEF TypeOK
<1>10. TypeInv
  BY <1>2, <1>9 DEF TypeInv, Init
<1>11. QED
  BY <1>4, <1>5, <1>10 DEF ConfirmInv

\* Every step of the service, of the hosts, of the stack and of the contract
\* table keeps the invariant.
LEMMA NextConfirm == ConfirmInv /\ [Next]_vars => ConfirmInv'
<1> SUFFICES ASSUME ConfirmInv, [Next]_vars PROVE ConfirmInv'
  OBVIOUS
<1>0. /\ TypeOK /\ OneEntry /\ EntryOfHost /\ InTime /\ HostHasEntry
      /\ MaxGen \in Nat /\ MaxTime \in Nat /\ MaxAge \in Nat /\ StackLife \in Nat
      /\ StackLife <= MaxAge /\ 0 \notin Session
  BY ParametersOK DEF ConfirmInv, TypeInv
<1>a. /\ \A c \in Contract : c \notin live => gen[c] < MaxGen
      /\ \A h \in 1..app : on[h] # << >>
  BY DEF ConfirmInv, TypeInv
<1>b. /\ msgs \in Seq(Tracker!Msg) /\ Len(msgs) <= Capacity
      /\ now \in 0..MaxTime /\ valid \subseteq Session /\ app \in 0..MaxHandle
      /\ \A i \in DOMAIN msgs : /\ msgs[i].handle \in Handle
                                /\ msgs[i].time \in 0..MaxTime
      /\ \A s \in Session, t \in Txn : wait[s][t] \in Handle \cup {0}
  BY <1>0, EntryTypes
<1>t. /\ app \in 0..MaxHandle
      /\ pending \in [Handle -> Key \cup {NoKey}]
      /\ cache \in [Key -> [rx : 0..MaxTime, gen : 1..MaxGen] \cup {NotCached}]
      /\ Tracker!TypeOK
      /\ asl \in [Handle -> Asl!Fate]
      /\ \A h \in Handle : asl[h] = "idle" <=> h > app
      /\ on \in [Handle -> (Contract \X (1..MaxGen)) \cup {<< >>}]
      /\ valid \subseteq Session
      /\ lease \in [Session -> live \cup {NoContract}]
      /\ live \subseteq Contract
      /\ gen \in [Contract -> 1..MaxGen]
      /\ wait \in [Session -> [Txn -> Handle \cup {0}]]
      /\ refused \subseteq 1..app
  BY <1>0 DEF TypeOK
<1>1. ASSUME NEW s \in Session, DeleteLease(s) PROVE ConfirmInv'
  <2>1. /\ UNCHANGED <<app, msgs, now, asl, on, valid, live, gen, wait, refused>>
        /\ lease' = [lease EXCEPT ![s] = NoContract] /\ OnLeaseDelete(s)
    BY <1>1 DEF DeleteLease, history
  <2>2. OneEntry' /\ EntryOfHost' /\ InTime' /\ HostHasEntry'
    BY <2>1, ElsewhereInv
  <2>3. /\ pending' \in [Handle -> Key \cup {NoKey}]
        /\ cache' \in [Key -> [rx : 0..MaxTime, gen : 1..MaxGen] \cup {NotCached}]
    BY <1>0, <2>1, PurgeTypes
  <2>4. Tracker!TypeOK'
    BY <1>t, <2>1 DEF Tracker!TypeOK
  <2>5. TypeOK'
    BY <1>t, <2>1, <2>3, <2>4 DEF TypeOK
  <2>6. QED
    BY <1>a, <2>1, <2>2, <2>5 DEF ConfirmInv, TypeInv
<1>2. ASSUME NEW s \in Session, DeleteSession(s) PROVE ConfirmInv'
  <2> DEFINE K == {i \in DOMAIN msgs : msgs[i].sess # s}
  <2>1. /\ UNCHANGED <<app, asl, on, live, gen, refused>> /\ now' = now
        /\ lease' = [lease EXCEPT ![s] = NoContract] /\ OnLeaseDelete(s)
        /\ valid' = valid \ {s} /\ wait' = [wait EXCEPT ![s] = [t \in Txn |-> 0]]
        /\ Tracker!ProcessSessionDelete(s)
    BY <1>2 DEF DeleteSession, Tracker!ProcessSessionDelete
  <2>2. Kept(K)
    BY <1>0, <1>b, <2>1, KeptOthers
  <2>3. /\ wait' \in [Session -> [Txn -> Handle \cup {0}]]
        /\ \A u \in Session, t \in Txn : wait'[u][t] = IF u = s THEN 0 ELSE wait[u][t]
    BY <1>t, <2>1
  <2>4. \A i \in K : msgs[i].sess # 0 =>
           /\ msgs[i].sess \in valid'
           /\ wait'[msgs[i].sess][msgs[i].txn] = wait[msgs[i].sess][msgs[i].txn]
    BY <1>0, <1>b, <2>1, <2>3 DEF EntryOfHost
  <2>5. ASSUME NEW u \in Session, NEW t \in Txn, wait'[u][t] # 0
        PROVE  /\ wait'[u][t] = wait[u][t]
               /\ wait[u][t] \notin refused =>
                     asl'[wait[u][t]] \in {"pending", "discarded"}
               /\ \A i \in DOMAIN msgs \ K :
                     IsEntryOf(i, u, t) => asl'[wait[u][t]] # "pending"
    <3>1. wait'[u][t] = wait[u][t] /\ u # s
      BY <2>3, <2>5
    <3>2. \A i \in DOMAIN msgs \ K : ~IsEntryOf(i, u, t)
      BY <3>1 DEF IsEntryOf
    <3>3. wait[u][t] \notin refused => asl'[wait[u][t]] \in {"pending", "discarded"}
      BY <1>0, <2>1, <2>5, <3>1 DEF HostHasEntry
    <3>4. QED
      BY <3>1, <3>2, <3>3
  <2>6. K \in SUBSET DOMAIN msgs
    OBVIOUS
  <2> HIDE DEF K
  <2>7. OneEntry' /\ EntryOfHost' /\ InTime' /\ HostHasEntry'
    BY <2>1, <2>2, <2>4, <2>5, <2>6, RemovalInv
  <2>8. Tracker!TypeOK'
    BY <1>b, <2>1, <2>2 DEF Kept, Tracker!TypeOK
  <2>9. /\ pending' \in [Handle -> Key \cup {NoKey}]
        /\ cache' \in [Key -> [rx : 0..MaxTime, gen : 1..MaxGen] \cup {NotCached}]
    BY <1>0, <2>1, PurgeTypes
  <2>10. TypeOK'
    BY <1>t, <2>1, <2>3, <2>8, <2>9 DEF TypeOK
  <2>11. QED
    BY <1>a, <2>1, <2>7, <2>10 DEF ConfirmInv, TypeInv
<1>3. ASSUME NEW s \in Session, NEW t \in Txn, NEW a \in Attr, NEW b \in BOOLEAN,
             AskDevice(s, t, a, b)
      PROVE  ConfirmInv'
  <2>1. PICK c : c = lease[s]
    OBVIOUS
  <2>2. /\ s \in valid /\ wait[s][t] = 0 /\ SendRequestToASL(<<c, a>>, s, t)
        /\ wait' = [wait EXCEPT ![s][t] = app'] /\ UNCHANGED <<cache, table>>
    BY <1>3, <2>1 DEF AskDevice
  <2>3. app' = app + 1 /\ c \in live
    BY <2>2 DEF SendRequestToASL
  <2>4. <<c, a>> \in Key
    BY <1>t, <2>3 DEF Key
  <2>5. QED
    BY <2>2, <2>3, <2>4, SendRequest
<1>4. ASSUME RequestContractList PROVE ConfirmInv'
  <2>1. SendRequestToASL(ListKey, 0, 0) /\ UNCHANGED <<cache, table>> /\ wait' = wait
    BY <1>4 DEF RequestContractList
  <2>2. ListKey \in Key
    BY ParametersOK DEF ListKey, Key
  <2>3. QED
    BY <2>1, <2>2, SendRequest
<1>5. ASSUME NEW h \in Handle, ProcessAPDU(h) PROVE ConfirmInv'
  <2>1. /\ Asl!Answer(h) /\ UNCHANGED <<app, on, valid, lease, live, gen, refused>>
        /\ clientServerConfirm(h)
        /\ \/ UNCHANGED <<pending, cache>>
           \/ /\ pending[h] # NoKey
              /\ cache' = [cache EXCEPT ![pending[h]] = [rx |-> now, gen |-> on[h][2]]]
              /\ pending' = [pending EXCEPT ![h] = NoKey]
    BY <1>5 DEF ProcessAPDU, table
  <2>2. /\ asl[h] = "pending" /\ h <= app
        /\ \A g \in Handle : asl'[g] = IF g = h THEN "answered" ELSE asl[g]
        /\ asl' \in [Handle -> Asl!Fate]
        /\ \A g \in Handle : asl'[g] = "idle" <=> g > app
    BY <1>0, <2>1, FateOfRequest
  <2>3. /\ OneEntry' /\ EntryOfHost' /\ InTime' /\ HostHasEntry'
        /\ Tracker!TypeOK' /\ wait' \in [Session -> [Txn -> Handle \cup {0}]]
    <3>1. \/ \E i \in Tracked(h) : SendConfirm(i)
          \/ \E i \in Tracked(h) : /\ msgs[i].sess = 0
                                   /\ Tracker!RemoveHandle(h)
                                   /\ UNCHANGED wait
          \/ /\ \A i \in Tracked(h) : msgs[i].sess \notin valid
             /\ UNCHANGED <<msgs, now, wait>>
      BY <2>1 DEF clientServerConfirm
    <3>2. QED
      BY <2>1, <2>2, <3>1, EndOfRequest
  <2>4. on[h][2] \in 1..MaxGen
    <3>1. h \in 1..app
      BY <1>b, <2>2 DEF Handle
    <3>2. on[h] \in Contract \X (1..MaxGen)
      BY <1>a, <1>t, <3>1
    <3>3. QED
      BY <3>2
  <2>5. /\ pending' \in [Handle -> Key \cup {NoKey}]
        /\ cache' \in [Key -> [rx : 0..MaxTime, gen : 1..MaxGen] \cup {NotCached}]
    <3>1. PICK e : e = [rx |-> now, gen |-> on[h][2]]
      OBVIOUS
    <3>2. e \in [rx : 0..MaxTime, gen : 1..MaxGen]
      BY <1>b, <2>4, <3>1
    <3>3. \/ UNCHANGED <<pending, cache>>
          \/ /\ pending[h] # NoKey
             /\ cache' = [cache EXCEPT ![pending[h]] = e]
             /\ pending' = [pending EXCEPT ![h] = NoKey]
      BY <2>1, <3>1
    <3>4. pending' \in [Handle -> Key \cup {NoKey}]
      BY <1>t, <3>3
    <3>5. cache' \in [Key -> [rx : 0..MaxTime, gen : 1..MaxGen] \cup {NotCached}]
      BY <1>t, <3>2, <3>3
    <3>6. QED
      BY <3>4, <3>5
  <2>6. TypeOK'
    BY <1>t, <2>1, <2>2, <2>3, <2>5 DEF TypeOK
  <2>7. QED
    BY <1>a, <2>1, <2>3, <2>6 DEF ConfirmInv, TypeInv
<1>6. ASSUME NEW h \in Handle, ProcessISATimeout(h) PROVE ConfirmInv'
  <2>1. /\ Asl!Resolve({h}, {})
        /\ UNCHANGED <<app, cache, on, valid, lease, live, gen, refused>>
        /\ pending' = [pending EXCEPT ![h] = NoKey]
        /\ \/ \E i \in Tracked(h) : SendConfirm(i)
           \/ /\ \A i \in Tracked(h) : msgs[i].sess \notin valid
              /\ UNCHANGED <<msgs, now, wait>>
    BY <1>6 DEF ProcessISATimeout, table
  <2>2. /\ asl[h] = "pending"
        /\ \A g \in Handle : asl'[g] = IF g = h THEN "failed" ELSE asl[g]
        /\ asl' \in [Handle -> Asl!Fate]
        /\ \A g \in Handle : asl'[g] = "idle" <=> g > app
    BY <1>0, <2>1, FateOfRequest
  <2>3. /\ OneEntry' /\ EntryOfHost' /\ InTime' /\ HostHasEntry'
        /\ Tracker!TypeOK' /\ wait' \in [Session -> [Txn -> Handle \cup {0}]]
    BY <2>1, <2>2, EndOfRequest
  <2>4. pending' \in [Handle -> Key \cup {NoKey}]
    BY <1>t, <2>1
  <2>5. TypeOK'
    BY <1>t, <2>1, <2>2, <2>3, <2>4 DEF TypeOK
  <2>6. QED
    BY <1>a, <2>1, <2>3, <2>5 DEF ConfirmInv, TypeInv
<1>7. ASSUME NEW h \in Handle, StackDiscards(h) PROVE ConfirmInv'
  <2>1. /\ Asl!Resolve({}, {h})
        /\ UNCHANGED <<app, pending, cache, msgs, now, on, valid, lease, live, gen, wait, refused>>
    BY <1>7 DEF StackDiscards, own, table, history
  <2>2. /\ \A g \in Handle : asl'[g] = IF g = h THEN "discarded" ELSE asl[g]
        /\ asl' \in [Handle -> Asl!Fate]
        /\ \A g \in Handle : asl'[g] = "idle" <=> g > app
    BY <1>0, <2>1, FateOfRequest
  <2>3. OneEntry' /\ EntryOfHost'
    BY <1>0, <2>1 DEF OneEntry, EntryOfHost
  <2>4. InTime'
    BY <1>0, <1>b, <2>1, <2>2 DEF InTime
  <2>5. HostHasEntry'
    <3>1. ASSUME NEW s \in Session, NEW t \in Txn, wait[s][t] # 0, wait[s][t] \notin refused
          PROVE  /\ asl'[wait[s][t]] \in {"pending", "discarded"}
                 /\ asl'[wait[s][t]] = "pending" => \E i \in DOMAIN msgs : IsEntryOf(i, s, t)
      <4>1. wait[s][t] \in Handle
        BY <1>b, <3>1
      <4>2. /\ asl[wait[s][t]] \in {"pending", "discarded"}
            /\ asl[wait[s][t]] = "pending" => \E i \in DOMAIN msgs : IsEntryOf(i, s, t)
        BY <1>0, <3>1 DEF HostHasEntry
      <4>3. QED
        BY <2>2, <4>1, <4>2
    <3>2. \A s \in Session, t \in Txn : wait[s][t] # 0 => wait[s][t] <= app
      BY <1>0 DEF HostHasEntry
    <3>3. QED
      BY <2>1, <3>1, <3>2 DEF HostHasEntry, IsEntryOf
  <2>6. Tracker!TypeOK'
    BY <1>t, <2>1 DEF Tracker!TypeOK
  <2>7. TypeOK'
    BY <1>t, <2>1, <2>2, <2>6 DEF TypeOK
  <2>8. QED
    BY <1>a, <2>1, <2>3, <2>4, <2>5, <2>7 DEF ConfirmInv, TypeInv
<1>8. ASSUME NEW s \in Session, NEW c \in Leased, CreateLease(s, c) PROVE ConfirmInv'
  <2>1. /\ UNCHANGED <<app, pending, cache, msgs, now, asl, on, valid, live, gen, wait, refused>>
        /\ lease' = [lease EXCEPT ![s] = c] /\ c \in live
    BY <1>8 DEF CreateLease, own, history
  <2>2. OneEntry' /\ EntryOfHost' /\ InTime' /\ HostHasEntry'
    BY <2>1, ElsewhereInv
  <2>3. Tracker!TypeOK'
    BY <1>t, <2>1 DEF Tracker!TypeOK
  <2>4. TypeOK'
    BY <1>t, <2>1, <2>3 DEF TypeOK
  <2>5. QED
    BY <1>a, <2>1, <2>2, <2>4 DEF ConfirmInv, TypeInv
<1>9. ASSUME NEW c \in Contract, DeleteContract(c) PROVE ConfirmInv'
  <2>1. /\ UNCHANGED <<app, pending, cache, msgs, now, asl, on, valid, gen, wait, refused>>
        /\ live' = live \ {c} /\ gen[c] < MaxGen
        /\ lease' = [s \in Session |-> IF lease[s] = c THEN NoContract ELSE lease[s]]
    BY <1>9 DEF DeleteContract, own, history
  <2>2. OneEntry' /\ EntryOfHost' /\ InTime' /\ HostHasEntry'
    BY <2>1, ElsewhereInv
  <2>3. Tracker!TypeOK'
    BY <1>t, <2>1 DEF Tracker!TypeOK
  <2>4. TypeOK'
    BY <1>t, <2>1, <2>3 DEF TypeOK
  <2>5. \A d \in Contract : d \notin live' => gen'[d] < MaxGen
    BY <1>a, <2>1
  <2>6. QED
    BY <1>a, <2>1, <2>2, <2>4, <2>5 DEF ConfirmInv, TypeInv
<1>10. ASSUME NEW c \in Contract, AddContract(c) PROVE ConfirmInv'
  <2>1. /\ UNCHANGED <<app, pending, cache, msgs, now, asl, on, valid, lease, wait, refused>>
        /\ live' = live \cup {c} /\ c \notin live
        /\ gen' = [gen EXCEPT ![c] = @ + 1]
    BY <1>10 DEF AddContract, own, history
  <2>2. OneEntry' /\ EntryOfHost' /\ InTime' /\ HostHasEntry'
    BY <2>1, ElsewhereInv
  <2>3. Tracker!TypeOK'
    BY <1>t, <2>1 DEF Tracker!TypeOK
  <2>4. gen[c] + 1 \in 1..MaxGen
    BY <1>0, <1>a, <1>t, <2>1
  <2>5. /\ gen' \in [Contract -> 1..MaxGen]
        /\ \A d \in Contract : d # c => gen'[d] = gen[d]
    BY <1>t, <2>1, <2>4
  <2>6. TypeOK'
    BY <1>t, <2>1, <2>3, <2>5 DEF TypeOK
  <2>7. \A d \in Contract : d \notin live' => gen'[d] < MaxGen
    BY <1>a, <2>1, <2>5
  <2>8. QED
    BY <1>a, <2>1, <2>2, <2>6, <2>7 DEF ConfirmInv, TypeInv
<1>11. ASSUME Tick PROVE ConfirmInv'
  <2>1. /\ UNCHANGED <<app, pending, cache, msgs, asl, on, valid, lease, live, gen, wait, refused>>
        /\ now < MaxTime /\ now' = now + 1
        /\ \A i \in DOMAIN msgs :
              asl[msgs[i].handle] = "pending" => now - msgs[i].time < StackLife
    BY <1>11 DEF Tick, Tracker!Tick, own, table, history
  <2>2. OneEntry' /\ EntryOfHost' /\ HostHasEntry'
    BY <1>0, <2>1 DEF OneEntry, EntryOfHost, HostHasEntry, IsEntryOf
  <2>3. InTime'
    BY <1>0, <1>b, <2>1 DEF InTime
  <2>4. Tracker!TypeOK'
    BY <1>0, <1>b, <2>1 DEF Tracker!TypeOK
  <2>5. TypeOK'
    BY <1>t, <2>1, <2>4 DEF TypeOK
  <2>6. QED
    BY <1>a, <2>1, <2>2, <2>3, <2>5 DEF ConfirmInv, TypeInv
<1>12. ASSUME DropExpired PROVE ConfirmInv'
  <2>1. /\ UNCHANGED <<app, pending, cache, asl, on, valid, lease, live, gen, wait, refused>>
        /\ now' = now /\ Tracker!DropExpired
    BY <1>12 DEF DropExpired, Tracker!DropExpired, own, table, history
  <2>2. PICK K \in SUBSET DOMAIN msgs :
           /\ Kept(K)
           /\ \A j \in DOMAIN msgs \ K : Tracker!Expired(msgs[j], now)
    BY <1>0, <1>b, <2>1, KeptUnexpired
  <2>3. \A j \in DOMAIN msgs \ K : asl[msgs[j].handle] # "pending"
    BY <1>0, <1>b, <2>2 DEF InTime, Tracker!Expired
  <2>4. \A i \in K : msgs[i].sess # 0 => msgs[i].sess \in valid
    BY <1>0 DEF EntryOfHost
  <2>5. ASSUME NEW s \in Session, NEW t \in Txn, wait[s][t] # 0
        PROVE  /\ wait[s][t] \notin refused =>
                     asl[wait[s][t]] \in {"pending", "discarded"}
               /\ \A i \in DOMAIN msgs \ K :
                     IsEntryOf(i, s, t) => asl[wait[s][t]] # "pending"
    BY <1>0, <2>3, <2>5 DEF HostHasEntry, IsEntryOf
  <2>6. OneEntry' /\ EntryOfHost' /\ InTime' /\ HostHasEntry'
    BY <2>1, <2>2, <2>4, <2>5, RemovalInv
  <2>7. Tracker!TypeOK'
    BY <1>b, <2>1, <2>2 DEF Kept, Tracker!TypeOK
  <2>8. TypeOK'
    BY <1>t, <2>1, <2>7 DEF TypeOK
  <2>9. QED
    BY <1>a, <2>1, <2>6, <2>8 DEF ConfirmInv, TypeInv
<1>13. ASSUME UNCHANGED vars PROVE ConfirmInv'
  <2>1. UNCHANGED <<app, pending, cache, msgs, now, asl, on, valid, lease, live, gen, wait, refused>>
    BY <1>13 DEF vars, own, table, history
  <2>2. OneEntry' /\ EntryOfHost' /\ InTime' /\ HostHasEntry'
    BY <2>1, ElsewhereInv
  <2>3. Tracker!TypeOK'
    BY <1>t, <2>1 DEF Tracker!TypeOK
  <2>4. TypeOK'
    BY <1>t, <2>1, <2>3 DEF TypeOK
  <2>5. QED
    BY <1>a, <2>1, <2>2, <2>4 DEF ConfirmInv, TypeInv
<1>14. QED
  BY <1>1, <1>2, <1>3, <1>4, <1>5, <1>6, <1>7, <1>8, <1>9, <1>10, <1>11, <1>12, <1>13
     DEF Next

\* For every size of the system the types are right: in particular handles go
\* to the stack in order and the tracker stays within its capacity ...
THEOREM CSTypeCorrect == Spec => []TypeOK
<1>1. ConfirmInv => TypeOK
  BY DEF ConfirmInv, TypeInv
<1>2. QED
  BY <1>1, InitConfirm, NextConfirm, PTL DEF Spec

\* ... and no host that waits for a request which the tracker took loses its
\* confirm: not to the expiry of the entry, not to the confirm of another
\* host, and not to the end of another session or of a lease.
THEOREM CSNoConfirmLost == Spec => []NoConfirmLost
<1>1. ConfirmInv => NoConfirmLost
  <2> SUFFICES ASSUME ConfirmInv, NEW s \in Session, NEW t \in Txn,
                      wait[s][t] # 0, wait[s][t] \notin refused
               PROVE  /\ asl[wait[s][t]] \in {"pending", "discarded"}
                      /\ asl[wait[s][t]] = "pending" =>
                           \E i \in Tracked(wait[s][t]) : msgs[i].sess = s /\ msgs[i].txn = t
    BY DEF NoConfirmLost
  <2>1. /\ asl[wait[s][t]] \in {"pending", "discarded"}
        /\ asl[wait[s][t]] = "pending" => \E i \in DOMAIN msgs : IsEntryOf(i, s, t)
    BY DEF ConfirmInv, HostHasEntry
  <2>2. msgs \in Seq(Tracker!Msg) /\ OneEntry
    BY EntryTypes DEF ConfirmInv, TypeInv
  <2>3. PICK h : h = wait[s][t]
    OBVIOUS
  <2>4. \A i \in DOMAIN msgs : msgs[i].handle = h => i \in Tracked(h)
    BY <2>2, TrackedIsEntry
  <2>5. asl[h] = "pending" => \E i \in Tracked(h) : msgs[i].sess = s /\ msgs[i].txn = t
    BY <2>1, <2>3, <2>4 DEF IsEntryOf
  <2>6. QED
    BY <2>1, <2>3, <2>5
<1>2. QED
  BY <1>1, InitConfirm, NextConfirm, PTL DEF Spec

-----------------------------------------------------------------------------
(* The pending requests and the cache.                                     *)

\* OnLeaseDelete only forgets; with the last lease on a contract it forgets all
\* that belongs to the contract.
LEMMA LeaseEnd ==
  ASSUME TypeOK, NEW s \in Session, OnLeaseDelete(s)
  PROVE  /\ \A h \in Handle : pending'[h] = pending[h] \/ pending'[h] = NoKey
         /\ \A k \in Key : cache'[k] = cache[k] \/ cache'[k] = NotCached
         /\ lease[s] \in live /\ Users(lease[s]) = {s} =>
               /\ \A h \in Handle : pending'[h] # NoKey => pending'[h][1] # lease[s]
               /\ \A k \in Key : k[1] = lease[s] => cache'[k] = NotCached
<1>1. PICK c : c = lease[s]
  OBVIOUS
<1>2. IF c \in live /\ Users(c) = {s} THEN Purge(c) ELSE UNCHANGED <<cache, pending>>
  BY <1>1 DEF OnLeaseDelete
<1>3. CASE c \in live /\ Users(c) = {s}
  <2>1. /\ cache' = [k \in Key |-> IF k[1] = c THEN NotCached ELSE cache[k]]
        /\ pending' = [h \in Handle |-> IF pending[h] # NoKey /\ pending[h][1] = c
                                        THEN NoKey ELSE pending[h]]
    BY <1>2, <1>3 DEF Purge
  <2>2. QED
    BY <1>1, <2>1
<1>4. CASE ~(c \in live /\ Users(c) = {s})
  BY <1>1, <1>2, <1>4
<1>5. QED
  BY <1>3, <1>4

\* A request keeps its key in m_mapPendingReq no longer than the stack has it.
LEMMA NextPending == ConfirmInv /\ PendingAsked /\ [Next]_vars => PendingAsked'
<1> SUFFICES ASSUME ConfirmInv, PendingAsked, [Next]_vars PROVE PendingAsked'
  OBVIOUS
<1>0. /\ TypeOK /\ pending \in [Handle -> Key \cup {NoKey}]
      /\ asl \in [Handle -> Asl!Fate]
      /\ \A h \in Handle : pending[h] # NoKey => asl[h] \in {"pending", "discarded"}
  BY DEF ConfirmInv, TypeInv, TypeOK, PendingAsked
<1>a. ASSUME asl' = asl, \A h \in Handle : pending'[h] = pending[h] \/ pending'[h] = NoKey
      PROVE  PendingAsked'
  BY <1>0, <1>a DEF PendingAsked
<1>b. ASSUME NEW k, NEW s, NEW t, SendRequestToASL(k, s, t)
      PROVE  PendingAsked'
  <2>1. /\ asl' = [asl EXCEPT ![app + 1] = "pending"]
        /\ pending' = [pending EXCEPT ![app + 1] = k]
    BY <1>b DEF SendRequestToASL, Asl!Submit
  <2>2. QED
    BY <1>0, <2>1 DEF PendingAsked
<1>1. ASSUME NEW s \in Session, DeleteLease(s) PROVE PendingAsked'
  BY <1>0, <1>1, <1>a, LeaseEnd DEF DeleteLease
<1>2. ASSUME NEW s \in Session, DeleteSession(s) PROVE PendingAsked'
  BY <1>0, <1>2, <1>a, LeaseEnd DEF DeleteSession
<1>3. ASSUME NEW s \in Session, NEW t \in Txn, NEW a \in Attr, NEW b \in BOOLEAN,
             AskDevice(s, t, a, b)
      PROVE  PendingAsked'
  <2>1. PICK c : c = lease[s]
    OBVIOUS
  <2>2. SendRequestToASL(<<c, a>>, s, t)
    BY <1>3, <2>1 DEF AskDevice
  <2>3. QED
    BY <1>b, <2>2
<1>4. ASSUME RequestContractList PROVE PendingAsked'
  BY <1>4, <1>b DEF RequestContractList
<1>5. ASSUME NEW h \in Handle, ProcessAPDU(h) PROVE PendingAsked'
  <2>1. \A g \in Handle : asl'[g] = IF g = h THEN "answered" ELSE asl[g]
    BY <1>0, <1>5, FateOfRequest DEF ProcessAPDU
  <2>2. \A g \in Handle : pending'[g] = IF g = h THEN NoKey ELSE pending[g]
    BY <1>0, <1>5 DEF ProcessAPDU
  <2>3. QED
    BY <1>0, <2>1, <2>2 DEF PendingAsked
<1>6. ASSUME NEW h \in Handle, ProcessISATimeout(h) PROVE PendingAsked'
  <2>1. \A g \in Handle : asl'[g] = IF g = h THEN "failed" ELSE asl[g]
    BY <1>0, <1>6, FateOfRequest DEF ProcessISATimeout
  <2>2. \A g \in Handle : pending'[g] = IF g = h THEN NoKey ELSE pending[g]
    BY <1>0, <1>6 DEF ProcessISATimeout
  <2>3. QED
    BY <1>0, <2>1, <2>2 DEF PendingAsked
<1>7. ASSUME NEW h \in Handle, StackDiscards(h) PROVE PendingAsked'
  <2>1. \A g \in Handle : asl'[g] = IF g = h THEN "discarded" ELSE asl[g]
    BY <1>0, <1>7, FateOfRequest DEF StackDiscards
  <2>2. pending' = pending
    BY <1>7 DEF StackDiscards, own
  <2>3. QED
    BY <1>0, <2>1, <2>2 DEF PendingAsked
<1>8. ASSUME NEW s \in Session, NEW c \in Leased, CreateLease(s, c) PROVE PendingAsked'
  BY <1>8, <1>a DEF CreateLease, own
<1>9. ASSUME NEW c \in Contract, DeleteContract(c) PROVE PendingAsked'
  BY <1>9, <1>a DEF DeleteContract, own
<1>10. ASSUME NEW c \in Contract, AddContract(c) PROVE PendingAsked'
  BY <1>10, <1>a DEF AddContract, own
<1>11. ASSUME Tick PROVE PendingAsked'
  BY <1>11, <1>a DEF Tick, own
<1>12. ASSUME DropExpired PROVE PendingAsked'
  BY <1>12, <1>a DEF DropExpired, own
<1>13. ASSUME UNCHANGED vars PROVE PendingAsked'
  BY <1>13, <1>a DEF vars, own
<1>14. QED
  BY <1>1, <1>2, <1>3, <1>4, <1>5, <1>6, <1>7, <1>8, <1>9, <1>10, <1>11, <1>12, <1>13
     DEF Next

\* Every answer and every timeout takes the key of its request out of
\* m_mapPendingReq, whatever happened to sessions, leases and contracts; only
\* a request that the stack discards in silence stays there.
THEOREM CSPendingAsked == Spec => []PendingAsked
<1>1. Init => PendingAsked
  BY DEF Init, PendingAsked
<1>2. QED
  BY <1>1, InitConfirm, NextConfirm, NextPending, PTL DEF Spec

\* A lease ends: what the service holds is still of contracts in use, because
\* the last lease on a contract takes it along.
LEMMA LeaseEndCache ==
  ASSUME TypeOK, CacheInv, NEW s \in Session, OnLeaseDelete(s),
         lease' = [lease EXCEPT ![s] = NoContract], UNCHANGED <<live, gen, on>>
  PROVE  CacheInv'
<1>1. /\ lease \in [Session -> live \cup {NoContract}]
      /\ pending \in [Handle -> Key \cup {NoKey}]
  BY DEF TypeOK
<1>2. /\ \A h \in Handle : pending'[h] = pending[h] \/ pending'[h] = NoKey
      /\ \A k \in Key : cache'[k] = cache[k] \/ cache'[k] = NotCached
      /\ lease[s] \in live /\ Users(lease[s]) = {s} =>
            /\ \A h \in Handle : pending'[h] # NoKey => pending'[h][1] # lease[s]
            /\ \A k \in Key : k[1] = lease[s] => cache'[k] = NotCached
  BY LeaseEnd
<1>3. ASSUME NEW c, InUse(c), ~(c = lease[s] /\ lease[s] \in live /\ Users(lease[s]) = {s})
      PROVE  InUse(c)'
  <2>1. CASE c = SMContract
    BY <2>1 DEF InUse
  <2>2. CASE c # SMContract
    <3>1. PICK u \in Session : lease[u] = c /\ c # NoContract
      BY <1>3, <2>2 DEF InUse
    <3>2. c \in live
      BY <1>1, <3>1
    <3>3. \E v \in Session : lease[v] = c /\ v # s
      <4>1. CASE u # s
        BY <3>1, <4>1
      <4>2. CASE u = s
        <5>1. Users(c) # {s} /\ s \in Users(c)
          BY <1>3, <3>1, <3>2, <4>2 DEF Users
        <5>2. QED
          BY <5>1 DEF Users
      <4>3. QED
        BY <4>1, <4>2
    <3>4. QED
      BY <1>1, <3>1, <3>3 DEF InUse
  <2>3. QED
    BY <2>1, <2>2
<1>4. ASSUME NEW k \in Key, cache'[k] # NotCached
      PROVE  k[1] \in live' /\ InUse(k[1])' /\ cache'[k].gen = gen'[k[1]]
  <2>1. cache'[k] = cache[k]
    BY <1>2, <1>4
  <2>2. k[1] \in live /\ InUse(k[1]) /\ cache[k].gen = gen[k[1]]
    BY <1>4, <2>1 DEF CacheInv
  <2>3. PICK c : c = k[1]
    OBVIOUS
  <2>4. InUse(c)'
    BY <1>2, <1>3, <1>4, <2>2, <2>3
  <2>5. QED
    BY <2>1, <2>2, <2>3, <2>4
<1>5. ASSUME NEW h \in Handle, pending'[h] # NoKey
      PROVE  InUse(pending[h][1])' /\ on'[h] # << >> /\ on'[h][1] = pending'[h][1]
  <2>1. pending'[h] = pending[h]
    BY <1>2, <1>5
  <2>2. InUse(pending[h][1]) /\ on[h] # << >> /\ on[h][1] = pending[h][1]
    BY <1>5, <2>1 DEF CacheInv
  <2>3. PICK c : c = pending[h][1]
    OBVIOUS
  <2>4. InUse(c) /\ c = pending'[h][1]
    BY <2>1, <2>2, <2>3
  <2>5. InUse(c)'
    BY <1>2, <1>3, <1>5, <2>4
  <2>6. QED
    BY <2>1, <2>2, <2>4, <2>5 DEF InUse
<1>6. QED
  BY <1>4, <1>5 DEF CacheInv, InUse

\* A request is sent on a contract in use.
LEMMA SendCache ==
  ASSUME TypeOK, CacheInv, NEW k \in Key, NEW s, NEW t, InUse(k[1]),
         SendRequestToASL(k, s, t), UNCHANGED <<cache, lease, live, gen>>
  PROVE  CacheInv'
<1>1. /\ pending \in [Handle -> Key \cup {NoKey}]
      /\ on \in [Handle -> (Contract \X (1..MaxGen)) \cup {<< >>}]
  BY DEF TypeOK
<1>2. PICK n : n = app + 1
  OBVIOUS
<1>3. /\ pending' = [pending EXCEPT ![n] = k]
      /\ on' = [on EXCEPT ![n] = <<k[1], gen[k[1]]>>]
  BY <1>2 DEF SendRequestToASL
<1>4. \A c : InUse(c)' <=> InUse(c)
  BY DEF InUse
<1>5. ASSUME NEW h \in Handle, pending'[h] # NoKey
      PROVE  InUse(pending[h][1])' /\ on'[h] # << >> /\ on'[h][1] = pending'[h][1]
  <2>1. CASE h = n
    <3>1. pending'[h] = k /\ on'[h] = <<k[1], gen[k[1]]>>
      BY <1>1, <1>3, <2>1
    <3>2. on'[h] # << >> /\ on'[h][1] = pending'[h][1]
      BY <3>1
    <3>3. QED
      BY <3>1, <3>2 DEF InUse
  <2>2. CASE h # n
    <3>1. pending'[h] = pending[h] /\ on'[h] = on[h]
      BY <1>1, <1>3, <2>2
    <3>2. InUse(pending[h][1]) /\ on[h] # << >> /\ on[h][1] = pending[h][1]
      BY <1>5, <3>1 DEF CacheInv
    <3>3. QED
      BY <3>1, <3>2 DEF InUse
  <2>3. QED
    BY <2>1, <2>2
<1>6. QED
  BY <1>4, <1>5 DEF CacheInv, InUse

\* At the start nothing is cached or pending.
LEMMA InitCache == Init => CacheInv
  BY ParametersOK DEF Init, CacheInv

\* Every step keeps the cache to the present incarnations of contracts in use,
\* as long as a contract in use is not deleted.
LEMMA NextCache ==
  ASSUME ~Revokes
  PROVE  ConfirmInv /\ CacheInv /\ [Next]_vars => CacheInv'
<1> SUFFICES ASSUME ConfirmInv, CacheInv, [Next]_vars PROVE CacheInv'
  OBVIOUS
<1>0. TypeOK
  BY DEF ConfirmInv, TypeInv
<1>t. /\ pending \in [Handle -> Key \cup {NoKey}]
      /\ cache \in [Key -> [rx : 0..MaxTime, gen : 1..MaxGen] \cup {NotCached}]
      /\ lease \in [Session -> live \cup {NoContract}]
      /\ live \subseteq Contract /\ gen \in [Contract -> 1..MaxGen]
  BY <1>0 DEF TypeOK
<1>a. ASSUME UNCHANGED <<cache, pending, on, lease, live, gen>> PROVE CacheInv'
  BY <1>a DEF CacheInv, InUse
<1>1. ASSUME NEW s \in Session, DeleteLease(s) PROVE CacheInv'
  <2>1. /\ OnLeaseDelete(s) /\ lease' = [lease EXCEPT ![s] = NoContract]
        /\ UNCHANGED <<live, gen, on>>
    BY <1>1 DEF DeleteLease
  <2>2. QED
    BY <1>0, <2>1, LeaseEndCache
<1>2. ASSUME NEW s \in Session, DeleteSession(s) PROVE CacheInv'
  <2>1. /\ OnLeaseDelete(s) /\ lease' = [lease EXCEPT ![s] = NoContract]
        /\ UNCHANGED <<live, gen, on>>
    BY <1>2 DEF DeleteSession
  <2>2. QED
    BY <1>0, <2>1, LeaseEndCache
<1>3. ASSUME NEW s \in Session, NEW t \in Txn, NEW a \in Attr, NEW b \in BOOLEAN,
             AskDevice(s, t, a, b)
      PROVE  CacheInv'
  <2>1. PICK c : c = lease[s]
    OBVIOUS
  <2>2. PICK k : k = <<c, a>>
    OBVIOUS
  <2>3. /\ c # NoContract /\ SendRequestToASL(k, s, t)
        /\ UNCHANGED <<cache, lease, live, gen>>
    BY <1>3, <2>1, <2>2 DEF AskDevice, table
  <2>4. k[1] = c /\ k \in Key /\ InUse(k[1])
    BY <1>t, <2>1, <2>2, <2>3 DEF Key, InUse
  <2>5. QED
    BY <1>0, <2>3, <2>4, SendCache
<1>4. ASSUME RequestContractList PROVE CacheInv'
  <2>1. PICK k : k = ListKey
    OBVIOUS
  <2>2. SendRequestToASL(k, 0, 0) /\ UNCHANGED <<cache, lease, live, gen>>
    BY <1>4, <2>1 DEF RequestContractList, table
  <2>3. k \in Key /\ InUse(k[1])
    BY <2>1, ParametersOK DEF ListKey, Key, InUse
  <2>4. QED
    BY <1>0, <2>2, <2>3, SendCache
<1>5. ASSUME NEW h \in Handle, ProcessAPDU(h) PROVE CacheInv'
  <2>1. CASE pending[h] = NoKey
    BY <1>5, <1>a, <2>1 DEF ProcessAPDU, table
  <2>2. CASE pending[h] # NoKey
    <3>1. PICK k : k = pending[h]
      OBVIOUS
    <3>2. PICK e : e = [rx |-> now, gen |-> on[h][2]]
      OBVIOUS
    <3>3. /\ on[h][1] \in live /\ on[h][2] = gen[on[h][1]]
          /\ cache' = [cache EXCEPT ![k] = e]
          /\ pending' = [pending EXCEPT ![h] = NoKey]
          /\ UNCHANGED <<on, lease, live, gen>>
      BY <1>5, <2>2, <3>1, <3>2 DEF ProcessAPDU, table
    <3>4. InUse(k[1]) /\ on[h][1] = k[1]
      BY <2>2, <3>1 DEF CacheInv
    <3>5. k \in Key /\ k[1] \in live /\ e.gen = gen[k[1]]
      BY <1>t, <2>2, <3>1, <3>2, <3>3, <3>4
    <3>6. ASSUME NEW j \in Key, cache'[j] # NotCached
          PROVE  j[1] \in live /\ InUse(j[1]) /\ cache'[j].gen = gen[j[1]]
      <4>1. CASE j = k
        BY <1>t, <3>3, <3>4, <3>5, <4>1
      <4>2. CASE j # k
        <5>1. cache'[j] = cache[j]
          BY <1>t, <3>3, <4>2
        <5>2. QED
          BY <3>6, <5>1 DEF CacheInv
      <4>3. QED
        BY <4>1, <4>2
    <3>7. \A g \in Handle : pending'[g] # NoKey => pending'[g] = pending[g]
      BY <1>t, <3>3
    <3>8. ASSUME NEW g \in Handle, pending'[g] # NoKey
          PROVE  InUse(pending'[g][1]) /\ on[g] # << >> /\ on[g][1] = pending'[g][1]
      BY <3>7, <3>8 DEF CacheInv
    <3>9. SMContract \in live
      BY DEF CacheInv
    <3>10. QED
      BY <3>3, <3>6, <3>8, <3>9 DEF CacheInv, InUse
  <2>3. QED
    BY <2>1, <2>2
<1>6. ASSUME NEW h \in Handle, ProcessISATimeout(h) PROVE CacheInv'
  <2>1. /\ UNCHANGED <<cache, on, lease, live, gen>>
        /\ pending' = [pending EXCEPT ![h] = NoKey]
    BY <1>6 DEF ProcessISATimeout, table
  <2>2. \A g \in Handle : pending'[g] # NoKey => pending'[g] = pending[g]
    BY <1>t, <2>1
  <2>3. QED
    BY <2>1, <2>2 DEF CacheInv, InUse
<1>7. ASSUME NEW h \in Handle, StackDiscards(h) PROVE CacheInv'
  BY <1>7, <1>a DEF StackDiscards, own, table
<1>8. ASSUME NEW s \in Session, NEW c \in Leased, CreateLease(s, c) PROVE CacheInv'
  <2>1. /\ UNCHANGED <<cache, pending, on, live, gen>>
        /\ lease[s] = NoContract /\ lease' = [lease EXCEPT ![s] = c]
    BY <1>8 DEF CreateLease, own
  <2>2. ASSUME NEW d, InUse(d) PROVE InUse(d)'
    BY <1>t, <2>1, <2>2 DEF InUse
  <2>3. \A h \in Handle : pending[h] # NoKey => InUse(pending[h][1])'
    <3>1. ASSUME NEW h \in Handle, pending[h] # NoKey PROVE InUse(pending[h][1])'
      <4>1. PICK d : d = pending[h][1]
        OBVIOUS
      <4>2. InUse(d)
        BY <3>1, <4>1 DEF CacheInv
      <4>3. InUse(d)'
        BY <2>2, <4>2
      <4>4. QED
        BY <2>1, <4>1, <4>3 DEF InUse
    <3>2. QED
      BY <3>1
  <2>4. \A k \in Key : cache[k] # NotCached => InUse(k[1])'
    BY <2>2 DEF CacheInv
  <2>5. QED
    BY <2>1, <2>3, <2>4 DEF CacheInv, InUse
<1>9. ASSUME NEW c \in Contract, DeleteContract(c) PROVE CacheInv'
  <2>1. /\ UNCHANGED <<cache, pending, on, gen>> /\ live' = live \ {c}
        /\ c # SMContract /\ Users(c) = {}
        /\ lease' = [s \in Session |-> IF lease[s] = c THEN NoContract ELSE lease[s]]
    BY <1>9 DEF DeleteContract, own
  <2>2. ~InUse(c) /\ \A s \in Session : lease[s] # c
    BY <2>1 DEF InUse, Users
  <2>3. \A s \in Session : lease'[s] = lease[s]
    BY <2>1, <2>2
  <2>4. \A k \in Key : cache[k] # NotCached => k[1] \in live \ {c}
    BY <2>2 DEF CacheInv
  <2>5. QED
    BY <2>1, <2>3, <2>4 DEF CacheInv, InUse
<1>10. ASSUME NEW c \in Contract, AddContract(c) PROVE CacheInv'
  <2>1. /\ UNCHANGED <<cache, pending, on, lease>> /\ live' = live \cup {c}
        /\ c \notin live /\ gen' = [gen EXCEPT ![c] = @ + 1]
    BY <1>10 DEF AddContract, own
  <2>2. \A d \in live : gen'[d] = gen[d] /\ d \in live'
    BY <1>t, <2>1
  <2>3. QED
    BY <2>1, <2>2 DEF CacheInv, InUse
<1>11. ASSUME Tick PROVE CacheInv'
  BY <1>11, <1>a DEF Tick, own, table
<1>12. ASSUME DropExpired PROVE CacheInv'
  BY <1>12, <1>a DEF DropExpired, own, table
<1>13. ASSUME UNCHANGED vars PROVE CacheInv'
  BY <1>13, <1>a DEF vars, own, table
<1>14. QED
  BY <1>1, <1>2, <1>3, <1>4, <1>5, <1>6, <1>7, <1>8, <1>9, <1>10, <1>11, <1>12, <1>13
     DEF Next

\* When contracts are deleted only after their leases, what a host is answered
\* from the cache is data of the contract that its lease is on, never of an
\* earlier contract with the same id, however leases, sessions, late answers
\* and contract ids come and go.
THEOREM CSCacheOwn ==
  ASSUME ~Revokes
  PROVE  Spec => []CacheOwn
<1>1. ConfirmInv /\ CacheInv => CacheOwn
  <2> SUFFICES ASSUME ConfirmInv, CacheInv, NEW s \in Session, NEW a \in Attr,
                      FromCache(s, a)
               PROVE  cache[<<lease[s], a>>].gen = gen[lease[s]]
    BY DEF CacheOwn
  <2>1. lease \in [Session -> live \cup {NoContract}] /\ live \subseteq Contract
    BY DEF ConfirmInv, TypeInv, TypeOK
  <2>2. PICK k : k = <<lease[s], a>>
    OBVIOUS
  <2>3. k \in Key /\ k[1] = lease[s] /\ cache[k] # NotCached
    BY <2>1, <2>2 DEF FromCache, IsValid, Key
  <2>4. cache[k].gen = gen[lease[s]]
    BY <2>3 DEF CacheInv
  <2>5. QED
    BY <2>2, <2>4
<1>2. ConfirmInv /\ CacheInv /\ [Next]_vars => CacheInv'
  BY NextCache
<1>3. QED
  BY <1>1, <1>2, InitConfirm, InitCache, NextConfirm, PTL DEF Spec
=============================================================================
