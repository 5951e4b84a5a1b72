----------------------------- MODULE MsgTracker -----------------------------
(***************************************************************************)
(* CMsgTracker (AccessNode/IsaGw/Gateway/MsgTracker.{h,cpp}): the array    *)
(* that matches the application handle of a request sent on the ISA100     *)
(* stack with the (session, transaction) pair of the host that asked for   *)
(* it.                                                                     *)
(*                                                                         *)
(* m_MessageList/m_NrOfMessages is the sequence msgs, m_Time the field     *)
(* time; the fields m_ServiceType, m_Data and m_oCreat are only carried    *)
(* along and are left out.  The array holds at most Capacity entries       *)
(* (2*PROCESS_QUEUE_SIZE) and an entry expires MaxAge seconds (m_MaxAge)   *)
(* after it was added or renewed.                                          *)
(***************************************************************************)
EXTENDS Integers, Sequences

CONSTANTS Handle,       \* application handles (uint16)
          Session,      \* session ids
          Txn,          \* host transaction ids
          Capacity,     \* sizeof(m_MessageList)/sizeof(*m_MessageList)
          MaxAge,       \* m_MaxAge
          MaxTime       \* bound of the model: the clock stops here

ASSUME CapacityAssumption == Capacity \in Nat \ {0}
ASSUME AgeAssumption == MaxAge \in Nat /\ MaxTime \in Nat

VARIABLES msgs,         \* the tracked messages, oldest first
          now           \* time(NULL)

vars == <<msgs, now>>

Msg == [handle : Handle, sess : Session, txn : Txn, time : 0..MaxTime]

TypeOK == /\ msgs \in Seq(Msg)
          /\ Len(msgs) <= Capacity
          /\ now \in 0..MaxTime

-----------------------------------------------------------------------------
(* The array operations.                                                   *)

Full(l) == Len(l) >= Capacity

\* memmove(m_MessageList+i, m_MessageList+i+1, ...): close the gap left by i
Without(l, i) == [j \in 1..(Len(l) - 1) |-> IF j < i THEN l[j] ELSE l[j + 1]]

\* The first entry satisfying a search condition, as every loop of the class
\* finds it: I is the set of matching positions
First(I) == {i \in I : \A j \in I : i <= j}

OfHandle(l, h) == {i \in DOMAIN l : l[i].handle = h}
OfTxn(l, s, t) == {i \in DOMAIN l : l[i].sess = s /\ l[i].txn = t}

Expired(m, t) == m.time < t - MaxAge

\* Mutant of Added: no test for a full array
AddedUnbounded(l, h, s, t, tm) ==
  Append(l, [handle |-> h, sess |-> s, txn |-> t, time |-> tm])

\* The list after AddMessage, which refuses a message when the array is full
Added(l, h, s, t, tm) ==
  IF Full(l) THEN l
  ELSE Append(l, [handle |-> h, sess |-> s, txn |-> t, time |-> tm])

\* Mutant of Renewed: the entry gets a fresh time but keeps its place
RenewedInPlace(l, i, h, tm) == [l EXCEPT ![i].handle = h, ![i].time = tm]

\* The list after RenewMessage of entry i: when the array is full only the
\* handle changes; otherwise the entry moves to the end with a fresh time
Renewed(l, i, h, tm) ==
  IF Full(l) THEN [l EXCEPT ![i].handle = h]
  ELSE Append(Without(l, i), [l[i] EXCEPT !.handle = h, !.time = tm])

\* The order-preserving enumerations of the positions K that a deletion keeps
KeptOrder(l, K) ==
  UNION {{f \in [1..n -> K] : /\ \A a, b \in 1..n : a < b => f[a] < f[b]
                              /\ \A i \in K : \E a \in 1..n : f[a] = i}
           : n \in 0..Len(l)}

\* Mutant of DropCount: the scan runs one entry too far
DropCountOneMore(l, t) ==
  {i \in 0..Len(l) : /\ \A j \in 1..(i - 1) : Expired(l[j], t)
                     /\ i < Len(l) => ~Expired(l[i + 1], t)}

\* The number of entries DropExpired removes: it stops at the first one that
\* is not expired, "The list is time ordered"
DropCount(l, t) ==
  {i \in 0..Len(l) : /\ \A j \in 1..i : Expired(l[j], t)
                     /\ i < Len(l) => ~Expired(l[i + 1], t)}

-----------------------------------------------------------------------------
(* The operations.                                                         *)

Init == msgs = <<>> /\ now = 0

AddMessage(h, s, t) ==
  /\ msgs' = Added(msgs, h, s, t, now)
  /\ UNCHANGED now

\* RemoveMessage( p_unAppHandle )
RemoveHandle(h) ==
  /\ \E i \in First(OfHandle(msgs, h)) : msgs' = Without(msgs, i)
  /\ UNCHANGED now

\* RemoveMessage( p_nSessionID, p_dwTransactionID )
RemoveTxn(s, t) ==
  /\ \E i \in First(OfTxn(msgs, s, t)) : msgs' = Without(msgs, i)
  /\ UNCHANGED now

\* RenewMessage( p_unAppHandleOld, p_unAppHandleNew )
RenewMessage(h, h2) ==
  /\ \E i \in First(OfHandle(msgs, h)) : msgs' = Renewed(msgs, i, h2, now)
  /\ UNCHANGED now

DropExpired ==
  /\ \E i \in DropCount(msgs, now) : msgs' = SubSeq(msgs, i + 1, Len(msgs))
  /\ UNCHANGED now

\* Removing the first match until there is none removes every match
ProcessSessionDelete(s) ==
  /\ \E f \in KeptOrder(msgs, {i \in DOMAIN msgs : msgs[i].sess # s}) :
        msgs' = [a \in DOMAIN f |-> msgs[f[a]]]
  /\ UNCHANGED now

Tick == now < MaxTime /\ now' = now + 1 /\ UNCHANGED msgs

Next == \/ \E h \in Handle, s \in Session, t \in Txn : AddMessage(h, s, t)
        \/ \E h \in Handle : RemoveHandle(h)
        \/ \E s \in Session, t \in Txn : RemoveTxn(s, t)
        \/ \E h, h2 \in Handle : RenewMessage(h, h2)
        \/ DropExpired
        \/ \E s \in Session : ProcessSessionDelete(s)
        \/ Tick

Spec == Init /\ [][Next]_vars

-----------------------------------------------------------------------------
(* Properties.                                                             *)

\* "chronologically sorted array of unanswered messages" (MsgTracker.h:81):
\* renewal, removal from the middle and the partial renewal of a full array
\* all keep the entries in time order, and none is from the future.
TimeOrdered ==
  /\ \A i, j \in DOMAIN msgs : i <= j => msgs[i].time <= msgs[j].time
  /\ \A i \in DOMAIN msgs : msgs[i].time <= now

\* DropExpired stops at the first entry that is not expired; because the array
\* is in time order it nevertheless leaves no expired entry behind, and it
\* removes no entry that is not expired.
DropsExactlyExpired ==
  [][DropExpired =>
       /\ \A i \in DOMAIN msgs' : ~Expired(msgs'[i], now)
       /\ \A i \in DOMAIN msgs : ~Expired(msgs[i], now) =>
             \E j \in DOMAIN msgs' : msgs'[j] = msgs[i]]_vars
=============================================================================
