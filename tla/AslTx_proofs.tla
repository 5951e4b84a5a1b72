---------------------------- MODULE AslTx_proofs ----------------------------
(***************************************************************************)
(* The transmit queue of the application sub-layer, for any contracts,     *)
(* messages, windows and timeouts: it tells the application of a message   *)
(* at most once and implements AslService; the window of a contract counts *)
(* its outstanding requests, and one closed by a timeout is opened again   *)
(* by one of them, which needs hypotheses about the constants that are     *)
(* named; and a request is given its own answer or one that its id cannot  *)
(* tell from its own.                                                      *)
(***************************************************************************)
EXTENDS AslTx, FiniteSetTheorems, WellFoundedInduction, TLAPS

\* What never changes in a queued message.
Same(m, n) ==
  /\ n.c = m.c /\ n.gen = m.gen /\ n.req = m.req /\ n.kind = m.kind
  /\ n.prio = m.prio /\ n.fits = m.fits

ReadyStates == {"ready", "readyNoFC"}

-----------------------------------------------------------------------------
(* Facts about the operators.                                              *)

LEMMA HandleNat == Handle \subseteq Nat \ {0} /\ \A h \in Handle : h \in Int /\ h <= MaxMsg
BY ConstantsOK DEF Handle

\* A set of handles is finite.
LEMMA HandlesFinite ==
  ASSUME NEW S \in SUBSET Handle
  PROVE  IsFiniteSet(S) /\ Cardinality(S) \in Nat
<1>1. IsFiniteSet(Handle)
  BY FS_Interval, ConstantsOK DEF Handle
<1>2. QED
  BY <1>1, FS_Subset, FS_CardinalityType

\* The pass over the queue goes on with a later queued message or ends.
LEMMA AfterLater ==
  ASSUME NEW h \in Nat
  PROVE  After(h) = 0 \/ (After(h) \in Queued /\ After(h) > h)
<1> DEFINE later == {k \in Queued : k > h}
<1>1. CASE later = {}
  BY <1>1 DEF After
<1>2. CASE later # {}
  <2> DEFINE R == {ss \in Nat \X Nat : ss[1] < ss[2]}
  <2>1. IsWellFoundedOn(R, Nat)
    BY NatLessThanWellFounded, Zenon DEF OpToRel
  <2>2. later \subseteq Nat
    BY HandleNat DEF Queued
  <2> HIDE DEF later
  <2>3. PICK x \in later : \A y \in later : ~ (<<y, x>> \in R)
    <3> HIDE DEF R
    <3>1. QED
      BY <1>2, <2>1, <2>2, WFMin
  <2>4. \A y \in later : x <= y
    <3>1. \A y \in later : ~ (y < x)
      BY <2>2, <2>3
    <3>2. QED
      BY <2>2, <3>1
  <2>5. (CHOOSE k \in later : \A j \in later : k <= j) \in later
    BY <2>4
  <2>6. After(h) \in later
    BY <1>2, <2>5 DEF After, later
  <2>7. QED
    BY <2>6 DEF later
<1>3. QED
  BY <1>1, <1>2

LEMMA StatusNotNone == Status \ {"none"} =
  {"ready", "readyNoFC", "waitTL", "waitRsp", "confirmed", "clear"}
BY DEF Status

\* The type of a queued message, field by field.
LEMMA MessageType ==
  ASSUME NEW m \in Message
  PROVE  /\ m.st \in Status /\ m.st # "none" /\ m.c \in Contract /\ m.gen \in Nat
         /\ m.req \in Nat /\ m.kind \in {"req", "norsp"} /\ m.prio \in Nat
         /\ m.fits \in BOOLEAN /\ m.timeout \in Nat /\ m.def \in Nat
         /\ m.retry \in Nat /\ m.life \in Nat /\ m.inWnd \in BOOLEAN
         /\ m # NoMsg
BY DEF Message, NoMsg

LEMMA NoMsgNotMessage == NoMsg \notin Message /\ NoMsg.st = "none"
BY DEF Message, NoMsg

\* A message that only changes its state.
LEMMA NewState ==
  ASSUME NEW m \in Message, NEW s \in Status \ {"none"}
  PROVE  /\ [m EXCEPT !.st = s] \in Message
         /\ Same(m, [m EXCEPT !.st = s])
         /\ [m EXCEPT !.st = s].st = s
         /\ [m EXCEPT !.st = s].inWnd = m.inWnd
BY DEF Message, Same

\* The records of contracts, field by field.
LEMMA RecordType ==
  ASSUME NEW w \in ContractRecord
  PROVE  /\ w.live \in BOOLEAN /\ w.gen \in Nat /\ w.req \in Nat /\ w.crt \in Nat
         /\ w.inUse \in Nat /\ w.succ \in Nat
BY DEF ContractRecord

LEMMA FreshType ==
  ASSUME NEW g \in Nat, NEW r \in Nat
  PROVE  Fresh(g, r) \in ContractRecord
BY DEF Fresh, ContractRecord

\* Clipping a window changes its size only, and does not close it.
LEMMA ClippedIs ==
  ASSUME NEW w \in ContractRecord
  PROVE  /\ Clipped(w) \in ContractRecord
         /\ Clipped(w).live = w.live /\ Clipped(w).gen = w.gen /\ Clipped(w).req = w.req
         /\ Clipped(w).inUse = w.inUse
         /\ Clipped(w).crt = 0 <=> w.crt = 0
<1>1. Window \in Nat \ {0}
  BY ConstantsOK
<1>2. Smaller(w.crt, Window) \in Nat /\ (Smaller(w.crt, Window) = 0 <=> w.crt = 0)
  BY <1>1, RecordType DEF Smaller
<1>3. QED
  BY <1>2 DEF Clipped, ContractRecord

\* The end of a request frees one place; a closed window is opened by the last one.
LEMMA ResponseIs ==
  ASSUME NEW c \in Contract, NEW w \in ContractRecord
  PROVE  LET x == ReceiveResponseForSlidingWindow(c, w) IN
         /\ x \in ContractRecord
         /\ x.live = w.live /\ x.gen = w.gen /\ x.req = w.req
         /\ c \in Aperiodic => /\ x.inUse = IF w.inUse > 0 THEN w.inUse - 1 ELSE 0
                               /\ x.crt = 0 => w.crt = 0 /\ x.inUse > 0
<1>1. w.crt \in Nat /\ w.inUse \in Nat /\ w.succ \in Nat
  BY RecordType
<1> DEFINE used == IF w.inUse > 0 THEN w.inUse - 1 ELSE 0
           succ == IF w.crt > 0 THEN w.succ + 1 ELSE w.succ
           crt  == IF used = 0 /\ w.crt = 0 THEN 1 ELSE w.crt
           x    == ReceiveResponseForSlidingWindow(c, w)
<1>2. used \in Nat /\ succ \in Nat /\ crt \in Nat /\ (crt = 0 => w.crt = 0 /\ used > 0)
      /\ crt + 1 \in Nat /\ crt + 1 # 0
  BY <1>1
<1>3. x = IF c \notin Aperiodic THEN w
          ELSE IF succ > crt
               THEN [w EXCEPT !.inUse = used, !.crt = crt + 1, !.succ = 0]
               ELSE [w EXCEPT !.inUse = used, !.crt = crt, !.succ = succ]
  BY DEF ReceiveResponseForSlidingWindow
<1>4. used = IF w.inUse > 0 THEN w.inUse - 1 ELSE 0
  OBVIOUS
<1> HIDE DEF used, succ, crt
<1>5. x \in ContractRecord /\ x.live = w.live /\ x.gen = w.gen /\ x.req = w.req
  <2> HIDE DEF x
  <2>1. CASE c \notin Aperiodic
    BY <1>3, <2>1
  <2>2. CASE c \in Aperiodic /\ succ > crt
    <3>1. x = [w EXCEPT !.inUse = used, !.crt = crt + 1, !.succ = 0]
      BY <1>3, <2>2
    <3>2. QED
      BY <1>2, <3>1 DEF ContractRecord
  <2>3. CASE c \in Aperiodic /\ ~ (succ > crt)
    <3>1. x = [w EXCEPT !.inUse = used, !.crt = crt, !.succ = succ]
      BY <1>3, <2>3
    <3>2. QED
      BY <1>2, <3>1 DEF ContractRecord
  <2>4. QED
    BY <2>1, <2>2, <2>3
<1>6. ASSUME c \in Aperiodic PROVE x.inUse = used /\ (x.crt = 0 => w.crt = 0 /\ x.inUse > 0)
  BY <1>2, <1>3, <1>6 DEF ContractRecord
<1> HIDE DEF x
<1>7. QED
  BY <1>4, <1>5, <1>6 DEF x

\* A timeout closes the window.
LEMMA TimeoutIs ==
  ASSUME NEW c \in Contract, NEW w \in ContractRecord
  PROVE  LET x == ReceiveTimeoutForSlidingWindow(c, w) IN
         /\ x \in ContractRecord
         /\ x.live = w.live /\ x.gen = w.gen /\ x.req = w.req /\ x.inUse = w.inUse
BY DEF ReceiveTimeoutForSlidingWindow, ContractRecord

-----------------------------------------------------------------------------
(* What the steps do to the queue.                                         *)

\* Messages before the end of the queue and after it.
LEMMA QueueType ==
  ASSUME TypeOK, NEW h \in Handle
  PROVE  /\ h <= added => msg[h] \in Message /\ msg[h].st # "none"
         /\ h > added => msg[h] = NoMsg
         /\ h \in Queued <=> h <= added /\ msg[h].st # "clear"
         /\ msg[h].st # "none" <=> h <= added
<1>1. h \in Int /\ added \in Int
  BY HandleNat, ConstantsOK DEF TypeOK
<1>2. h <= added => msg[h] \in Message
  BY DEF TypeOK
<1>3. h > added => msg[h] = NoMsg
  BY <1>1 DEF TypeOK
<1>4. QED
  BY <1>1, <1>2, <1>3, MessageType, NoMsgNotMessage DEF Queued

\* The confirm of the last packet ends messages that expect no response.
LEMMA ConfirmedIs ==
  ASSUME TypeOK, NEW h \in Handle
  PROVE  LET n == Confirmed[h] IN
         /\ h > added => n = NoMsg /\ n.st = "none"
         /\ h <= added => /\ n \in Message /\ Same(msg[h], n) /\ n.inWnd = msg[h].inWnd
                          /\ \/ n.st = msg[h].st
                             \/ msg[h].st = "waitTL" /\ n.st = "clear"
                             \/ msg[h].st = "waitRsp" /\ n.st = "confirmed"
         /\ n.st \in ReadyStates <=> msg[h].st \in ReadyStates
         /\ msg[h].st \in ReadyStates => n = msg[h]
<1> DEFINE n == Confirmed[h]
<1>0. h \in Int /\ added \in Int
  BY HandleNat, ConstantsOK DEF TypeOK
<1>1. n = IF h \in conf.pkt /\ msg[h].st \in {"waitTL", "waitRsp"}
          THEN IF conf.ok
               THEN [msg[h] EXCEPT !.st = IF msg[h].st = "waitTL" THEN "clear" ELSE "confirmed"]
               ELSE [msg[h] EXCEPT !.timeout = FailTimeout]
          ELSE msg[h]
  BY DEF Confirmed
<1>2. CASE h > added
  <2>1. msg[h] = NoMsg /\ msg[h].st = "none"
    BY <1>2, QueueType, NoMsgNotMessage
  <2>2. n = NoMsg
    BY <1>1, <2>1
  <2>3. QED
    BY <1>0, <1>2, <2>1, <2>2 DEF ReadyStates
<1>3. CASE h <= added
  <2>0. msg[h] \in Message
    BY <1>3, QueueType
  <2>1. CASE ~ (h \in conf.pkt /\ msg[h].st \in {"waitTL", "waitRsp"})
    <3>1. n = msg[h]
      BY <1>1, <2>1
    <3>2. QED
      BY <1>0, <1>3, <2>0, <3>1 DEF Same
  <2>2. CASE h \in conf.pkt /\ msg[h].st \in {"waitTL", "waitRsp"} /\ conf.ok
    <3>1. PICK s \in {"clear", "confirmed"} :
               s = IF msg[h].st = "waitTL" THEN "clear" ELSE "confirmed"
      OBVIOUS
    <3>2. n = [msg[h] EXCEPT !.st = s] /\ s \in Status \ {"none"}
      BY <1>1, <2>2, <3>1 DEF Status
    <3>3. n \in Message /\ Same(msg[h], n) /\ n.st = s /\ n.inWnd = msg[h].inWnd
      BY <2>0, <3>2, NewState
    <3>4. QED
      BY <1>0, <1>3, <2>2, <3>1, <3>3 DEF ReadyStates
  <2>3. CASE h \in conf.pkt /\ msg[h].st \in {"waitTL", "waitRsp"} /\ ~conf.ok
    <3>1. n = [msg[h] EXCEPT !.timeout = FailTimeout] /\ FailTimeout \in Nat
      BY <1>1, <2>3, ConstantsOK
    <3>2. n \in Message /\ Same(msg[h], n) /\ n.st = msg[h].st /\ n.inWnd = msg[h].inWnd
      BY <2>0, <3>1 DEF Message, Same
    <3>3. QED
      BY <1>0, <1>3, <2>3, <3>2 DEF ReadyStates
  <2>4. QED
    BY <2>1, <2>2, <2>3
<1>4. QED
  BY <1>0, <1>2, <1>3

\* The requests of S that take a place in the window of d.
Sent(S, d) == {h \in S : msg[h].st = "ready" /\ msg[h].c = d}

\* One turn of ASLDE_ASLTask in one formula: the messages of V, which fit into no
\* packet, and those without a contract are given up, and those of S are sent.
TaskStep(D, S, V) ==
  LET q == Confirmed
      O == Orphaned(q, D)
  IN
  /\ O \subseteq Ready(q) /\ V \subseteq Ready(q) /\ S \subseteq Ready(q) \ (O \cup V)
  /\ \A h \in V : ~msg[h].fits
  /\ \A h \in S : msg[h].fits /\ \E f \in Highest(q, D) : msg[f].c = msg[h].c
  /\ msg' = [h \in Handle |->
               IF h \in O \cup V THEN [q[h] EXCEPT !.st = "clear"]
               ELSE IF h \in S
               THEN [q[h] EXCEPT !.st = IF q[h].kind = "req" THEN "waitRsp" ELSE "waitTL",
                                 !.inWnd = @ \/ q[h].st = "ready"]
               ELSE q[h]]
  /\ contract' = [d \in Contract |-> contract'[d]]
  /\ \A d \in Contract :
       /\ contract'[d] \in ContractRecord
       /\ contract'[d].live = contract[d].live /\ contract'[d].gen = contract[d].gen
       /\ contract'[d].req = contract[d].req
       /\ contract'[d].crt = 0 <=> contract[d].crt = 0
       /\ d \in Aperiodic => contract'[d].inUse = contract[d].inUse + Cardinality(Sent(S, d))
  /\ told' = Notified(O)
  /\ conf' \in [pkt : SUBSET Handle, ok : BOOLEAN]
  /\ sent \subseteq sent' /\ sent' \subseteq sent \cup {h \in S : msg[h].kind = "req"}
  /\ UNCHANGED <<added, cursor>>

\* The messages that are ready to be sent.
LEMMA ReadyIs ==
  ASSUME TypeOK
  PROVE  /\ Ready(Confirmed) = {h \in Handle : msg[h].st \in ReadyStates}
         /\ \A h \in Ready(Confirmed) :
              /\ h <= added /\ h \in Queued /\ msg[h] \in Message /\ Confirmed[h] = msg[h]
<1>1. \A h \in Handle : h \in Ready(Confirmed) <=> msg[h].st \in ReadyStates
  BY ConfirmedIs DEF Ready, ReadyStates
<1>2. Ready(Confirmed) = {h \in Handle : msg[h].st \in ReadyStates}
  BY <1>1 DEF Ready
<1>3. ASSUME NEW h \in Ready(Confirmed)
      PROVE  h <= added /\ h \in Queued /\ msg[h] \in Message /\ Confirmed[h] = msg[h]
  <2>1. h \in Handle /\ msg[h].st \in ReadyStates
    BY <1>1 DEF Ready
  <2>2. h <= added
    BY <2>1, QueueType DEF ReadyStates
  <2>3. QED
    BY <2>1, <2>2, QueueType, ConfirmedIs DEF ReadyStates
<1>4. QED
  BY <1>2, <1>3

LEMMA FlushNothingIs ==
  ASSUME TypeOK, NEW D \in SUBSET Ready(Confirmed), FlushNothing(D), UNCHANGED <<added, cursor>>
  PROVE  TaskStep(D, {}, {})
<1> DEFINE q == Confirmed
           O == Orphaned(q, D)
<1>1. O \subseteq Ready(q)
  BY DEF Orphaned, Examined
<1>2. /\ msg' = [h \in Handle |-> IF h \in O THEN [q[h] EXCEPT !.st = "clear"] ELSE q[h]]
      /\ contract' = [c \in Contract |-> IF Examines(q, D, c)
                                         THEN Clipped(contract[c]) ELSE contract[c]]
      /\ told' = Notified(O) /\ conf' = NoConf /\ sent' = sent
  BY DEF FlushNothing
<1>3. conf' \in [pkt : SUBSET Handle, ok : BOOLEAN]
  BY <1>2 DEF NoConf
<1>4. ASSUME NEW d \in Contract
      PROVE  /\ contract'[d] \in ContractRecord
             /\ contract'[d].live = contract[d].live /\ contract'[d].gen = contract[d].gen
             /\ contract'[d].req = contract[d].req
             /\ contract'[d].crt = 0 <=> contract[d].crt = 0
             /\ contract'[d].inUse = contract[d].inUse + Cardinality(Sent({}, d))
  <2>1. contract[d] \in ContractRecord
    BY DEF TypeOK
  <2>2. Sent({}, d) = {}
    BY DEF Sent
  <2>3. Cardinality(Sent({}, d)) = 0 /\ contract[d].inUse \in Nat
    BY <2>1, <2>2, FS_EmptySet, RecordType
  <2>4. contract'[d] = contract[d] \/ contract'[d] = Clipped(contract[d])
    BY <1>2
  <2>5. QED
    BY <2>1, <2>3, <2>4, ClippedIs
<1>5. contract' = [d \in Contract |-> contract'[d]]
  BY <1>2
<1> HIDE DEF q, O
<1>6. msg' = [h \in Handle |->
               IF h \in O \cup {} THEN [q[h] EXCEPT !.st = "clear"]
               ELSE IF h \in {}
               THEN [q[h] EXCEPT !.st = IF q[h].kind = "req" THEN "waitRsp" ELSE "waitTL",
                                 !.inWnd = @ \/ q[h].st = "ready"]
               ELSE q[h]]
  BY <1>2
<1>7. QED
  BY <1>1, <1>2, <1>3, <1>4, <1>5, <1>6, Zenon DEF TaskStep, q, O

LEMMA FlushPacketIs ==
  ASSUME TypeOK, NEW D \in SUBSET Ready(Confirmed), NEW f \in Highest(Confirmed, D),
         NEW S \in SUBSET Ready(Confirmed), NEW ok \in BOOLEAN, FlushPacket(D, f, S, ok),
         UNCHANGED <<added, cursor>>
  PROVE  \E V \in SUBSET Handle : TaskStep(D, S, V)
<1> DEFINE q == Confirmed
           O == Orphaned(q, D)
           c == q[f].c
           C == {h \in Ready(q) \ O : q[h].c = c}
           V == Oversized(q, C, S)
           asked == \E h \in C : q[h].st = "ready" /\ HasRoom(q, S, h)
<1>1. O \subseteq Ready(q) /\ f \in Ready(q)
  BY DEF Orphaned, Examined, Highest, Eligible
<1>2. \A h \in Ready(q) : h \in Handle /\ q[h] = msg[h] /\ msg[h] \in Message
  BY ReadyIs DEF Ready
<1>3. c = msg[f].c /\ c \in Contract
  BY <1>1, <1>2, MessageType
<1>4. S \subseteq C /\ Concatenated(q, c, C, S)
  BY DEF FlushPacket
<1>5. \A h \in S : q[h].fits
  BY <1>4 DEF Concatenated, HasRoom
<1>6. V \subseteq C /\ \A h \in V : ~q[h].fits
  BY DEF Oversized
<1>7. /\ msg' = [h \in Handle |->
               IF h \in O \cup V THEN [q[h] EXCEPT !.st = "clear"]
               ELSE IF h \in S
               THEN [q[h] EXCEPT !.st = IF q[h].kind = "req" THEN "waitRsp" ELSE "waitTL",
                                 !.inWnd = @ \/ q[h].st = "ready"]
               ELSE q[h]]
      /\ contract' = [d \in Contract |->
                 LET w == IF Examines(q, D, d) \/ (d = c /\ c \in Aperiodic /\ asked)
                          THEN Clipped(contract[d]) ELSE contract[d]
                 IN  IF d = c /\ c \in Aperiodic
                     THEN [w EXCEPT !.inUse = @ + Cardinality(FlowControlled(q, S))]
                     ELSE w]
      /\ told' = Notified(O)
      /\ conf' = [pkt |-> S, ok |-> ok]
      /\ sent' = IF ok THEN sent \cup {h \in S : q[h].kind = "req"} ELSE sent
  BY DEF FlushPacket
<1>8. C \subseteq Ready(q) /\ \A h \in C : h \notin O /\ q[h].c = c
  OBVIOUS
<1> HIDE DEF q, O, c, C, V, asked
<1>9. V \subseteq Ready(q) /\ S \subseteq Ready(q) \ (O \cup V) /\ V \in SUBSET Handle
      /\ S \subseteq Handle
  BY <1>2, <1>4, <1>5, <1>6, <1>8
<1>10. /\ \A h \in V : ~msg[h].fits
       /\ \A h \in S : msg[h].fits /\ msg[h].c = c /\ q[h] = msg[h]
  BY <1>2, <1>4, <1>5, <1>6, <1>8
<1>11. ASSUME NEW d \in Contract
       PROVE  /\ contract'[d] \in ContractRecord
              /\ contract'[d].live = contract[d].live /\ contract'[d].gen = contract[d].gen
              /\ contract'[d].req = contract[d].req
              /\ contract'[d].crt = 0 <=> contract[d].crt = 0
              /\ d \in Aperiodic =>
                   contract'[d].inUse = contract[d].inUse + Cardinality(Sent(S, d))
  <2>1. contract[d] \in ContractRecord
    BY DEF TypeOK
  <2>2. PICK w \in {contract[d], Clipped(contract[d])} :
            contract'[d] = IF d = c /\ c \in Aperiodic
                           THEN [w EXCEPT !.inUse = @ + Cardinality(FlowControlled(q, S))]
                           ELSE w
    BY <1>7
  <2>3. /\ w \in ContractRecord /\ w.live = contract[d].live /\ w.gen = contract[d].gen
        /\ w.req = contract[d].req /\ w.inUse = contract[d].inUse
        /\ w.crt = 0 <=> contract[d].crt = 0
    BY <2>1, ClippedIs
  <2>4. CASE d = c /\ c \in Aperiodic
    <3>1. FlowControlled(q, S) = Sent(S, d)
      BY <1>10, <2>4 DEF FlowControlled, Sent
    <3>2. FlowControlled(q, S) \in SUBSET Handle
      BY <1>9 DEF FlowControlled
    <3>3. PICK n \in Nat : n = Cardinality(FlowControlled(q, S))
      BY <3>2, HandlesFinite
    <3>4. contract'[d] = [w EXCEPT !.inUse = w.inUse + n]
      BY <2>2, <2>3, <2>4, <3>3
    <3>5. w.inUse + n \in Nat
      BY <2>3, RecordType
    <3>6. /\ contract'[d] \in ContractRecord /\ contract'[d].inUse = w.inUse + n
          /\ contract'[d].live = w.live /\ contract'[d].gen = w.gen
          /\ contract'[d].req = w.req /\ contract'[d].crt = w.crt
      BY <2>3, <3>4, <3>5 DEF ContractRecord
    <3>7. QED
      BY <2>3, <3>1, <3>3, <3>6
  <2>5. CASE ~ (d = c /\ c \in Aperiodic)
    <3>1. d \in Aperiodic => Sent(S, d) = {}
      BY <1>10, <2>5 DEF Sent
    <3>2. d \in Aperiodic => Cardinality(Sent(S, d)) = 0
      BY <3>1, FS_EmptySet
    <3>3. contract'[d] = w /\ w.inUse \in Nat
      BY <2>2, <2>3, <2>5, RecordType
    <3>4. QED
      BY <2>3, <3>2, <3>3
  <2>6. QED
    BY <2>4, <2>5
<1>12. contract' = [d \in Contract |-> contract'[d]]
  BY <1>7
<1>13. conf' \in [pkt : SUBSET Handle, ok : BOOLEAN]
  BY <1>7, <1>9
<1>14. sent \subseteq sent' /\ sent' \subseteq sent \cup {h \in S : msg[h].kind = "req"}
  BY <1>7, <1>10
<1>15. \A h \in S : msg[h].fits /\ \E g \in Highest(q, D) : msg[g].c = msg[h].c
  BY <1>3, <1>10 DEF q
<1>16. msg' = [h \in Handle |->
               IF h \in O \cup V THEN [q[h] EXCEPT !.st = "clear"]
               ELSE IF h \in S
               THEN [q[h] EXCEPT !.st = IF q[h].kind = "req" THEN "waitRsp" ELSE "waitTL",
                                 !.inWnd = @ \/ q[h].st = "ready"]
               ELSE q[h]]
  BY <1>7
<1>17. told' = Notified(O)
  BY <1>7
<1>18. TaskStep(D, S, V)
  BY <1>1, <1>9, <1>10, <1>11, <1>12, <1>13, <1>14, <1>15, <1>16, <1>17, Zenon
     DEF TaskStep, q, O
<1>19. QED
  BY <1>9, <1>18

LEMMA TaskIs ==
  ASSUME TypeOK, ASLTask
  PROVE  \E D \in SUBSET Ready(Confirmed), S, V \in SUBSET Handle : TaskStep(D, S, V)
<1>1. PICK D \in SUBSET Ready(Confirmed) :
          \/ FlushNothing(D)
          \/ \E f \in Highest(Confirmed, D), S \in SUBSET Ready(Confirmed), ok \in BOOLEAN :
                FlushPacket(D, f, S, ok)
  BY DEF ASLTask
<1>2. UNCHANGED <<added, cursor>>
  BY DEF ASLTask
<1>3. Ready(Confirmed) \subseteq Handle
  BY DEF Ready
<1>4. CASE FlushNothing(D)
  BY <1>2, <1>4, FlushNothingIs
<1>5. ASSUME NEW f \in Highest(Confirmed, D), NEW S \in SUBSET Ready(Confirmed),
             NEW ok \in BOOLEAN, FlushPacket(D, f, S, ok)
      PROVE  \E V \in SUBSET Handle : TaskStep(D, S, V)
  BY <1>2, <1>5, FlushPacketIs
<1>6. QED
  BY <1>1, <1>3, <1>4, <1>5

\* What a turn of the task does to one message.
LEMMA TaskMsg ==
  ASSUME TypeOK, NEW D, NEW S, NEW V, TaskStep(D, S, V), NEW h \in Handle
  PROVE  LET O == Orphaned(Confirmed, D) IN
         /\ h > added => msg'[h] = NoMsg
         /\ h <= added =>
              /\ msg'[h] \in Message /\ Same(msg[h], msg'[h])
              /\ \/ /\ h \in O \cup V /\ h \notin S /\ msg[h].st \in ReadyStates
                    /\ msg'[h].st = "clear" /\ msg'[h].inWnd = msg[h].inWnd
                 \/ /\ h \in S /\ h \notin O \cup V /\ msg[h].st \in ReadyStates
                    /\ msg'[h].st = IF msg[h].kind = "req" THEN "waitRsp" ELSE "waitTL"
                    /\ msg'[h].inWnd = (msg[h].inWnd \/ msg[h].st = "ready")
                 \/ /\ h \notin O \cup V \cup S /\ msg'[h].inWnd = msg[h].inWnd
                    /\ \/ msg'[h].st = msg[h].st
                       \/ msg[h].st = "waitTL" /\ msg'[h].st = "clear"
                       \/ msg[h].st = "waitRsp" /\ msg'[h].st = "confirmed"
<1> DEFINE q == Confirmed
           O == Orphaned(Confirmed, D)
<1>0. h \in Int /\ added \in Int
  BY HandleNat, ConstantsOK DEF TypeOK
<1>1. O \subseteq Ready(q) /\ V \subseteq Ready(q) /\ S \subseteq Ready(q) \ (O \cup V)
  BY DEF TaskStep
<1>2. msg'[h] =
         IF h \in O \cup V THEN [q[h] EXCEPT !.st = "clear"]
         ELSE IF h \in S
         THEN [q[h] EXCEPT !.st = IF q[h].kind = "req" THEN "waitRsp" ELSE "waitTL",
                           !.inWnd = @ \/ q[h].st = "ready"]
         ELSE q[h]
  BY DEF TaskStep
<1>3. h \in Ready(q) => h <= added /\ q[h] = msg[h] /\ msg[h] \in Message
                        /\ msg[h].st \in ReadyStates
  BY ReadyIs
<1> HIDE DEF q, O
<1>4. CASE h \in O \cup V
  <2>1. h \notin S /\ h <= added /\ msg[h] \in Message /\ msg[h].st \in ReadyStates
        /\ msg'[h] = [msg[h] EXCEPT !.st = "clear"]
    BY <1>1, <1>2, <1>3, <1>4
  <2>2. "clear" \in Status \ {"none"}
    BY DEF Status
  <2>3. msg'[h] \in Message /\ Same(msg[h], msg'[h]) /\ msg'[h].st = "clear"
        /\ msg'[h].inWnd = msg[h].inWnd
    BY <2>1, <2>2, NewState
  <2>4. QED
    BY <1>0, <1>4, <2>1, <2>3 DEF O
<1>5. CASE h \in S
  <2>1. h \notin O \cup V /\ h <= added /\ msg[h] \in Message /\ msg[h].st \in ReadyStates
    BY <1>1, <1>3, <1>5
  <2>2. PICK s \in {"waitRsp", "waitTL"} : s = IF msg[h].kind = "req" THEN "waitRsp" ELSE "waitTL"
    OBVIOUS
  <2>3. PICK b \in BOOLEAN : b = (msg[h].inWnd \/ msg[h].st = "ready")
    OBVIOUS
  <2>4. msg'[h] = [msg[h] EXCEPT !.st = s, !.inWnd = msg[h].inWnd \/ msg[h].st = "ready"]
    BY <1>1, <1>2, <1>3, <1>5, <2>1, <2>2
  <2>5. msg'[h] = [msg[h] EXCEPT !.st = s, !.inWnd = b]
    BY <2>3, <2>4, Zenon
  <2>6. msg'[h] \in Message /\ Same(msg[h], msg'[h]) /\ msg'[h].st = s /\ msg'[h].inWnd = b
    BY <2>1, <2>5 DEF Message, Same, Status
  <2>7. msg'[h].inWnd = (msg[h].inWnd \/ msg[h].st = "ready")
    BY <2>3, <2>6, Zenon
  <2>8. ~ (h > added)
    BY <1>0, <2>1
  <2>9. QED
    BY <1>5, <2>1, <2>2, <2>6, <2>7, <2>8, Zenon DEF O
<1>6. CASE h \notin O \cup V \cup S
  <2>1. msg'[h] = q[h]
    BY <1>2, <1>6
  <2>2. QED
    BY <1>6, <2>1, ConfirmedIs DEF q, O
<1>7. QED
  BY <1>4, <1>5, <1>6

\* The end of a message frees a place of the window.
Frees(h) == msg'[h].st = "clear" /\ HasContract(msg[h]) /\ msg[h].inWnd

\* A step of the one-second pass or an answer in one formula: it touches the message
\* h, and tells the application v if it ends the message.
MsgStep(h, v) ==
  LET c == msg[h].c IN
  /\ h \in Queued
  /\ msg' = [msg EXCEPT ![h] = msg'[h]]
  /\ msg'[h] \in Message /\ Same(msg[h], msg'[h]) /\ msg'[h].inWnd = msg[h].inWnd
  /\ \/ msg'[h].st = "clear" /\ told' = [told EXCEPT ![h] = Append(@, v)]
     \/ msg'[h].st = msg[h].st /\ told' = told
     \/ msg'[h].st = "readyNoFC" /\ msg[h].st \notin ReadyStates /\ told' = told
  /\ contract' = [contract EXCEPT ![c] = contract'[c]]
  /\ contract'[c] \in ContractRecord
  /\ contract'[c].live = contract[c].live /\ contract'[c].gen = contract[c].gen
  /\ contract'[c].req = contract[c].req
  /\ c \in Aperiodic =>
       /\ Frees(h) => contract'[c].inUse = IF contract[c].inUse > 0
                                           THEN contract[c].inUse - 1 ELSE 0
       /\ ~Frees(h) => contract'[c].inUse = contract[c].inUse
       /\ contract'[c].crt = 0 =>
            \/ contract[c].crt = 0 /\ ~Frees(h)
            \/ Frees(h) /\ contract'[c].inUse > 0
            \/ HasContract(msg[h]) /\ ~Frees(h) /\ msg[h].st \notin ReadyStates

\* A message leaves the window of its contract.
LEMMA ReleasedIs ==
  ASSUME TypeOK, NEW m \in Message
  PROVE  LET x == Released(m)
             w == contract[m.c] IN
         /\ x \in ContractRecord
         /\ x.live = w.live /\ x.gen = w.gen /\ x.req = w.req
         /\ ~ (HasContract(m) /\ m.inWnd) => x = w
         /\ m.c \in Aperiodic /\ HasContract(m) /\ m.inWnd =>
              /\ x.inUse = IF w.inUse > 0 THEN w.inUse - 1 ELSE 0
              /\ x.crt = 0 => x.inUse > 0
<1>1. m.c \in Contract
  BY MessageType
<1>2. contract[m.c] \in ContractRecord
  BY <1>1 DEF TypeOK
<1>3. CASE HasContract(m) /\ m.inWnd
  <2>1. Released(m) = ReceiveResponseForSlidingWindow(m.c, contract[m.c])
    BY <1>3 DEF Released
  <2>2. QED
    BY <1>1, <1>2, <1>3, <2>1, ResponseIs
<1>4. CASE ~ (HasContract(m) /\ m.inWnd)
  <2>1. Released(m) = contract[m.c]
    BY <1>4 DEF Released
  <2>2. QED
    BY <1>2, <1>4, <2>1
<1>5. QED
  BY <1>3, <1>4

\* A message that ends with a release.
LEMMA EndIs ==
  ASSUME TypeOK, NEW h \in Queued, NEW v, NEW n \in Message, n.st = "clear",
         Same(msg[h], n), n.inWnd = msg[h].inWnd, msg' = [msg EXCEPT ![h] = n],
         contract' = [contract EXCEPT ![msg[h].c] = Released(msg[h])],
         told' = [told EXCEPT ![h] = Append(@, v)]
  PROVE  MsgStep(h, v)
<1>0. h \in Handle
  BY DEF Queued
<1>1. msg[h] \in Message
  BY <1>0, QueueType
<1>2. msg'[h] = n
  BY <1>0 DEF TypeOK
<1> DEFINE c == msg[h].c
           x == Released(msg[h])
<1>3. c \in Contract
  BY <1>1, MessageType
<1>4. contract'[c] = x
  BY <1>3 DEF TypeOK
<1>5. /\ x \in ContractRecord
      /\ x.live = contract[c].live /\ x.gen = contract[c].gen /\ x.req = contract[c].req
      /\ ~ (HasContract(msg[h]) /\ msg[h].inWnd) => x = contract[c]
      /\ c \in Aperiodic /\ HasContract(msg[h]) /\ msg[h].inWnd =>
              /\ x.inUse = IF contract[c].inUse > 0 THEN contract[c].inUse - 1 ELSE 0
              /\ x.crt = 0 => x.inUse > 0
  BY <1>1, ReleasedIs
<1>6. contract' = [contract EXCEPT ![c] = x]
  OBVIOUS
<1> HIDE DEF c, x
<1>7. Frees(h) <=> HasContract(msg[h]) /\ msg[h].inWnd
  BY <1>2 DEF Frees
<1>8. c \in Aperiodic =>
       /\ Frees(h) => x.inUse = IF contract[c].inUse > 0 THEN contract[c].inUse - 1 ELSE 0
       /\ ~Frees(h) => x.inUse = contract[c].inUse
       /\ x.crt = 0 => \/ contract[c].crt = 0 /\ ~Frees(h)
                       \/ Frees(h) /\ x.inUse > 0
  BY <1>5, <1>7
<1>9. QED
  BY <1>2, <1>4, <1>5, <1>6, <1>8, Zenon DEF MsgStep, c

\* A message that stays in the queue, perhaps after a timeout.
LEMMA KeepIs ==
  ASSUME TypeOK, NEW h \in Queued, NEW v, NEW n \in Message, Same(msg[h], n),
         n.inWnd = msg[h].inWnd, msg' = [msg EXCEPT ![h] = n], told' = told,
         \/ n.st = msg[h].st /\ contract' = contract
         \/ /\ n.st = "readyNoFC" /\ msg[h].st \notin ReadyStates
            /\ contract' = IF HasContract(msg[h])
                   THEN [contract EXCEPT ![msg[h].c] = ReceiveTimeoutForSlidingWindow(msg[h].c, @)]
                   ELSE contract
  PROVE  MsgStep(h, v)
<1>0. h \in Handle
  BY DEF Queued
<1>1. msg[h] \in Message
  BY <1>0, QueueType
<1>2. msg'[h] = n
  BY <1>0 DEF TypeOK
<1> DEFINE c == msg[h].c
           x == contract'[c]
           w == contract[c]
<1>3. c \in Contract /\ contract \in [Contract -> ContractRecord]
  BY <1>1, MessageType DEF TypeOK
<1>4. ~Frees(h)
  <2>1. msg[h].st # "clear"
    BY DEF Queued
  <2>2. QED
    BY <1>2, <2>1 DEF Frees
<1>5. /\ contract' = [contract EXCEPT ![c] = x]
      /\ \/ x = w
         \/ /\ x = ReceiveTimeoutForSlidingWindow(c, w)
            /\ HasContract(msg[h]) /\ msg[h].st \notin ReadyStates
  BY <1>3
<1>6. /\ x \in ContractRecord /\ x.live = w.live /\ x.gen = w.gen /\ x.req = w.req
      /\ x.inUse = w.inUse
  BY <1>3, <1>5, TimeoutIs
<1>7. x.crt = 0 => w.crt = 0 \/ (HasContract(msg[h]) /\ msg[h].st \notin ReadyStates)
  BY <1>5
<1>8. \/ msg'[h].st = msg[h].st /\ told' = told
      \/ msg'[h].st = "readyNoFC" /\ msg[h].st \notin ReadyStates /\ told' = told
  BY <1>2
<1> HIDE DEF c, x, w
<1>9. QED
  BY <1>2, <1>4, <1>5, <1>6, <1>7, <1>8, Zenon DEF MsgStep, c, x, w

\* One step of the pass.
LEMMA PassIs ==
  ASSUME TypeOK, CheckTimeoutOnTX
  PROVE  MsgStep(cursor, 0)
<1> DEFINE h == cursor
           m == msg[h]
<1>0. h \in Queued /\ h \in Handle
  BY DEF TypeOK, CheckTimeoutOnTX, Queued
<1>1. m \in Message /\ msg \in [Handle -> Message \cup {NoMsg}]
  BY <1>0, QueueType DEF TypeOK
<1>2. CASE Outlived(h)
  <2> DEFINE n == [m EXCEPT !.st = "clear", !.life = 0]
  <2>1. n \in Message /\ n.st = "clear" /\ Same(m, n) /\ n.inWnd = m.inWnd
    BY <1>1 DEF Message, Same, Status
  <2>2. msg' = [msg EXCEPT ![h] = n]
    BY <1>0, <1>1, <1>2 DEF Outlived
  <2> HIDE DEF n
  <2>3. QED
    BY <1>0, <1>2, <2>1, <2>2, EndIs DEF Outlived
<1>3. CASE Waits(h)
  <2>1. PICK t : t = IF m.st \in ReadyStates THEN m.timeout ELSE m.timeout - 1
    OBVIOUS
  <2>2. m.life \in Nat /\ m.timeout \in Nat
    BY <1>1, MessageType
  <2>3. t \in Nat /\ m.life - 1 \in Nat
    BY <1>3, <2>1, <2>2 DEF Waits, ReadyStates
  <2> DEFINE n == [m EXCEPT !.life = m.life - 1, !.timeout = t]
  <2>4. n \in Message /\ n.st = m.st /\ Same(m, n) /\ n.inWnd = m.inWnd
    BY <1>1, <2>3 DEF Message, Same
  <2>5. msg' = [msg EXCEPT ![h] = n]
    BY <1>0, <1>1, <1>3, <2>1 DEF Waits, Message, ReadyStates
  <2> HIDE DEF n
  <2>6. QED
    BY <1>0, <1>3, <2>4, <2>5, KeepIs DEF Waits
<1>4. CASE Retry(h)
  <2>1. PICK d \in Nat : d = Smaller(2 * m.def, TimeoutCap)
    <3>1. m.def \in Nat /\ TimeoutCap \in Nat
      BY <1>1, MessageType, ConstantsOK
    <3>2. Smaller(2 * m.def, TimeoutCap) \in Nat
      BY <3>1 DEF Smaller
    <3>3. QED
      BY <3>2
  <2>2. m.life \in Nat /\ m.retry \in Nat
    BY <1>1, MessageType
  <2>3. m.life - 1 \in Nat /\ m.retry - 1 \in Nat /\ m.st \notin ReadyStates
    BY <1>4, <2>2 DEF Retry, ReadyStates
  <2> DEFINE n == [m EXCEPT !.life = m.life - 1, !.retry = m.retry - 1,
                            !.def = d, !.timeout = d, !.st = "readyNoFC"]
  <2>4. n \in Message /\ n.st = "readyNoFC" /\ Same(m, n) /\ n.inWnd = m.inWnd
    BY <1>1, <2>3 DEF Message, Same, Status
  <2>5. msg' = [msg EXCEPT ![h] = n]
    BY <1>0, <1>1, <1>4, <2>1 DEF Retry, Message
  <2> HIDE DEF n
  <2>6. QED
    BY <1>0, <1>4, <2>3, <2>4, <2>5, KeepIs DEF Retry
<1>5. CASE GiveUp(h)
  <2>2. m.life \in Nat
    BY <1>1, MessageType
  <2>3. m.life - 1 \in Nat /\ m.st \notin ReadyStates
    BY <1>5, <2>2 DEF GiveUp, ReadyStates
  <2> DEFINE n == [m EXCEPT !.st = "clear", !.life = m.life - 1]
             c == m.c
             w == ReceiveTimeoutForSlidingWindow(c, contract[c])
             x == contract'[c]
  <2>4. n \in Message /\ n.st = "clear" /\ Same(m, n) /\ n.inWnd = m.inWnd
    BY <1>1, <2>3 DEF Message, Same, Status
  <2>5. msg' = [msg EXCEPT ![h] = n]
    BY <1>0, <1>1, <1>5 DEF GiveUp, Message
  <2>6. c \in Contract /\ contract \in [Contract -> ContractRecord]
    BY <1>1, MessageType DEF TypeOK
  <2>7. /\ w \in ContractRecord /\ w.live = contract[c].live /\ w.gen = contract[c].gen
        /\ w.req = contract[c].req /\ w.inUse = contract[c].inUse
    BY <2>6, TimeoutIs
  <2>8. contract' = CASE ~HasContract(m) -> contract
                     [] HasContract(m) /\ m.inWnd ->
                          [contract EXCEPT ![c] = ReceiveResponseForSlidingWindow(c, w)]
                     [] OTHER -> [contract EXCEPT ![c] = w]
    BY <1>5 DEF GiveUp
  <2>9. told' = [told EXCEPT ![h] = Append(@, 0)]
    BY <1>5 DEF GiveUp
  <2>10. msg'[h] = n
    BY <1>0, <1>1, <2>5
  <2>11. Frees(h) <=> HasContract(m) /\ m.inWnd
    BY <2>4, <2>10 DEF Frees
  <2> HIDE DEF n, w
  <2>12. /\ contract' = [contract EXCEPT ![c] = x]
         /\ \/ ~HasContract(m) /\ x = contract[c]
            \/ HasContract(m) /\ m.inWnd /\ x = ReceiveResponseForSlidingWindow(c, w)
            \/ HasContract(m) /\ ~m.inWnd /\ x = w
    <3>1. CASE ~HasContract(m)
      BY <2>6, <2>8, <3>1
    <3>2. CASE HasContract(m) /\ m.inWnd
      BY <2>6, <2>8, <3>2
    <3>3. CASE HasContract(m) /\ ~m.inWnd
      BY <2>6, <2>8, <3>3
    <3>4. QED
      BY <3>1, <3>2, <3>3
  <2>13. /\ x \in ContractRecord /\ x.live = contract[c].live /\ x.gen = contract[c].gen
         /\ x.req = contract[c].req
         /\ c \in Aperiodic =>
              /\ Frees(h) => x.inUse = IF contract[c].inUse > 0
                                       THEN contract[c].inUse - 1 ELSE 0
              /\ ~Frees(h) => x.inUse = contract[c].inUse
              /\ x.crt = 0 => \/ contract[c].crt = 0 /\ ~Frees(h)
                              \/ Frees(h) /\ x.inUse > 0
                              \/ HasContract(m) /\ ~Frees(h)
    <3>1. CASE ~HasContract(m)
      BY <2>6, <2>11, <2>12, <3>1
    <3>2. CASE HasContract(m) /\ m.inWnd
      BY <2>6, <2>7, <2>11, <2>12, <3>2, ResponseIs
    <3>3. CASE HasContract(m) /\ ~m.inWnd
      BY <2>6, <2>7, <2>11, <2>12, <3>3
    <3>4. QED
      BY <3>1, <3>2, <3>3
  <2> HIDE DEF c, x
  <2>14. QED
    BY <1>0, <2>3, <2>4, <2>5, <2>9, <2>10, <2>12, <2>13, Zenon DEF MsgStep, c, x
<1>6. QED
  BY <1>2, <1>3, <1>4, <1>5 DEF CheckTimeoutOnTX

\* The answer to the request k is given to h.
LEMMA SearchIs ==
  ASSUME TypeOK, NEW k \in Handle, NEW h \in Handle, SearchOriginalRequest(k, h)
  PROVE  MsgStep(h, k)
<1>1. h \in Queued
  BY DEF SearchOriginalRequest, Matching
<1>2. msg[h] \in Message /\ "clear" \in Status \ {"none"}
  BY <1>1, QueueType DEF Status
<1> DEFINE n == [msg[h] EXCEPT !.st = "clear"]
<1>3. n \in Message /\ n.st = "clear" /\ Same(msg[h], n) /\ n.inWnd = msg[h].inWnd
  BY <1>2, NewState
<1>4. msg' = [msg EXCEPT ![h] = n]
  BY DEF SearchOriginalRequest, TypeOK
<1> HIDE DEF n
<1>5. QED
  BY <1>1, <1>3, <1>4, EndIs DEF SearchOriginalRequest

-----------------------------------------------------------------------------
(* Type correctness.                                                       *)

LEMMA TypeInit == Init => TypeOK
<1> SUFFICES ASSUME Init PROVE TypeOK
  OBVIOUS
<1>1. added \in 0..MaxMsg /\ cursor = 0 /\ sent \subseteq 1..added
  BY ConstantsOK DEF Init
<1>2. msg \in [Handle -> Message \cup {NoMsg}] /\ \A h \in Handle : msg[h] = NoMsg
  BY DEF Init
<1>3. \A h \in Handle : msg[h] \in Message <=> h <= added
  <2>1. \A h \in Handle : ~ (h <= 0)
    BY HandleNat
  <2>2. QED
    BY <1>2, <2>1, NoMsgNotMessage DEF Init
<1>4. contract \in [Contract -> ContractRecord]
  <2>1. \A n \in 1..Window : [Fresh(1, 0) EXCEPT !.crt = n] \in ContractRecord
    <3>1. \A n \in 1..Window : n \in Nat
      BY ConstantsOK
    <3>2. Fresh(1, 0) \in ContractRecord
      BY FreshType
    <3>3. QED
      BY <3>1, <3>2 DEF ContractRecord
  <2>2. {[Fresh(1, 0) EXCEPT !.crt = n] : n \in 1..Window} \subseteq ContractRecord
    BY <2>1
  <2>3. QED
    BY <2>2 DEF Init
<1>5. conf \in [pkt : SUBSET Handle, ok : BOOLEAN]
  BY DEF Init, NoConf
<1>6. told \in [Handle -> Seq(Handle \cup {0})]
  BY DEF Init
<1>7. QED
  BY <1>1, <1>2, <1>3, <1>4, <1>5, <1>6 DEF TypeOK

LEMMA TypeAdd ==
  ASSUME TypeOK, NEW c \in Contract, NEW kind \in Kinds, NEW prio \in Prios, NEW fits \in Fits,
         NEW rto \in RTOs, AddGenericObject(c, kind, prio, fits, rto)
  PROVE  /\ TypeOK'
         /\ added + 1 \in Handle /\ added' = added + 1
         /\ msg' = [msg EXCEPT ![added + 1] = msg'[added + 1]]
         /\ LET n == msg'[added + 1] IN
            /\ n \in Message /\ n.c = c /\ n.gen = contract[c].gen /\ n.kind = kind
            /\ n.prio = prio
            /\ n.req = contract[c].req /\ n.inWnd = FALSE
            /\ n.st = IF kind = "req" THEN "ready" ELSE "readyNoFC"
         /\ contract' = [contract EXCEPT ![c] = contract'[c]]
         /\ contract'[c] \in ContractRecord
         /\ \A d \in Contract :
              /\ contract'[d].live = contract[d].live /\ contract'[d].gen = contract[d].gen
              /\ contract'[d].inUse = contract[d].inUse /\ contract'[d].crt = contract[d].crt
         /\ contract'[c].req = IF kind = "req" THEN (contract[c].req + 1) % ReqMod
                               ELSE contract[c].req
<1>1. PICK a : a = added + 1
  OBVIOUS
<1>2. added \in Nat /\ added < MaxMsg /\ MaxMsg \in Nat
  BY ConstantsOK DEF TypeOK, AddGenericObject
<1>3. a \in Handle /\ added' = a /\ a \in 0..MaxMsg
  BY <1>1, <1>2 DEF AddGenericObject, Handle
<1>4. contract[c] \in ContractRecord /\ contract \in [Contract -> ContractRecord]
  BY DEF TypeOK
<1>5. PICK s \in {"ready", "readyNoFC"} : s = IF kind = "req" THEN "ready" ELSE "readyNoFC"
  OBVIOUS
<1> DEFINE n == [st |-> s,
                 c |-> c, gen |-> contract[c].gen, req |-> contract[c].req,
                 kind |-> kind, prio |-> prio, fits |-> fits,
                 timeout |-> rto, def |-> rto, retry |-> MaxRetry,
                 life |-> Lifetime, inWnd |-> FALSE]
<1>6. n \in Message
  <2>1. kind \in {"req", "norsp"} /\ prio \in Nat /\ fits \in BOOLEAN /\ rto \in Nat
        /\ MaxRetry \in Nat /\ Lifetime \in Nat
    BY ConstantsOK
  <2>2. contract[c].gen \in Nat /\ contract[c].req \in Nat
    BY <1>4, RecordType
  <2>3. QED
    BY <2>1, <2>2 DEF Message, Status
<1>7. /\ n.c = c /\ n.gen = contract[c].gen /\ n.kind = kind /\ n.req = contract[c].req
      /\ n.inWnd = FALSE /\ n.st = s /\ n.prio = prio
  OBVIOUS
<1>8. msg' = [msg EXCEPT ![a] = n]
  BY <1>1, <1>5 DEF AddGenericObject
<1>9. PICK r \in Nat : r = (contract[c].req + 1) % ReqMod
  <2>1. contract[c].req \in Nat /\ ReqMod \in Nat \ {0}
    BY <1>4, RecordType, ConstantsOK
  <2>2. QED
    BY <2>1
<1>10. contract' = IF kind = "req" THEN [contract EXCEPT ![c].req = r] ELSE contract
  BY <1>9 DEF AddGenericObject
<1>11. /\ contract' = [contract EXCEPT ![c] = contract'[c]]
       /\ contract'[c] \in ContractRecord
       /\ contract'[c].live = contract[c].live /\ contract'[c].gen = contract[c].gen
       /\ contract'[c].inUse = contract[c].inUse /\ contract'[c].crt = contract[c].crt
       /\ contract'[c].req = IF kind = "req" THEN r ELSE contract[c].req
       /\ \A d \in Contract : d # c => contract'[d] = contract[d]
  BY <1>4, <1>10 DEF ContractRecord
<1>12. msg \in [Handle -> Message \cup {NoMsg}]
  BY DEF TypeOK
<1> HIDE DEF n
<1>13. msg'[a] = n /\ msg' \in [Handle -> Message \cup {NoMsg}]
       /\ \A h \in Handle : h # a => msg'[h] = msg[h]
  BY <1>3, <1>6, <1>8, <1>12
<1>14. \A h \in Handle : msg'[h] \in Message <=> h <= a
  <2>1. \A h \in Handle : h # a => (h <= added <=> h <= a)
    BY <1>1, <1>2, HandleNat
  <2>2. \A h \in Handle : msg[h] \in Message <=> h <= added
    BY DEF TypeOK
  <2>3. a <= a
    BY <1>3, HandleNat
  <2>4. QED
    BY <1>6, <1>13, <2>1, <2>2, <2>3
<1>15. contract' \in [Contract -> ContractRecord]
  BY <1>4, <1>11
<1>16. sent' \subseteq 1..a
  BY <1>1, <1>2 DEF TypeOK, AddGenericObject
<1>17. TypeOK'
  BY <1>3, <1>13, <1>14, <1>15, <1>16 DEF TypeOK, AddGenericObject
<1>18. QED
  BY <1>1, <1>3, <1>5, <1>6, <1>7, <1>8, <1>9, <1>11, <1>13, <1>17

LEMMA TypeTask ==
  ASSUME TypeOK, cursor = 0, NEW D, NEW S \in SUBSET Handle, NEW V, TaskStep(D, S, V)
  PROVE  TypeOK'
<1>1. added \in 0..MaxMsg /\ added' = added /\ cursor' = 0
  BY DEF TypeOK, TaskStep
<1>2. added \in Int /\ \A h \in Handle : h <= added \/ h > added
  BY <1>1, HandleNat, ConstantsOK
<1>3. \A h \in Handle : (h <= added => msg'[h] \in Message) /\ (h > added => msg'[h] = NoMsg)
  BY TaskMsg
<1>4. \A h \in Handle : msg'[h] \in Message \cup {NoMsg} /\ (msg'[h] \in Message <=> h <= added)
  BY <1>2, <1>3, NoMsgNotMessage, HandleNat
<1>5. msg' \in [Handle -> Message \cup {NoMsg}]
  <2>1. PICK F : msg' = [h \in Handle |-> F[h]]
    <3>1. msg' = [h \in Handle |-> msg'[h]]
      BY DEF TaskStep
    <3>2. QED
      BY <3>1
  <2>2. QED
    BY <1>4, <2>1
<1>6. contract' \in [Contract -> ContractRecord]
  BY DEF TaskStep
<1>7. told' \in [Handle -> Seq(Handle \cup {0})]
  <2>1. \A h \in Handle : told[h] \in Seq(Handle \cup {0})
    BY DEF TypeOK
  <2>2. told' = Notified(Orphaned(Confirmed, D))
    BY DEF TaskStep
  <2>3. \A h \in Handle : Append(told[h], 0) \in Seq(Handle \cup {0})
    BY <2>1
  <2>4. QED
    BY <2>1, <2>2, <2>3 DEF Notified
<1>8. sent' \subseteq 1..added'
  <2>1. \A h \in S : h \in Nat /\ h >= 1 /\ h <= added
    <3>1. S \subseteq Ready(Confirmed)
      BY Zenon DEF TaskStep
    <3>2. \A h \in S : h <= added
      BY <3>1, ReadyIs
    <3>3. QED
      BY <3>2, HandleNat
  <2>2. sent \subseteq 1..added /\ sent' \subseteq sent \cup S
    BY DEF TypeOK, TaskStep
  <2>3. QED
    BY <1>1, <1>2, <2>1, <2>2
<1>9. conf' \in [pkt : SUBSET Handle, ok : BOOLEAN]
  BY DEF TaskStep
<1>10. QED
  BY <1>1, <1>4, <1>5, <1>6, <1>7, <1>8, <1>9 DEF TypeOK

LEMMA TypeMsgStep ==
  ASSUME TypeOK, NEW h, NEW v \in Handle \cup {0}, MsgStep(h, v),
         UNCHANGED <<added, conf, sent>>,
         cursor' # 0 => cursor' \in Queued \ {h}
  PROVE  TypeOK'
<1>0. h \in Queued /\ h \in Handle /\ h <= added
  BY QueueType DEF MsgStep, Queued
<1>1. /\ msg \in [Handle -> Message \cup {NoMsg}] /\ msg' = [msg EXCEPT ![h] = msg'[h]]
      /\ msg'[h] \in Message
  BY DEF MsgStep, TypeOK
<1>2. /\ msg' \in [Handle -> Message \cup {NoMsg}]
      /\ \A k \in Handle : k # h => msg'[k] = msg[k]
  BY <1>0, <1>1
<1>3. \A k \in Handle : msg'[k] \in Message <=> k <= added'
  BY <1>0, <1>1, <1>2 DEF TypeOK
<1>4. msg[h].c \in Contract
  BY <1>0, QueueType, MessageType
<1>5. contract' \in [Contract -> ContractRecord]
  BY <1>4 DEF MsgStep, TypeOK
<1>6. told' \in [Handle -> Seq(Handle \cup {0})]
  <2>1. told \in [Handle -> Seq(Handle \cup {0})] /\ told[h] \in Seq(Handle \cup {0})
    BY <1>0 DEF TypeOK
  <2>2. Append(told[h], v) \in Seq(Handle \cup {0})
    BY <2>1
  <2>3. told' = told \/ told' = [told EXCEPT ![h] = Append(told[h], v)]
    BY DEF MsgStep
  <2>4. QED
    BY <2>1, <2>2, <2>3
<1>7. cursor' # 0 => cursor' \in Queued'
  BY <1>2 DEF Queued
<1>8. cursor' \in Handle \cup {0}
  BY DEF Queued
<1>9. QED
  BY <1>2, <1>3, <1>5, <1>6, <1>7, <1>8 DEF TypeOK

\* The steps that touch contracts only.
ContractStep ==
  \E c \in Contract :
    NLME_DeleteContract(c) \/ NLME_setContract(c)
      \/ \E r \in 0..(ReqMod - 1) : NLME_AddDmoContract(c, r)

LEMMA TypeContract ==
  ASSUME TypeOK, NEW c \in Contract, NEW w,
         contract' = [contract EXCEPT ![c] = w], w \in ContractRecord,
         UNCHANGED <<msg, added, conf, cursor, sent, told>>
  PROVE  TypeOK'
<1>1. contract' \in [Contract -> ContractRecord]
  BY DEF TypeOK
<1>2. Queued' = Queued
  BY DEF Queued
<1>3. QED
  BY <1>1, <1>2 DEF TypeOK

\* What the contract table does: a contract is gone, is made again under a new
\* generation, or, if contracts are rewritten, gets a fresh window.
LEMMA ContractIs ==
  ASSUME TypeOK, ContractStep
  PROVE  /\ UNCHANGED <<msg, added, conf, cursor, sent, told>>
         /\ \E c \in Contract, w \in ContractRecord :
              /\ contract' = [contract EXCEPT ![c] = w]
              /\ \/ /\ ~w.live /\ w.gen = contract[c].gen /\ w.req = contract[c].req
                    /\ contract[c].live /\ contract[c].gen < MaxGen
                 \/ /\ ~contract[c].live /\ w.live /\ w.gen = contract[c].gen + 1
                    /\ w.req \in 0..(ReqMod - 1) /\ w.inUse = 0 /\ w.crt = 1
                 \/ /\ Rewrites /\ w.live = contract[c].live /\ w.gen = contract[c].gen
                    /\ w.req = contract[c].req /\ w.inUse = 0 /\ w.crt = 1
<1>1. PICK c \in Contract : NLME_DeleteContract(c) \/ NLME_setContract(c)
                              \/ \E r \in 0..(ReqMod - 1) : NLME_AddDmoContract(c, r)
  BY DEF ContractStep
<1>2. contract[c] \in ContractRecord /\ contract \in [Contract -> ContractRecord]
  BY DEF TypeOK
<1>3. UNCHANGED <<msg, added, conf, cursor, sent, told>>
  BY <1>1 DEF NLME_DeleteContract, NLME_setContract, NLME_AddDmoContract
<1>4. CASE NLME_DeleteContract(c)
  <2> DEFINE w == [contract[c] EXCEPT !.live = FALSE]
  <2>1. /\ w \in ContractRecord /\ ~w.live /\ w.gen = contract[c].gen
        /\ w.req = contract[c].req
    BY <1>2 DEF ContractRecord
  <2>2. /\ contract' = [contract EXCEPT ![c] = w] /\ contract[c].live
        /\ contract[c].gen < MaxGen
    BY <1>2, <1>4 DEF NLME_DeleteContract
  <2> HIDE DEF w
  <2>3. QED
    BY <1>3, <2>1, <2>2
<1>5. CASE NLME_setContract(c)
  <2> DEFINE w == Fresh(contract[c].gen, contract[c].req)
  <2>1. w \in ContractRecord
    BY <1>2, FreshType, RecordType
  <2>2. w.live = TRUE /\ w.gen = contract[c].gen /\ w.req = contract[c].req /\ w.inUse = 0
        /\ w.crt = 1
    BY DEF Fresh
  <2>3. contract' = [contract EXCEPT ![c] = w] /\ contract[c].live = TRUE /\ Rewrites
    BY <1>2, <1>5, RecordType DEF NLME_setContract
  <2> HIDE DEF w
  <2>4. QED
    BY <1>3, <2>1, <2>2, <2>3
<1>6. ASSUME NEW r \in 0..(ReqMod - 1), NLME_AddDmoContract(c, r)
      PROVE  \E w \in ContractRecord :
               /\ contract' = [contract EXCEPT ![c] = w]
               /\ ~contract[c].live /\ w.live /\ w.gen = contract[c].gen + 1
               /\ w.req \in 0..(ReqMod - 1) /\ w.inUse = 0 /\ w.crt = 1
  <2> DEFINE w == Fresh(contract[c].gen + 1, r)
  <2>1. contract[c].gen + 1 \in Nat /\ r \in Nat
    BY <1>2, RecordType, ConstantsOK
  <2>2. w \in ContractRecord
    BY <2>1, FreshType
  <2>3. w.live /\ w.gen = contract[c].gen + 1 /\ w.req = r /\ w.inUse = 0 /\ w.crt = 1
    BY DEF Fresh
  <2>4. contract' = [contract EXCEPT ![c] = w] /\ ~contract[c].live
    BY <1>6 DEF NLME_AddDmoContract
  <2> HIDE DEF w
  <2>5. QED
    BY <2>2, <2>3, <2>4
<1>7. QED
  BY <1>1, <1>3, <1>4, <1>5, <1>6

\* The start of the pass.
LEMMA OneSecondIs ==
  ASSUME TypeOK, OneSecond
  PROVE  TypeOK' /\ UNCHANGED <<msg, added, contract, conf, sent, told>>
<1>1. UNCHANGED <<msg, added, contract, conf, sent, told>> /\ cursor' = After(0)
  BY DEF OneSecond
<1>2. cursor' = 0 \/ cursor' \in Queued
  BY <1>1, AfterLater
<1>3. Queued' = Queued
  BY <1>1 DEF Queued
<1>4. cursor' \in Handle \cup {0}
  BY <1>2 DEF Queued
<1>5. QED
  BY <1>1, <1>2, <1>3, <1>4 DEF TypeOK

\* Every step of the queue is of one of six shapes.
StepShape ==
  \/ \E c \in Contract, kind \in Kinds, prio \in Prios, fits \in Fits, rto \in RTOs :
       AddGenericObject(c, kind, prio, fits, rto)
  \/ cursor = 0 /\ \E D \in SUBSET Ready(Confirmed), S, V \in SUBSET Handle : TaskStep(D, S, V)
  \/ OneSecond
  \/ MsgStep(cursor, 0) /\ UNCHANGED <<added, conf, sent>> /\ cursor' = After(cursor)
  \/ /\ \E k, h \in Handle : /\ MsgStep(h, k) /\ k \in sent /\ h \in Matching(k)
                             /\ \A j \in Matching(k) : h <= j
                             /\ msg'[h].st = "clear"
     /\ cursor = 0 /\ UNCHANGED <<added, conf, cursor, sent>>
  \/ ContractStep

LEMMA NextIs ==
  ASSUME TypeOK, Next
  PROVE  StepShape
<1>1. ASSUME ASLTask
      PROVE cursor = 0 /\ \E D \in SUBSET Ready(Confirmed), S, V \in SUBSET Handle :
                            TaskStep(D, S, V)
  BY <1>1, TaskIs DEF ASLTask
<1>2. ASSUME CheckTimeoutOnTX
      PROVE  MsgStep(cursor, 0) /\ UNCHANGED <<added, conf, sent>> /\ cursor' = After(cursor)
  BY <1>2, PassIs DEF CheckTimeoutOnTX
<1>3. ASSUME NEW k \in Handle, NEW h \in Handle, SearchOriginalRequest(k, h)
      PROVE  /\ MsgStep(h, k) /\ k \in sent /\ h \in Matching(k)
             /\ \A j \in Matching(k) : h <= j
             /\ msg'[h].st = "clear"
             /\ cursor = 0 /\ UNCHANGED <<added, conf, cursor, sent>>
  <2>1. msg[h] \in Message /\ msg \in [Handle -> Message \cup {NoMsg}]
    BY <1>3, QueueType DEF SearchOriginalRequest, Matching, TypeOK
  <2>2. msg'[h].st = "clear"
    BY <1>3, <2>1 DEF SearchOriginalRequest, Message
  <2>3. QED
    BY <1>3, <2>2, SearchIs DEF SearchOriginalRequest
<1>4. QED
  BY <1>1, <1>2, <1>3 DEF Next, StepShape, ContractStep

LEMMA TypeNext == TypeOK /\ [Next]_vars => TypeOK'
<1> SUFFICES ASSUME TypeOK, [Next]_vars PROVE TypeOK'
  OBVIOUS
<1>1. CASE UNCHANGED vars
  <2>1. Queued' = Queued
    BY <1>1 DEF vars, Queued
  <2>2. QED
    BY <1>1, <2>1 DEF vars, TypeOK
<1>2. CASE Next
  <2>0. StepShape
    BY <1>2, NextIs
  <2>1. ASSUME NEW c \in Contract, NEW kind \in Kinds, NEW prio \in Prios, NEW fits \in Fits,
               NEW rto \in RTOs, AddGenericObject(c, kind, prio, fits, rto)
        PROVE  TypeOK'
    BY <2>1, TypeAdd
  <2>2. ASSUME cursor = 0, NEW D \in SUBSET Ready(Confirmed), NEW S \in SUBSET Handle,
               NEW V \in SUBSET Handle, TaskStep(D, S, V)
        PROVE  TypeOK'
    BY <2>2, TypeTask
  <2>3. CASE OneSecond
    BY <2>3, OneSecondIs
  <2>4. CASE MsgStep(cursor, 0) /\ UNCHANGED <<added, conf, sent>> /\ cursor' = After(cursor)
    <3>1. cursor \in Nat /\ cursor \in Int
      BY HandleNat DEF TypeOK
    <3>2. cursor' # 0 => cursor' \in Queued /\ cursor' > cursor
      BY <2>4, <3>1, AfterLater
    <3>3. cursor' # 0 => cursor' \in Queued \ {cursor}
      BY <3>1, <3>2
    <3>4. QED
      BY <2>4, <3>3, TypeMsgStep
  <2>5. ASSUME NEW k \in Handle, NEW h \in Handle, MsgStep(h, k), cursor = 0,
               UNCHANGED <<added, conf, cursor, sent>>
        PROVE  TypeOK'
    BY <2>5, TypeMsgStep
  <2>6. CASE ContractStep
    BY <2>6, ContractIs, TypeContract
  <2>7. QED
    BY <2>0, <2>1, <2>2, <2>3, <2>4, <2>5, <2>6 DEF StepShape
<1>3. QED
  BY <1>1, <1>2

\* Type correctness of the transmit queue: it is filled in the order of the handles,
\* and the one-second pass only ever stands on a message that is still queued.
THEOREM AslTypeCorrect == Spec => []TypeOK
BY TypeInit, TypeNext, PTL DEF Spec

-----------------------------------------------------------------------------
(* What the application is told, and the abstract service.                 *)

\* A message that is queued, or not yet, has not been told of.
ToldInv ==
  \A h \in Handle : Len(told[h]) <= 1 /\ (h > added \/ h \in Queued => told[h] = << >>)

\* The fate of a message, by cases that exclude each other.
FateOf(h, a, Q, t) ==
  IF h > a THEN "idle"
  ELSE IF h \in Q THEN "pending"
  ELSE IF t = << >> THEN "discarded"
  ELSE IF t[1] = 0 THEN "failed" ELSE "answered"

LEMMA FateIs ==
  ASSUME TypeOK
  PROVE  fate = [h \in Handle |-> FateOf(h, added, Queued, told[h])]
<1>1. added \in Int /\ \A h \in Handle : h \in Int
  <2>1. added \in Int
    BY ConstantsOK DEF TypeOK
  <2>2. QED
    BY <2>1, HandleNat
<1>2. \A h \in Handle : h \in Queued => ~ (h > added)
  BY <1>1, QueueType
<1>3. ASSUME NEW h \in Handle
      PROVE  (CASE h > added -> "idle"
             [] h \in Queued -> "pending"
             [] h <= added /\ h \notin Queued ->
                  IF told[h] = << >> THEN "discarded"
                  ELSE IF told[h][1] = 0 THEN "failed" ELSE "answered")
             = FateOf(h, added, Queued, told[h])
  <2>1. CASE h > added
    <3>1. h \notin Queued /\ ~ (h <= added)
      BY <1>1, <1>2, <2>1
    <3>2. QED
      BY <2>1, <3>1 DEF FateOf
  <2>2. CASE h \in Queued
    BY <1>2, <2>2 DEF FateOf
  <2>3. CASE ~ (h > added) /\ h \notin Queued
    <3>1. h <= added
      BY <1>1, <2>3
    <3>2. QED
      BY <2>3, <3>1 DEF FateOf
  <2>4. QED
    BY <2>1, <2>2, <2>3
<1>4. QED
  BY <1>3, Zenon DEF fate

LEMMA FateNext ==
  ASSUME TypeOK'
  PROVE  fate' = [h \in Handle |-> FateOf(h, added', Queued', told'[h])]
<1>1. added' \in Int /\ \A h \in Handle : h \in Int
  BY HandleNat, ConstantsOK DEF TypeOK
<1>2. \A h \in Handle : h \in Queued' => ~ (h > added')
  <2>1. \A h \in Handle : ~ (h <= added') => msg'[h] = NoMsg
    BY DEF TypeOK
  <2>2. QED
    BY <1>1, <2>1, NoMsgNotMessage DEF Queued
<1>3. ASSUME NEW h \in Handle
      PROVE  (CASE h > added' -> "idle"
             [] h \in Queued' -> "pending"
             [] h <= added' /\ h \notin Queued' ->
                  IF told'[h] = << >> THEN "discarded"
                  ELSE IF told'[h][1] = 0 THEN "failed" ELSE "answered")
             = FateOf(h, added', Queued', told'[h])
  <2>1. CASE h > added'
    <3>1. h \notin Queued' /\ ~ (h <= added')
      BY <1>1, <1>2, <2>1
    <3>2. QED
      BY <2>1, <3>1 DEF FateOf
  <2>2. CASE h \in Queued'
    BY <1>2, <2>2 DEF FateOf
  <2>3. CASE ~ (h > added') /\ h \notin Queued'
    <3>1. h <= added'
      BY <1>1, <2>3
    <3>2. QED
      BY <2>3, <3>1 DEF FateOf
  <2>4. QED
    BY <2>1, <2>2, <2>3
<1>4. QED
  BY <1>3, Zenon DEF fate

LEMMA ToldSame ==
  ASSUME TypeOK, ToldInv, TypeOK', UNCHANGED <<msg, added, told>>
  PROVE  ToldInv' /\ fate' = fate
<1>1. msg' = msg /\ added' = added /\ told' = told
  OBVIOUS
<1>2. Queued' = Queued
  BY <1>1 DEF Queued
<1>3. ToldInv'
  BY <1>1, <1>2 DEF ToldInv
<1>4. fate' = fate
  BY <1>1, <1>2, FateIs, FateNext
<1>5. QED
  BY <1>3, <1>4

\* A new message.
LEMMA ToldAdd ==
  ASSUME TypeOK, ToldInv, NEW c \in Contract, NEW kind \in Kinds, NEW prio \in Prios,
         NEW fits \in Fits, NEW rto \in RTOs, AddGenericObject(c, kind, prio, fits, rto)
  PROVE  ToldInv' /\ \E h \in Handle : Service!Submit(h)
<1>1. PICK a \in Handle : a = added + 1
  BY TypeAdd
<1>2. TypeOK' /\ added' = a /\ told' = told
  BY <1>1, TypeAdd DEF AddGenericObject
<1>3. added \in Nat /\ a \in Nat /\ \A h \in Handle : h \in Nat
  <2>1. added \in Nat
    BY ConstantsOK DEF TypeOK
  <2>2. QED
    BY <2>1, HandleNat
<1>4. msg' = [msg EXCEPT ![a] = msg'[a]]
      /\ msg'[a].st = IF kind = "req" THEN "ready" ELSE "readyNoFC"
  BY <1>1, TypeAdd
<1>5. \A h \in Handle : h # a => msg'[h] = msg[h] /\ (h > added <=> h > a)
  BY <1>1, <1>3, <1>4 DEF TypeOK
<1>6. a > added /\ ~ (a > a) /\ ~ (a <= added)
  BY <1>1, <1>3
<1>7. a \in Queued'
  BY <1>4 DEF Queued
<1>8. a \notin Queued
  BY <1>6, QueueType
<1>9. \A h \in Handle : h # a => (h \in Queued' <=> h \in Queued)
  BY <1>5 DEF Queued
<1>10. ToldInv'
  BY <1>1, <1>2, <1>5, <1>6, <1>9 DEF ToldInv
<1>11. fate[a] = "idle" /\ fate'[a] = "pending"
  BY <1>2, <1>6, <1>7, FateIs, FateNext DEF FateOf
<1>12. \A h \in Handle : h # a => fate'[h] = fate[h]
  BY <1>2, <1>5, <1>9, FateIs, FateNext DEF FateOf
<1>13. fate' = [fate EXCEPT ![a] = "pending"]
  <2>1. fate' = [h \in Handle |-> fate'[h]] /\ fate = [h \in Handle |-> fate[h]]
    BY <1>2, FateIs, FateNext, Zenon
  <2>2. QED
    BY <1>11, <1>12, <2>1
<1>14. QED
  BY <1>10, <1>11, <1>13 DEF Service!Submit

\* A turn of the task: the messages without a contract fail, the confirmed ones that
\* expect no response and those that fit into no packet are discarded.
LEMMA ToldTask ==
  ASSUME TypeOK, ToldInv, TypeOK', NEW D, NEW S, NEW V, TaskStep(D, S, V)
  PROVE  ToldInv' /\ \E F, G \in SUBSET Handle : Service!Resolve(F, G)
<1> DEFINE O == Orphaned(Confirmed, D)
           G == {h \in Queued : msg'[h].st = "clear"}
<1>0. added' = added /\ added \in Int /\ \A h \in Handle : h \in Int
  <2>1. added' = added
    BY DEF TaskStep
  <2>2. QED
    BY <2>1, HandleNat, ConstantsOK DEF TypeOK
<1>1. O \subseteq Queued /\ O \subseteq Handle
  BY ReadyIs DEF TaskStep, Queued
<1>2. O \subseteq G
  BY <1>1, TaskMsg, QueueType DEF Queued
<1>3. G \subseteq Queued /\ G \in SUBSET Handle /\ O \in SUBSET Handle
  BY <1>1 DEF Queued
<1>4. \A h \in Handle : told'[h] = IF h \in O THEN Append(told[h], 0) ELSE told[h]
  BY DEF TaskStep, Notified
<1>5. \A h \in Handle : h \in Queued' <=> h \in Queued \ G
  <2> SUFFICES ASSUME NEW h \in Handle PROVE h \in Queued' <=> h \in Queued \ G
    OBVIOUS
  <2>1. CASE h > added
    <3>1. msg'[h] = NoMsg /\ h \notin Queued
      BY <1>0, <2>1, TaskMsg, QueueType
    <3>2. QED
      BY <3>1, NoMsgNotMessage DEF Queued
  <2>2. CASE h <= added
    <3>1. msg'[h] \in Message /\ (msg[h].st = "clear" => msg'[h].st = "clear")
      BY <2>2, TaskMsg DEF ReadyStates
    <3>2. msg'[h].st # "none" /\ (h \in Queued <=> msg[h].st # "clear")
      BY <2>2, <3>1, QueueType, MessageType
    <3>3. QED
      BY <3>1, <3>2 DEF Queued
  <2>3. QED
    BY <1>0, <2>1, <2>2
<1> HIDE DEF O, G
<1>6. \A h \in O : told[h] = << >> /\ told'[h] = << 0 >>
  <2>1. \A h \in O : told[h] = << >>
    BY <1>1 DEF ToldInv
  <2>2. \A h \in O : told'[h] = Append(<< >>, 0)
    BY <1>1, <1>4, <2>1
  <2>3. QED
    BY <2>1, <2>2
<1>7. ToldInv'
  <2> SUFFICES ASSUME NEW h \in Handle
               PROVE  Len(told'[h]) <= 1 /\ (h > added' \/ h \in Queued' => told'[h] = << >>)
    BY DEF ToldInv
  <2>1. CASE h \in O
    <3>1. told'[h] = << 0 >> /\ h \notin Queued'
      BY <1>2, <1>5, <1>6, <2>1
    <3>2. ~ (h > added')
      BY <1>0, <1>1, <2>1, QueueType
    <3>3. QED
      BY <3>1, <3>2
  <2>2. CASE h \notin O
    BY <1>0, <1>4, <1>5, <2>2 DEF ToldInv
  <2>3. QED
    BY <2>1, <2>2
<1>8. \A h \in O \cup G : fate[h] = "pending"
  <2>1. \A h \in Queued : ~ (h > added) /\ h \in Handle
    BY <1>0, QueueType DEF Queued
  <2>2. QED
    BY <1>1, <1>3, <2>1, FateIs DEF FateOf
<1>9. ASSUME NEW h \in Handle
      PROVE  fate'[h] = CASE h \in O -> "failed"
                          [] h \in G \ O -> "discarded"
                          [] OTHER -> fate[h]
  <2>0. /\ fate[h] = FateOf(h, added, Queued, told[h])
        /\ fate'[h] = FateOf(h, added', Queued', told'[h])
    BY FateIs, FateNext
  <2>1. h \in Queued => ~ (h > added)
    BY <1>0, QueueType
  <2>2. CASE h \in O
    <3>1. told'[h] = << 0 >> /\ h \notin Queued' /\ ~ (h > added')
      BY <1>0, <1>1, <1>2, <1>5, <1>6, <2>1, <2>2
    <3>2. << 0 >>[1] = 0 /\ << 0 >> # << >>
      OBVIOUS
    <3>3. QED
      BY <2>0, <2>2, <3>1, <3>2 DEF FateOf
  <2>3. CASE h \in G \ O
    <3>1. told'[h] = << >> /\ h \notin Queued' /\ ~ (h > added')
      BY <1>0, <1>3, <1>4, <1>5, <2>1, <2>3 DEF ToldInv
    <3>2. QED
      BY <2>0, <2>3, <3>1 DEF FateOf
  <2>4. CASE h \notin O \cup G
    <3>1. told'[h] = told[h] /\ (h \in Queued' <=> h \in Queued)
      BY <1>4, <1>5, <2>4
    <3>2. QED
      BY <1>0, <2>0, <2>4, <3>1 DEF FateOf
  <2>5. QED
    BY <2>2, <2>3, <2>4
<1>10. fate' = [h \in Handle |-> CASE h \in O -> "failed"
                                   [] h \in G \ O -> "discarded"
                                   [] OTHER -> fate[h]]
  <2>1. fate' = [h \in Handle |-> fate'[h]]
    BY FateNext, Zenon
  <2>2. QED
    BY <1>9, <2>1, Zenon
<1>11. Service!Resolve(O, G)
  BY <1>8, <1>10, Zenon DEF Service!Resolve
<1>12. QED
  BY <1>3, <1>7, <1>11

\* A step of the pass, or an answer.
LEMMA ToldMsgStep ==
  ASSUME TypeOK, ToldInv, TypeOK', NEW h, NEW v \in Handle \cup {0}, MsgStep(h, v),
         UNCHANGED added
  PROVE  /\ ToldInv'
         /\ \/ fate' = fate
            \/ /\ h \in Handle /\ fate[h] = "pending"
               /\ fate' = [fate EXCEPT ![h] = IF v = 0 THEN "failed" ELSE "answered"]
<1>0. /\ h \in Queued /\ h \in Handle /\ added' = added /\ added \in Int /\ h \in Int
      /\ ~ (h > added)
  BY HandleNat, ConstantsOK, QueueType DEF TypeOK, MsgStep, Queued
<1>1. /\ msg \in [Handle -> Message \cup {NoMsg}] /\ msg' = [msg EXCEPT ![h] = msg'[h]]
      /\ msg'[h] \in Message
  BY DEF MsgStep, TypeOK
<1>2. \A k \in Handle : k # h => (k \in Queued' <=> k \in Queued)
  BY <1>0, <1>1 DEF Queued
<1>3. \A k \in Handle : fate[k] = FateOf(k, added, Queued, told[k])
                        /\ fate'[k] = FateOf(k, added', Queued', told'[k])
  BY FateIs, FateNext
<1>4. fate' = [k \in Handle |-> fate'[k]] /\ fate = [k \in Handle |-> fate[k]]
  BY FateIs, FateNext, Zenon
<1>5. told[h] = << >> /\ told \in [Handle -> Seq(Handle \cup {0})]
  BY <1>0 DEF ToldInv, TypeOK
<1>6. CASE msg'[h].st = "clear" /\ told' = [told EXCEPT ![h] = Append(@, v)]
  <2>1. h \notin Queued'
    BY <1>6 DEF Queued
  <2>2. told'[h] = Append(<< >>, v)
    BY <1>0, <1>5, <1>6
  <2>3. told'[h] = << v >>
    BY <2>2
  <2>4. \A k \in Handle : k # h => told'[k] = told[k]
    BY <1>5, <1>6
  <2>5. ToldInv'
    <3>1. Len(<< v >>) <= 1
      OBVIOUS
    <3>2. Len(told'[h]) <= 1 /\ h \notin Queued' /\ ~ (h > added')
      BY <1>0, <2>1, <2>3, <3>1
    <3>3. \A k \in Handle : k # h =>
             Len(told'[k]) <= 1 /\ (k > added' \/ k \in Queued' => told'[k] = << >>)
      BY <1>0, <1>2, <2>4 DEF ToldInv
    <3>4. QED
      BY <3>2, <3>3 DEF ToldInv
  <2>6. fate[h] = "pending"
    BY <1>0, <1>3 DEF FateOf
  <2>7. fate'[h] = IF v = 0 THEN "failed" ELSE "answered"
    <3>1. << v >>[1] = v /\ << v >> # << >>
      OBVIOUS
    <3>2. fate'[h] = FateOf(h, added', Queued', << v >>)
      BY <1>0, <1>3, <2>3
    <3>3. QED
      BY <1>0, <2>1, <3>1, <3>2 DEF FateOf
  <2>8. \A k \in Handle : k # h => fate'[k] = fate[k]
    BY <1>0, <1>2, <1>3, <2>4 DEF FateOf
  <2>9. QED
    BY <1>0, <1>4, <2>5, <2>6, <2>7, <2>8
<1>7. CASE msg'[h].st # "clear" /\ told' = told
  <2>1. h \in Queued'
    BY <1>0, <1>1, <1>7, MessageType DEF Queued
  <2>2. \A k \in Handle : k \in Queued' <=> k \in Queued
    BY <1>0, <1>2, <2>1
  <2>3. ToldInv'
    BY <1>0, <1>7, <2>2 DEF ToldInv
  <2>4. \A k \in Handle : fate'[k] = fate[k]
    BY <1>0, <1>3, <1>7, <2>2 DEF FateOf
  <2>5. QED
    BY <1>4, <2>3, <2>4
<1>8. msg'[h].st # "clear" => told' = told
  BY DEF MsgStep
<1>9. msg'[h].st = "clear" => told' = [told EXCEPT ![h] = Append(@, v)]
  <2>1. msg[h].st # "clear"
    BY <1>0 DEF Queued
  <2>2. QED
    BY <2>1 DEF MsgStep
<1>10. QED
  BY <1>6, <1>7, <1>8, <1>9

\* Every step keeps ToldInv and is a step of the service or changes no fate.
LEMMA ToldNext ==
  ASSUME TypeOK, ToldInv, [Next]_vars
  PROVE  ToldInv' /\ [Service!Next]_fate
<1>0. TypeOK'
  BY TypeNext
<1>1. CASE UNCHANGED vars
  BY <1>0, <1>1, ToldSame DEF vars
<1>2. CASE Next
  <2>0. StepShape
    BY <1>2, NextIs
  <2>1. ASSUME NEW c \in Contract, NEW kind \in Kinds, NEW prio \in Prios, NEW fits \in Fits,
               NEW rto \in RTOs, AddGenericObject(c, kind, prio, fits, rto)
        PROVE  ToldInv' /\ [Service!Next]_fate
    BY <2>1, ToldAdd DEF Service!Next
  <2>2. ASSUME cursor = 0, NEW D \in SUBSET Ready(Confirmed), NEW S \in SUBSET Handle,
               NEW V \in SUBSET Handle, TaskStep(D, S, V)
        PROVE  ToldInv' /\ [Service!Next]_fate
    BY <1>0, <2>2, ToldTask DEF Service!Next
  <2>3. CASE OneSecond
    BY <1>0, <2>3, OneSecondIs, ToldSame
  <2>4. CASE MsgStep(cursor, 0) /\ UNCHANGED <<added, conf, sent>> /\ cursor' = After(cursor)
    <3>1. PICK h : h = cursor
      OBVIOUS
    <3>2. /\ ToldInv'
          /\ \/ fate' = fate
             \/ h \in Handle /\ fate[h] = "pending" /\ fate' = [fate EXCEPT ![h] = "failed"]
      BY <1>0, <2>4, <3>1, ToldMsgStep
    <3>3. ASSUME h \in Handle, fate[h] = "pending", fate' = [fate EXCEPT ![h] = "failed"]
          PROVE  Service!Resolve({h}, {})
      <4>1. fate = [k \in Handle |-> fate[k]]
        BY FateIs, Zenon
      <4>2. fate' = [k \in Handle |-> CASE k \in {h} -> "failed"
                                        [] k \in {} \ {h} -> "discarded"
                                        [] OTHER -> fate[k]]
        BY <3>3, <4>1
      <4>3. \A k \in {h} \cup {} : fate[k] = "pending"
        BY <3>3
      <4>4. QED
        BY <4>2, <4>3, Zenon DEF Service!Resolve
    <3>4. h \in Handle => {h} \in SUBSET Handle /\ {} \in SUBSET Handle
      OBVIOUS
    <3>5. QED
      BY <3>2, <3>3, <3>4 DEF Service!Next
  <2>5. ASSUME NEW k \in Handle, NEW h \in Handle, MsgStep(h, k), cursor = 0,
               UNCHANGED <<added, conf, cursor, sent>>
        PROVE  ToldInv' /\ [Service!Next]_fate
    <3>1. k # 0
      BY HandleNat
    <3>2. /\ ToldInv'
          /\ \/ fate' = fate
             \/ h \in Handle /\ fate[h] = "pending" /\ fate' = [fate EXCEPT ![h] = "answered"]
      BY <1>0, <2>5, <3>1, ToldMsgStep
    <3>3. QED
      BY <3>2 DEF Service!Next, Service!Answer
  <2>6. CASE ContractStep
    BY <1>0, <2>6, ContractIs, ToldSame
  <2>7. QED
    BY <2>0, <2>1, <2>2, <2>3, <2>4, <2>5, <2>6 DEF StepShape
<1>3. QED
  BY <1>1, <1>2

LEMMA ToldInit ==
  ASSUME Init
  PROVE  ToldInv /\ Service!Init
<1>1. TypeOK
  BY TypeInit
<1>2. \A h \in Handle : told[h] = << >> /\ h > added
  BY HandleNat DEF Init
<1>3. ToldInv
  BY <1>2 DEF ToldInv
<1>4. fate = [h \in Handle |-> "idle"]
  BY <1>1, <1>2, FateIs DEF FateOf
<1>5. QED
  BY <1>3, <1>4 DEF Service!Init

\* The application hears of a message at most once, whatever timeouts, late or
\* repeated answers, expiry and lost contracts coincide.
THEOREM AslToldOnce == Spec => []ToldOnce
<1>1. Init => TypeOK /\ ToldInv
  BY TypeInit, ToldInit
<1>2. TypeOK /\ ToldInv /\ [Next]_vars => TypeOK' /\ ToldInv'
  BY TypeNext, ToldNext
<1>3. ToldInv => ToldOnce
  BY DEF ToldInv, ToldOnce
<1>4. QED
  BY <1>1, <1>2, <1>3, PTL DEF Spec

\* The queue of aslde.cpp implements AslService, on which the services above are
\* built: each accepted message is answered, fails or is discarded, and only once.
THEOREM AslImplementsService == Spec => ImplementsAslService
<1>1. Init => TypeOK /\ ToldInv /\ Service!Init
  BY TypeInit, ToldInit
<1>2. TypeOK /\ ToldInv /\ [Next]_vars => TypeOK' /\ ToldInv' /\ [Service!Next]_fate
  BY TypeNext, ToldNext
<1>3. QED
  BY <1>1, <1>2, PTL DEF Spec, ImplementsAslService, Service!Spec

-----------------------------------------------------------------------------
(* The send windows.                                                       *)

\* What the window needs of a message: it enters the window when it is first sent,
\* only a request does, and a request that has been sent is in it until it ends.
MsgInv(h) ==
  LET m == msg[h] IN
  /\ m.kind \in Kinds /\ m.prio \in Prios
  /\ m.st = "ready" => m.kind = "req" /\ ~m.inWnd
  /\ m.inWnd => m.kind = "req" /\ m.fits
  /\ m.kind = "req" => m.st # "waitTL"
  /\ m.kind = "req" /\ m.st \in {"readyNoFC", "waitRsp", "confirmed"} => m.inWnd
  /\ m.gen <= contract[m.c].gen
  /\ MaxGen <= 1 => HasContract(m)

\* The messages of a contract are queued in the order of its generations.
GenOrder ==
  \A h, k \in Handle : h <= k /\ k <= added /\ msg[h].c = msg[k].c => msg[h].gen <= msg[k].gen

GenInv == \A c \in Contract : contract[c].gen >= 1 /\ (MaxGen <= 1 => contract[c].live)

QueueInv == (\A h \in Handle : h <= added => MsgInv(h)) /\ GenOrder /\ GenInv

\* All messages have one priority, or no contract is ever made again.  Otherwise a
\* message of a contract that is gone can be sent on the one that has taken its id
\* (aslde.cpp:853), and takes a place there that its end does not free.
NoStaleSend == (\A p, r \in Prios : p = r) \/ MaxGen <= 1

\* The inductive invariant of the windows: no place leaks; none is freed twice
\* unless contracts are rewritten; a closed window has a request outstanding, if all
\* messages expect a response.
WindowInv ==
  /\ NoSlotLeaked
  /\ ~Rewrites => SlotsAccounted
  /\ Kinds \subseteq {"req"} => WindowReopens

\* A message that goes on in one of the ways of the code keeps its invariant.
LEMMA MsgInvKept ==
  ASSUME NEW h \in Handle, msg[h] \in Message, msg'[h] \in Message, MsgInv(h),
         Same(msg[h], msg'[h]),
         contract'[msg[h].c].live = contract[msg[h].c].live,
         contract'[msg[h].c].gen = contract[msg[h].c].gen,
         \/ msg'[h].st = "clear" /\ msg'[h].inWnd = msg[h].inWnd
         \/ /\ msg[h].st \in ReadyStates /\ msg[h].fits
            /\ msg'[h].st = IF msg[h].kind = "req" THEN "waitRsp" ELSE "waitTL"
            /\ msg'[h].inWnd = (msg[h].inWnd \/ msg[h].st = "ready")
         \/ /\ msg'[h].inWnd = msg[h].inWnd
            /\ \/ msg'[h].st = msg[h].st
               \/ msg[h].st = "waitRsp" /\ msg'[h].st = "confirmed"
               \/ /\ msg[h].st \notin ReadyStates \cup {"clear"}
                  /\ msg'[h].st = "readyNoFC"
  PROVE  MsgInv(h)'
<1> DEFINE m == msg[h]
           n == msg'[h]
<1>1. m.st \in Status /\ m.st # "none" /\ m.kind \in {"req", "norsp"} /\ n.st \in Status
  BY MessageType
<1>2. /\ n.kind \in Kinds /\ n.prio \in Prios
      /\ n.gen <= contract'[n.c].gen
      /\ MaxGen <= 1 => contract'[n.c].live /\ contract'[n.c].gen = n.gen
  BY DEF MsgInv, Same, HasContract
<1>3. /\ m.st = "ready" => m.kind = "req" /\ ~m.inWnd
      /\ m.inWnd => m.kind = "req" /\ m.fits
      /\ m.kind = "req" => m.st # "waitTL"
      /\ m.kind = "req" /\ m.st \in {"readyNoFC", "waitRsp", "confirmed"} => m.inWnd
      /\ n.kind = m.kind /\ n.fits = m.fits
  BY DEF MsgInv, Same
<1>4. /\ n.st = "ready" => n.kind = "req" /\ ~n.inWnd
      /\ n.inWnd => n.kind = "req" /\ n.fits
      /\ n.kind = "req" => n.st # "waitTL"
      /\ n.kind = "req" /\ n.st \in {"readyNoFC", "waitRsp", "confirmed"} => n.inWnd
  <2>1. CASE n.st = "clear" /\ n.inWnd = m.inWnd
    BY <1>3, <2>1
  <2>2. CASE /\ m.st \in ReadyStates /\ m.fits
             /\ n.st = IF m.kind = "req" THEN "waitRsp" ELSE "waitTL"
             /\ n.inWnd = (m.inWnd \/ m.st = "ready")
    <3>1. n.inWnd <=> m.inWnd \/ m.st = "ready"
      BY <2>2
    <3>2. QED
      BY <1>1, <1>3, <2>2, <3>1 DEF ReadyStates
  <2>3. CASE n.inWnd = m.inWnd /\ n.st = m.st
    BY <1>3, <2>3
  <2>4. CASE n.inWnd = m.inWnd /\ m.st = "waitRsp" /\ n.st = "confirmed"
    BY <1>3, <2>4
  <2>5. CASE n.inWnd = m.inWnd /\ m.st \notin ReadyStates \cup {"clear"} /\ n.st = "readyNoFC"
    <3>1. m.st \in {"waitTL", "waitRsp", "confirmed"}
      BY <1>1, <2>5 DEF Status, ReadyStates
    <3>2. QED
      BY <1>3, <2>5, <3>1
  <2>6. QED
    BY <2>1, <2>2, <2>3, <2>4, <2>5
<1>5. QED
  BY <1>2, <1>4 DEF MsgInv, HasContract

\* A step that keeps the messages in place and the contracts' generations.
LEMMA QueueKept ==
  ASSUME TypeOK, QueueInv, added' = added,
         \A c \in Contract : contract'[c].live = contract[c].live
                             /\ contract'[c].gen = contract[c].gen,
         \A h \in Handle : h <= added => Same(msg[h], msg'[h]) /\ MsgInv(h)'
  PROVE  QueueInv'
<1>1. added \in Int /\ \A h \in Handle : h \in Int
  BY HandleNat, ConstantsOK DEF TypeOK
<1>2. GenOrder'
  <2> SUFFICES ASSUME NEW h \in Handle, NEW k \in Handle, h <= k, k <= added,
                      msg'[h].c = msg'[k].c
               PROVE  msg'[h].gen <= msg'[k].gen
    BY DEF GenOrder
  <2>1. h <= added
    BY <1>1
  <2>2. Same(msg[h], msg'[h]) /\ Same(msg[k], msg'[k])
    BY <2>1
  <2>3. QED
    BY <2>2 DEF QueueInv, GenOrder, Same
<1>3. GenInv'
  BY DEF QueueInv, GenInv
<1>4. QED
  BY <1>2, <1>3 DEF QueueInv

LEMMA QueueTask ==
  ASSUME TypeOK, TypeOK', QueueInv, NEW D, NEW S, NEW V, TaskStep(D, S, V)
  PROVE  QueueInv'
<1>1. added' = added /\ \A c \in Contract : contract'[c].live = contract[c].live
                                            /\ contract'[c].gen = contract[c].gen
  BY DEF TaskStep
<1>2. ASSUME NEW h \in Handle, h <= added PROVE Same(msg[h], msg'[h]) /\ MsgInv(h)'
  <2>1. msg[h] \in Message /\ MsgInv(h) /\ msg[h].c \in Contract
    BY <1>2, QueueType, MessageType DEF QueueInv
  <2>2. /\ msg'[h] \in Message /\ Same(msg[h], msg'[h])
        /\ \/ msg'[h].st = "clear" /\ msg'[h].inWnd = msg[h].inWnd
           \/ /\ h \in S /\ msg[h].st \in ReadyStates
              /\ msg'[h].st = IF msg[h].kind = "req" THEN "waitRsp" ELSE "waitTL"
              /\ msg'[h].inWnd = (msg[h].inWnd \/ msg[h].st = "ready")
           \/ /\ msg'[h].inWnd = msg[h].inWnd
              /\ \/ msg'[h].st = msg[h].st
                 \/ msg[h].st = "waitRsp" /\ msg'[h].st = "confirmed"
    BY <1>2, TaskMsg, ZenonT(60)
  <2>3. h \in S => msg[h].fits
    BY DEF TaskStep
  <2>4. contract'[msg[h].c].live = contract[msg[h].c].live
        /\ contract'[msg[h].c].gen = contract[msg[h].c].gen
    BY <1>1, <2>1
  <2>5. MsgInv(h)'
    BY <2>1, <2>2, <2>3, <2>4, MsgInvKept
  <2>6. QED
    BY <2>2, <2>5
<1>3. QED
  BY <1>1, <1>2, QueueKept

LEMMA QueueMsgStep ==
  ASSUME TypeOK, TypeOK', QueueInv, NEW h, NEW v, MsgStep(h, v), UNCHANGED added
  PROVE  QueueInv'
<1>0. h \in Queued /\ h \in Handle /\ msg[h] \in Message /\ msg[h].c \in Contract /\ h <= added
  BY QueueType, MessageType DEF MsgStep, Queued
<1>1. \A c \in Contract : contract'[c].live = contract[c].live
                          /\ contract'[c].gen = contract[c].gen
  BY <1>0 DEF MsgStep, TypeOK
<1>2. \A k \in Handle : k # h => msg'[k] = msg[k]
  BY <1>0 DEF MsgStep, TypeOK
<1>3. MsgInv(h) /\ msg[h].st # "clear"
  BY <1>0 DEF QueueInv, Queued
<1>4. MsgInv(h)' /\ Same(msg[h], msg'[h])
  <2>1. /\ msg'[h] \in Message /\ Same(msg[h], msg'[h]) /\ msg'[h].inWnd = msg[h].inWnd
        /\ \/ msg'[h].st = "clear"
           \/ msg'[h].st = msg[h].st
           \/ msg[h].st \notin ReadyStates \cup {"clear"} /\ msg'[h].st = "readyNoFC"
    BY <1>3 DEF MsgStep
  <2>2. contract'[msg[h].c].live = contract[msg[h].c].live
        /\ contract'[msg[h].c].gen = contract[msg[h].c].gen
    BY <1>0, <1>1
  <2>3. QED
    BY <1>0, <1>3, <2>1, <2>2, MsgInvKept
<1>5. ASSUME NEW k \in Handle, k <= added, k # h PROVE Same(msg[k], msg'[k]) /\ MsgInv(k)'
  <2>1. MsgInv(k) /\ msg'[k] = msg[k] /\ msg[k].c \in Contract
    BY <1>2, <1>5, QueueType, MessageType DEF QueueInv
  <2>2. QED
    BY <1>1, <2>1 DEF MsgInv, HasContract, Same
<1>6. QED
  BY <1>1, <1>4, <1>5, QueueKept

LEMMA QueueAdd ==
  ASSUME TypeOK, QueueInv, NEW c \in Contract, NEW kind \in Kinds, NEW prio \in Prios,
         NEW fits \in Fits, NEW rto \in RTOs, AddGenericObject(c, kind, prio, fits, rto)
  PROVE  QueueInv'
<1>1. PICK a \in Handle : a = added + 1
  BY TypeAdd
<1>2. added \in Nat /\ a \in Nat /\ added' = a /\ \A h \in Handle : h \in Nat
  <2>1. added' = a
    BY <1>1, TypeAdd
  <2>2. QED
    BY <2>1, HandleNat, ConstantsOK DEF TypeOK
<1>3. msg' = [msg EXCEPT ![a] = msg'[a]] /\ msg \in [Handle -> Message \cup {NoMsg}]
  BY <1>1, TypeAdd DEF TypeOK
<1>4. \A h \in Handle : h # a => msg'[h] = msg[h] /\ (h <= a <=> h <= added)
  BY <1>1, <1>2, <1>3
<1>5. \A d \in Contract : contract'[d].live = contract[d].live
                          /\ contract'[d].gen = contract[d].gen
  BY TypeAdd
<1>6. /\ msg'[a] \in Message /\ msg'[a].c = c /\ msg'[a].gen = contract[c].gen
      /\ msg'[a].kind = kind /\ msg'[a].prio = prio /\ msg'[a].inWnd = FALSE
      /\ msg'[a].st = IF kind = "req" THEN "ready" ELSE "readyNoFC"
  BY <1>1, TypeAdd
<1>7. contract[c].gen \in Nat /\ contract[c].live
  BY RecordType DEF TypeOK, AddGenericObject
<1>8. MsgInv(a)'
  BY <1>5, <1>6, <1>7 DEF MsgInv, HasContract
<1>9. ASSUME NEW h \in Handle, h <= added PROVE MsgInv(h)'
  <2>0. h # a
    BY <1>1, <1>2, <1>9
  <2>1. MsgInv(h) /\ msg[h].c \in Contract /\ h # a
    BY <1>9, <2>0, QueueType, MessageType DEF QueueInv
  <2>2. QED
    BY <1>4, <1>5, <2>1 DEF MsgInv, HasContract
<1>10. GenOrder'
  <2> SUFFICES ASSUME NEW h \in Handle, NEW k \in Handle, h <= k, k <= a, msg'[h].c = msg'[k].c
               PROVE  msg'[h].gen <= msg'[k].gen
    BY <1>2 DEF GenOrder
  <2>1. CASE k # a
    <3>1. k <= added /\ h # a
      <4>1. k <= added
        BY <1>4, <2>1
      <4>2. QED
        BY <1>1, <1>2, <4>1
    <3>2. QED
      BY <1>4, <2>1, <3>1 DEF QueueInv, GenOrder
  <2>2. CASE k = a /\ h # a
    <3>1. h <= added /\ msg[h].c = c /\ msg'[h] = msg[h]
      BY <1>2, <1>4, <1>6, <2>2
    <3>2. msg[h].gen <= contract[c].gen
      BY <3>1 DEF QueueInv, MsgInv
    <3>3. QED
      BY <1>6, <2>2, <3>1, <3>2
  <2>3. CASE k = a /\ h = a
    BY <1>6, <1>7, <2>3
  <2>4. QED
    BY <2>1, <2>2, <2>3
<1>11. GenInv'
  BY <1>5 DEF QueueInv, GenInv
<1>12. \A h \in Handle : h <= added' => MsgInv(h)'
  BY <1>2, <1>4, <1>8, <1>9
<1>13. QED
  BY <1>10, <1>11, <1>12 DEF QueueInv

LEMMA QueueContract ==
  ASSUME TypeOK, QueueInv, ContractStep
  PROVE  QueueInv'
<1>1. UNCHANGED <<msg, added, conf, cursor, sent, told>>
  BY ContractIs
<1>2. PICK c \in Contract, w \in ContractRecord :
              /\ contract' = [contract EXCEPT ![c] = w]
              /\ \/ /\ ~w.live /\ w.gen = contract[c].gen
                    /\ contract[c].live /\ contract[c].gen < MaxGen
                 \/ ~contract[c].live /\ w.live /\ w.gen = contract[c].gen + 1
                 \/ w.live = contract[c].live /\ w.gen = contract[c].gen
  BY ContractIs
<1>3. contract \in [Contract -> ContractRecord]
  BY DEF TypeOK
<1>4. contract'[c] = w /\ \A d \in Contract : d # c => contract'[d] = contract[d]
  BY <1>2, <1>3
<1>5. contract[c].gen \in Nat /\ w.gen \in Nat /\ contract[c].gen >= 1 /\ MaxGen \in Nat
      /\ (MaxGen <= 1 => contract[c].live)
  BY <1>3, RecordType, ConstantsOK DEF QueueInv, GenInv
<1>6. /\ w.gen >= contract[c].gen
      /\ MaxGen <= 1 => w.live = contract[c].live /\ w.gen = contract[c].gen
  BY <1>2, <1>5
<1>7. ASSUME NEW h \in Handle, h <= added PROVE MsgInv(h)'
  <2>1. MsgInv(h) /\ msg'[h] = msg[h] /\ msg[h].gen \in Nat /\ msg[h].c \in Contract
    BY <1>1, <1>7, QueueType, MessageType DEF QueueInv
  <2>2. msg[h].gen <= contract'[msg[h].c].gen
    BY <1>4, <1>5, <1>6, <2>1 DEF MsgInv
  <2>3. MaxGen <= 1 => contract'[msg[h].c].live /\ contract'[msg[h].c].gen = msg[h].gen
    BY <1>4, <1>6, <2>1 DEF MsgInv, HasContract
  <2>4. QED
    BY <2>1, <2>2, <2>3 DEF MsgInv, HasContract
<1>8. GenInv'
  <2>1. w.gen >= 1 /\ (MaxGen <= 1 => w.live)
    BY <1>5, <1>6
  <2>2. QED
    BY <1>4, <2>1 DEF QueueInv, GenInv
<1>9. GenOrder'
  BY <1>1 DEF QueueInv, GenOrder
<1>10. QED
  BY <1>1, <1>7, <1>8, <1>9 DEF QueueInv

LEMMA QueueInit == Init => QueueInv
<1> SUFFICES ASSUME Init PROVE QueueInv
  OBVIOUS
<1>1. added = 0 /\ \A h \in Handle : h \in Nat \ {0}
  BY HandleNat DEF Init
<1>2. ASSUME NEW c \in Contract PROVE contract[c].gen = 1 /\ contract[c].live
  <2>1. PICK n \in 1..Window : contract[c] = [Fresh(1, 0) EXCEPT !.crt = n]
    BY DEF Init
  <2>2. QED
    BY <2>1 DEF Fresh
<1>3. GenInv
  BY <1>2 DEF GenInv
<1>4. QED
  BY <1>1, <1>3 DEF QueueInv, GenOrder

LEMMA QueueNext ==
  ASSUME TypeOK, QueueInv, [Next]_vars
  PROVE  QueueInv'
<1>0. TypeOK'
  BY TypeNext
<1>1. ASSUME UNCHANGED <<msg, added, contract>> PROVE QueueInv'
  BY <1>1 DEF QueueInv, MsgInv, HasContract, GenOrder, GenInv
<1>2. CASE Next
  <2>0. StepShape
    BY <1>2, NextIs
  <2>1. ASSUME NEW c \in Contract, NEW kind \in Kinds, NEW prio \in Prios, NEW fits \in Fits,
               NEW rto \in RTOs, AddGenericObject(c, kind, prio, fits, rto)
        PROVE  QueueInv'
    BY <2>1, QueueAdd
  <2>2. ASSUME NEW D \in SUBSET Ready(Confirmed), NEW S \in SUBSET Handle,
               NEW V \in SUBSET Handle, TaskStep(D, S, V)
        PROVE  QueueInv'
    BY <1>0, <2>2, QueueTask
  <2>3. CASE OneSecond
    BY <1>1, <2>3, OneSecondIs
  <2>4. ASSUME NEW h, NEW v, MsgStep(h, v), UNCHANGED added PROVE QueueInv'
    BY <1>0, <2>4, QueueMsgStep
  <2>5. CASE ContractStep
    BY <2>5, QueueContract
  <2>6. QED
    BY <2>0, <2>1, <2>2, <2>3, <2>4, <2>5 DEF StepShape
<1>3. QED
  BY <1>1, <1>2 DEF vars

\* The requests that hold a place in the window of d.
LEMMA OutstandingIs ==
  ASSUME TypeOK, NEW d, NEW h
  PROVE  h \in Outstanding(d) <=>
           /\ h \in Handle /\ h <= added /\ msg[h].st # "clear"
           /\ msg[h].inWnd /\ msg[h].c = d /\ HasContract(msg[h])
<1>1. h \in Queued <=> h \in Handle /\ h <= added /\ msg[h].st # "clear"
  BY QueueType DEF Queued
<1>2. QED
  BY <1>1, Zenon DEF Outstanding

LEMMA OutstandingNext ==
  ASSUME TypeOK', NEW d, NEW h
  PROVE  h \in Outstanding(d)' <=>
           /\ h \in Handle /\ h <= added' /\ msg'[h].st # "clear"
           /\ msg'[h].inWnd /\ msg'[h].c = d /\ HasContract(msg[h])'
<1>1. \A k \in Handle : msg'[k] \in Message <=> k <= added'
  BY DEF TypeOK
<1>2. \A k \in Handle : msg'[k] \in Message \cup {NoMsg}
  BY DEF TypeOK
<1>3. h \in Queued' <=> h \in Handle /\ h <= added' /\ msg'[h].st # "clear"
  BY <1>1, <1>2, MessageType, NoMsgNotMessage DEF Queued
<1>4. QED
  BY <1>3, Zenon DEF Outstanding

LEMMA OutstandingFinite ==
  ASSUME NEW d
  PROVE  IsFiniteSet(Outstanding(d)) /\ Cardinality(Outstanding(d)) \in Nat
<1>1. Outstanding(d) \in SUBSET Handle
  BY DEF Outstanding, Queued
<1>2. QED
  BY <1>1, HandlesFinite

\* Nothing is sent on a contract that is not the message's own.
LEMMA SentHasContract ==
  ASSUME TypeOK, QueueInv, NoStaleSend, NEW D \in SUBSET Ready(Confirmed), NEW S, NEW V,
         TaskStep(D, S, V), NEW h \in S
  PROVE  HasContract(msg[h])
<1> DEFINE q == Confirmed
<1>0. h \in Ready(q) \ Orphaned(q, D) /\ \E f \in Highest(q, D) : msg[f].c = msg[h].c
  BY DEF TaskStep
<1>1. \A k \in Ready(q) : /\ k \in Handle /\ k <= added /\ k \in Int /\ q[k] = msg[k]
                          /\ msg[k] \in Message /\ MsgInv(k)
  BY ReadyIs, HandleNat DEF Ready, QueueInv
<1>2. CASE MaxGen <= 1
  BY <1>0, <1>1, <1>2 DEF MsgInv
<1>3. CASE \A p, r \in Prios : p = r
  <2> SUFFICES ASSUME ~HasContract(msg[h]) PROVE FALSE
    OBVIOUS
  <2>1. PICK f \in Highest(q, D) : msg[f].c = msg[h].c
    BY <1>0
  <2>2. f \in Eligible(q, D) /\ f \in Ready(q) /\ HasContract(q[f])
    BY DEF Highest, Eligible
  <2>3. h \notin Examined(q, D)
    BY <1>0, <1>1 DEF Orphaned
  <2>4. PICK k \in Eligible(q, D) : k < h
    BY <1>0, <2>3 DEF Examined
  <2>5. k \in Ready(q) /\ q[k].prio = q[f].prio /\ q[k].prio \in Nat
    <3>1. k \in Ready(q)
      BY DEF Eligible
    <3>2. QED
      BY <1>1, <1>3, <2>2, <3>1, MessageType DEF MsgInv
  <2>6. k = f \/ f < k
    BY <2>5 DEF Highest
  <2>7. f <= h
    BY <1>0, <1>1, <2>2, <2>4, <2>5, <2>6
  <2>8. msg[f].gen <= msg[h].gen /\ msg[h].gen <= contract[msg[h].c].gen
    BY <1>0, <1>1, <2>1, <2>2, <2>7 DEF QueueInv, GenOrder, MsgInv
  <2>9. msg[f].gen \in Nat /\ msg[h].gen \in Nat
    BY <1>0, <1>1, <2>2, MessageType
  <2>10. contract[msg[h].c].live /\ contract[msg[h].c].gen = msg[f].gen
    BY <1>1, <2>1, <2>2 DEF HasContract
  <2>11. contract[msg[h].c].gen = msg[h].gen
    BY <2>8, <2>9, <2>10
  <2>12. QED
    BY <2>10, <2>11 DEF HasContract
<1>4. QED
  BY <1>2, <1>3 DEF NoStaleSend

\* A turn of the task adds the requests it sends for the first time.
LEMMA TaskOutstanding ==
  ASSUME TypeOK, TypeOK', QueueInv, NoStaleSend, NEW D \in SUBSET Ready(Confirmed), NEW S,
         NEW V, TaskStep(D, S, V), NEW d \in Contract
  PROVE  /\ Outstanding(d)' = Outstanding(d) \cup Sent(S, d)
         /\ Outstanding(d) \cap Sent(S, d) = {}
<1>0. /\ added' = added
      /\ \A c \in Contract : contract'[c].live = contract[c].live
                             /\ contract'[c].gen = contract[c].gen
  BY DEF TaskStep
<1>1. S \subseteq Ready(Confirmed)
  BY Zenon DEF TaskStep
<1>2. \A h \in S : h \in Handle /\ h <= added /\ HasContract(msg[h])
  BY <1>1, ReadyIs, SentHasContract DEF Ready
<1>3. \A h \in Orphaned(Confirmed, D) : ~HasContract(msg[h])
  <2>1. \A h \in Orphaned(Confirmed, D) : h \in Ready(Confirmed) /\ ~HasContract(Confirmed[h])
    BY DEF Orphaned, Examined
  <2>2. QED
    BY <2>1, ReadyIs
<1>4. \A h \in V : ~msg[h].fits
  BY DEF TaskStep
<1>5. ASSUME NEW h \in Handle, h <= added
      PROVE  h \in Outstanding(d)' <=> h \in Outstanding(d) \/ h \in Sent(S, d)
  <2>0. msg[h] \in Message /\ msg[h].c \in Contract /\ MsgInv(h)
    BY <1>5, QueueType, MessageType DEF QueueInv
  <2>1. Same(msg[h], msg'[h])
    BY <1>5, TaskMsg
  <2>2. HasContract(msg[h])' <=> HasContract(msg[h])
    BY <1>0, <2>0, <2>1 DEF HasContract, Same
  <2>3. h \in Outstanding(d)' <=> /\ msg'[h].st # "clear" /\ msg'[h].inWnd
                                  /\ msg[h].c = d /\ HasContract(msg[h])
    BY <1>0, <1>5, <2>1, <2>2, OutstandingNext DEF Same
  <2>4. h \in Outstanding(d) <=> /\ msg[h].st # "clear" /\ msg[h].inWnd
                                 /\ msg[h].c = d /\ HasContract(msg[h])
    BY <1>5, OutstandingIs
  <2>5. h \in Sent(S, d) <=> h \in S /\ msg[h].st = "ready" /\ msg[h].c = d
    BY DEF Sent
  <2>6. \/ /\ h \in Orphaned(Confirmed, D) \cup V /\ h \notin S /\ msg'[h].st = "clear"
        \/ /\ h \in S /\ msg[h].st \in ReadyStates
           /\ msg'[h].st = IF msg[h].kind = "req" THEN "waitRsp" ELSE "waitTL"
           /\ msg'[h].inWnd = (msg[h].inWnd \/ msg[h].st = "ready")
        \/ /\ h \notin S /\ msg'[h].inWnd = msg[h].inWnd
           /\ \/ msg'[h].st = msg[h].st
              \/ msg[h].st = "waitTL" /\ msg'[h].st = "clear"
              \/ msg[h].st = "waitRsp" /\ msg'[h].st = "confirmed"
    <3> DEFINE O == Orphaned(Confirmed, D)
    <3>1. \/ /\ h \in O \cup V /\ h \notin S /\ msg[h].st \in ReadyStates
             /\ msg'[h].st = "clear" /\ msg'[h].inWnd = msg[h].inWnd
          \/ /\ h \in S /\ h \notin O \cup V /\ msg[h].st \in ReadyStates
             /\ msg'[h].st = IF msg[h].kind = "req" THEN "waitRsp" ELSE "waitTL"
             /\ msg'[h].inWnd = (msg[h].inWnd \/ msg[h].st = "ready")
          \/ /\ h \notin O \cup V \cup S /\ msg'[h].inWnd = msg[h].inWnd
             /\ \/ msg'[h].st = msg[h].st
                \/ msg[h].st = "waitTL" /\ msg'[h].st = "clear"
                \/ msg[h].st = "waitRsp" /\ msg'[h].st = "confirmed"
      BY <1>5, TaskMsg, Zenon
    <3>2. h \notin O \cup V \cup S => h \notin S
      OBVIOUS
    <3> HIDE DEF O
    <3>3. QED
      BY <3>1, <3>2, Zenon DEF O
  <2>7. CASE h \in Orphaned(Confirmed, D) \cup V /\ h \notin S /\ msg'[h].st = "clear"
    <3>1. ~HasContract(msg[h]) \/ ~msg[h].inWnd
      BY <1>3, <1>4, <2>0, <2>7 DEF MsgInv
    <3>2. QED
      BY <2>3, <2>4, <2>5, <2>7, <3>1
  <2>8. CASE /\ h \in S /\ msg[h].st \in ReadyStates
             /\ msg'[h].st = IF msg[h].kind = "req" THEN "waitRsp" ELSE "waitTL"
             /\ msg'[h].inWnd = (msg[h].inWnd \/ msg[h].st = "ready")
    BY <1>2, <2>3, <2>4, <2>5, <2>8 DEF ReadyStates
  <2>9. CASE /\ h \notin S /\ msg'[h].inWnd = msg[h].inWnd
             /\ \/ msg'[h].st = msg[h].st
                \/ msg[h].st = "waitTL" /\ msg'[h].st = "clear"
                \/ msg[h].st = "waitRsp" /\ msg'[h].st = "confirmed"
    <3>1. msg[h].st = "waitTL" => ~msg[h].inWnd
      BY <2>0 DEF MsgInv
    <3>2. QED
      BY <2>3, <2>4, <2>5, <2>9, <3>1
  <2>10. QED
    BY <2>6, <2>7, <2>8, <2>9
<1>6. \A h : h \in Outstanding(d)' \cup Outstanding(d) \cup Sent(S, d)
             => h \in Handle /\ h <= added
  <2>1. \A h \in Sent(S, d) : h \in S
    BY DEF Sent
  <2>2. QED
    BY <1>0, <1>2, <2>1, OutstandingIs, OutstandingNext
<1>7. \A h : h \in Outstanding(d)' <=> h \in Outstanding(d) \cup Sent(S, d)
  BY <1>5, <1>6
<1>8. \A h \in Outstanding(d) : h \notin Sent(S, d)
  <2> SUFFICES ASSUME NEW h \in Outstanding(d), h \in Sent(S, d) PROVE FALSE
    OBVIOUS
  <2>1. h \in Handle /\ h <= added /\ msg[h].inWnd
    BY OutstandingIs
  <2>2. msg[h].st = "ready" /\ MsgInv(h)
    BY <2>1 DEF Sent, QueueInv
  <2>3. QED
    BY <2>1, <2>2 DEF MsgInv
<1>9. QED
  BY <1>7, <1>8

\* What the windows need of a step for the contract d.
WindowOK(d) ==
  contract[d].live =>
    /\ contract[d].inUse <= Cardinality(Outstanding(d))
    /\ ~Rewrites => contract[d].inUse = Cardinality(Outstanding(d))
    /\ Kinds \subseteq {"req"} /\ contract[d].crt = 0 => Outstanding(d) # {}

LEMMA WindowParts == WindowInv <=> \A d \in Aperiodic : WindowOK(d)
<1>1. ASSUME WindowInv PROVE \A d \in Aperiodic : WindowOK(d)
  BY <1>1 DEF WindowInv, WindowOK, NoSlotLeaked, SlotsAccounted, WindowReopens
<1>2. ASSUME \A d \in Aperiodic : WindowOK(d) PROVE WindowInv
  BY <1>2 DEF WindowInv, WindowOK, NoSlotLeaked, SlotsAccounted, WindowReopens
<1>3. QED
  BY <1>1, <1>2

LEMMA WindowPartsNext == WindowInv' <=> \A d \in Aperiodic : WindowOK(d)'
<1>1. ASSUME WindowInv' PROVE \A d \in Aperiodic : WindowOK(d)'
  BY <1>1 DEF WindowInv, WindowOK, NoSlotLeaked, SlotsAccounted, WindowReopens
<1>2. ASSUME \A d \in Aperiodic : WindowOK(d)' PROVE WindowInv'
  BY <1>2 DEF WindowInv, WindowOK, NoSlotLeaked, SlotsAccounted, WindowReopens
<1>3. QED
  BY <1>1, <1>2

LEMMA WindowTask ==
  ASSUME TypeOK, TypeOK', QueueInv, NoStaleSend, NEW D \in SUBSET Ready(Confirmed), NEW S,
         NEW V, TaskStep(D, S, V), NEW d \in Aperiodic, WindowOK(d)
  PROVE  WindowOK(d)'
<1>0. d \in Contract /\ contract[d] \in ContractRecord
  BY ConstantsOK DEF TypeOK
<1>1. /\ contract'[d].live = contract[d].live /\ (contract'[d].crt = 0 <=> contract[d].crt = 0)
      /\ contract'[d].inUse = contract[d].inUse + Cardinality(Sent(S, d))
  BY <1>0 DEF TaskStep
<1>2. Outstanding(d)' = Outstanding(d) \cup Sent(S, d) /\ Outstanding(d) \cap Sent(S, d) = {}
  BY <1>0, TaskOutstanding
<1>3. IsFiniteSet(Sent(S, d)) /\ Cardinality(Sent(S, d)) \in Nat
  <2>1. S \subseteq Ready(Confirmed)
    BY Zenon DEF TaskStep
  <2>2. Sent(S, d) \in SUBSET Handle
    BY <2>1 DEF Sent, Ready
  <2>3. QED
    BY <2>2, HandlesFinite
<1>4. IsFiniteSet(Outstanding(d)) /\ Cardinality(Outstanding(d)) \in Nat
  BY OutstandingFinite
<1>5. Cardinality(Outstanding(d) \cup Sent(S, d))
        = Cardinality(Outstanding(d)) + Cardinality(Sent(S, d))
  <2>1. Cardinality(Outstanding(d) \cup Sent(S, d))
          = Cardinality(Outstanding(d)) + Cardinality(Sent(S, d))
            - Cardinality(Outstanding(d) \cap Sent(S, d))
    BY <1>3, <1>4, FS_Union
  <2>2. Cardinality(Outstanding(d) \cap Sent(S, d)) = 0
    BY <1>2, FS_EmptySet
  <2>3. QED
    BY <1>3, <1>4, <2>1, <2>2
<1>6. contract[d].inUse \in Nat
  BY <1>0, RecordType
<1>7. QED
  BY <1>1, <1>2, <1>3, <1>4, <1>5, <1>6 DEF WindowOK

\* A step that touches the message h only and does not free a place of d keeps the
\* requests outstanding on d.
LEMMA MsgOutstanding ==
  ASSUME TypeOK, TypeOK', NEW h, NEW v, MsgStep(h, v), UNCHANGED added, NEW d \in Contract
  PROVE  /\ ~ (Frees(h) /\ msg[h].c = d) => Outstanding(d)' = Outstanding(d)
         /\ Frees(h) /\ msg[h].c = d => /\ Outstanding(d)' = Outstanding(d) \ {h}
                                        /\ h \in Outstanding(d)
<1>0. h \in Queued /\ h \in Handle /\ msg[h] \in Message /\ msg[h].c \in Contract /\ h <= added
      /\ msg[h].st # "clear"
  BY QueueType, MessageType DEF MsgStep, Queued
<1>1. \A c \in Contract : contract'[c].live = contract[c].live
                          /\ contract'[c].gen = contract[c].gen
  BY <1>0 DEF MsgStep, TypeOK
<1>2. \A k \in Handle : k # h => msg'[k] = msg[k]
  BY <1>0 DEF MsgStep, TypeOK
<1>3. ASSUME NEW k \in Handle, k # h PROVE k \in Outstanding(d)' <=> k \in Outstanding(d)
  <2>1. CASE k <= added
    <3>1. msg'[k] = msg[k] /\ msg[k].c \in Contract
      BY <1>2, <1>3, <2>1, QueueType, MessageType
    <3>2. HasContract(msg[k])' <=> HasContract(msg[k])
      BY <1>1, <3>1 DEF HasContract
    <3>3. QED
      BY <3>1, <3>2, OutstandingIs, OutstandingNext
  <2>2. CASE ~ (k <= added)
    BY <2>2, OutstandingIs, OutstandingNext
  <2>3. QED
    BY <2>1, <2>2
<1>4. Same(msg[h], msg'[h]) /\ msg'[h].inWnd = msg[h].inWnd
  BY DEF MsgStep
<1>5. HasContract(msg[h])' <=> HasContract(msg[h])
  BY <1>0, <1>1, <1>4 DEF HasContract, Same
<1>6. h \in Outstanding(d) <=> msg[h].inWnd /\ msg[h].c = d /\ HasContract(msg[h])
  BY <1>0, OutstandingIs
<1>7. h \in Outstanding(d)' <=> /\ msg'[h].st # "clear" /\ msg[h].inWnd
                                /\ msg[h].c = d /\ HasContract(msg[h])
  BY <1>0, <1>4, <1>5, OutstandingNext DEF Same
<1>8. h \in Outstanding(d)' <=> h \in Outstanding(d) /\ ~ (Frees(h) /\ msg[h].c = d)
  BY <1>6, <1>7 DEF Frees
<1>9. Frees(h) /\ msg[h].c = d => h \in Outstanding(d)
  BY <1>6 DEF Frees
<1>10. \A k : k \in Outstanding(d)' \cup Outstanding(d) => k \in Handle
  BY OutstandingIs, OutstandingNext
<1>11. QED
  BY <1>3, <1>8, <1>9, <1>10

LEMMA WindowMsgStep ==
  ASSUME TypeOK, TypeOK', QueueInv, NEW h, NEW v, MsgStep(h, v), UNCHANGED added,
         NEW d \in Aperiodic, WindowOK(d)
  PROVE  WindowOK(d)'
<1>0. d \in Contract /\ contract[d] \in ContractRecord
  BY ConstantsOK DEF TypeOK
<1>1. /\ h \in Queued /\ h \in Handle /\ msg[h] \in Message /\ msg[h].c \in Contract
      /\ h <= added /\ MsgInv(h)
  BY QueueType, MessageType DEF MsgStep, Queued, QueueInv
<1>2. CASE msg[h].c # d
  <2>1. contract'[d] = contract[d]
    BY <1>0, <1>1, <1>2 DEF MsgStep, TypeOK
  <2>2. Outstanding(d)' = Outstanding(d)
    BY <1>0, <1>2, MsgOutstanding
  <2>3. QED
    BY <2>1, <2>2 DEF WindowOK
<1>3. CASE msg[h].c = d
  <2>0. contract[d].inUse \in Nat
    BY <1>0, RecordType
  <2>1. /\ contract'[d].live = contract[d].live
        /\ Frees(h) => contract'[d].inUse = IF contract[d].inUse > 0
                                            THEN contract[d].inUse - 1 ELSE 0
        /\ ~Frees(h) => contract'[d].inUse = contract[d].inUse
        /\ contract'[d].crt = 0 =>
            \/ contract[d].crt = 0 /\ ~Frees(h)
            \/ Frees(h) /\ contract'[d].inUse > 0
            \/ HasContract(msg[h]) /\ ~Frees(h) /\ msg[h].st \notin ReadyStates
    BY <1>3 DEF MsgStep
  <2>2. IsFiniteSet(Outstanding(d)) /\ Cardinality(Outstanding(d)) \in Nat
    BY OutstandingFinite
  <2>3. CASE Frees(h)
    <3>1. Outstanding(d)' = Outstanding(d) \ {h} /\ h \in Outstanding(d)
      BY <1>0, <1>3, <2>3, MsgOutstanding
    <3>2. Cardinality(Outstanding(d) \ {h}) = Cardinality(Outstanding(d)) - 1
      BY <2>2, <3>1, FS_RemoveElement
    <3>3. Cardinality(Outstanding(d)) # 0
      BY <2>2, <3>1, FS_EmptySet
    <3>4. Cardinality(Outstanding(d)') = Cardinality(Outstanding(d)) - 1
      BY <3>1, <3>2
    <3>5. Cardinality(Outstanding(d)') > 0 => Outstanding(d)' # {}
      BY FS_EmptySet
    <3>6. QED
      BY <2>0, <2>1, <2>2, <2>3, <3>3, <3>4, <3>5 DEF WindowOK
  <2>4. CASE ~Frees(h)
    <3>1. Outstanding(d)' = Outstanding(d)
      BY <1>0, <2>4, MsgOutstanding
    <3>2. Kinds \subseteq {"req"} /\ HasContract(msg[h]) /\ msg[h].st \notin ReadyStates
            => h \in Outstanding(d)
      <4> SUFFICES ASSUME Kinds \subseteq {"req"}, HasContract(msg[h]),
                          msg[h].st \notin ReadyStates
                   PROVE  h \in Outstanding(d)
        OBVIOUS
      <4>1. msg[h].kind = "req" /\ msg[h].st # "clear" /\ msg[h].st # "waitTL"
        BY <1>1 DEF MsgInv, Queued
      <4>2. msg[h].st \in {"waitRsp", "confirmed"}
        BY <1>1, <4>1, MessageType DEF Status, ReadyStates
      <4>3. msg[h].inWnd
        BY <1>1, <4>1, <4>2 DEF MsgInv
      <4>4. QED
        BY <1>1, <1>3, <4>1, <4>3, OutstandingIs
    <3>3. QED
      BY <2>1, <2>4, <3>1, <3>2 DEF WindowOK
  <2>5. QED
    BY <2>3, <2>4
<1>4. QED
  BY <1>2, <1>3

LEMMA WindowAdd ==
  ASSUME TypeOK, QueueInv, NEW c \in Contract, NEW kind \in Kinds, NEW prio \in Prios,
         NEW fits \in Fits, NEW rto \in RTOs, AddGenericObject(c, kind, prio, fits, rto),
         NEW d \in Aperiodic, WindowOK(d)
  PROVE  WindowOK(d)'
<1>0. d \in Contract /\ TypeOK'
  BY ConstantsOK, TypeAdd
<1>1. PICK a \in Handle : a = added + 1
  BY TypeAdd
<1>2. added \in Nat /\ added' = a /\ \A h \in Handle : h \in Nat
  <2>1. added' = a
    BY <1>1, TypeAdd
  <2>2. QED
    BY <2>1, HandleNat, ConstantsOK DEF TypeOK
<1>3. msg' = [msg EXCEPT ![a] = msg'[a]] /\ msg \in [Handle -> Message \cup {NoMsg}]
      /\ msg'[a].inWnd = FALSE
  BY <1>1, TypeAdd DEF TypeOK
<1>4. \A h \in Handle : h # a => msg'[h] = msg[h] /\ (h <= a <=> h <= added)
  BY <1>1, <1>2, <1>3
<1>5. \A e \in Contract : contract'[e].live = contract[e].live
                          /\ contract'[e].gen = contract[e].gen
                          /\ contract'[e].inUse = contract[e].inUse
                          /\ contract'[e].crt = contract[e].crt
  BY TypeAdd
<1>6. ASSUME NEW h \in Handle PROVE h \in Outstanding(d)' <=> h \in Outstanding(d)
  <2>1. CASE h = a
    <3>1. h \notin Outstanding(d)'
      BY <1>0, <1>3, <2>1, OutstandingNext
    <3>2. ~ (h <= added)
      BY <1>1, <1>2, <2>1
    <3>3. QED
      BY <3>1, <3>2, OutstandingIs
  <2>2. CASE h # a /\ h <= added
    <3>1. msg'[h] = msg[h] /\ msg[h].c \in Contract /\ h <= added'
      BY <1>2, <1>4, <2>2, QueueType, MessageType
    <3>2. HasContract(msg[h])' <=> HasContract(msg[h])
      BY <1>5, <3>1 DEF HasContract
    <3>3. QED
      BY <1>0, <2>2, <3>1, <3>2, OutstandingIs, OutstandingNext
  <2>3. CASE h # a /\ ~ (h <= added)
    BY <1>0, <1>2, <1>4, <2>3, OutstandingIs, OutstandingNext
  <2>4. QED
    BY <2>1, <2>2, <2>3
<1>7. Outstanding(d)' = Outstanding(d)
  <2>1. \A k : k \in Outstanding(d)' \cup Outstanding(d) => k \in Handle
    BY <1>0, OutstandingIs, OutstandingNext
  <2>2. QED
    BY <1>6, <2>1
<1>8. QED
  BY <1>0, <1>5, <1>7 DEF WindowOK

LEMMA WindowContract ==
  ASSUME TypeOK, TypeOK', QueueInv, ContractStep, NEW d \in Aperiodic, WindowOK(d)
  PROVE  WindowOK(d)'
<1>0. d \in Contract
  BY ConstantsOK
<1>1. msg' = msg /\ added' = added
  BY ContractIs
<1>2. PICK c \in Contract, w \in ContractRecord :
              /\ contract' = [contract EXCEPT ![c] = w]
              /\ \/ ~w.live
                 \/ w.live /\ w.gen = contract[c].gen + 1 /\ w.inUse = 0 /\ w.crt = 1
                 \/ /\ Rewrites /\ w.live = contract[c].live /\ w.gen = contract[c].gen
                    /\ w.inUse = 0 /\ w.crt = 1
  BY ContractIs
<1>3. contract \in [Contract -> ContractRecord]
  BY DEF TypeOK
<1>4. contract'[c] = w /\ \A e \in Contract : e # c => contract'[e] = contract[e]
  BY <1>2, <1>3
<1>5. IsFiniteSet(Outstanding(d)') /\ Cardinality(Outstanding(d)') \in Nat
  <2>1. Outstanding(d)' \in SUBSET Handle
    BY DEF Outstanding, Queued
  <2>2. QED
    BY <2>1, HandlesFinite
<1>6. CASE c # d
  <2>1. \A k \in Handle : k <= added /\ msg[k].c = d =>
                          (HasContract(msg[k])' <=> HasContract(msg[k]))
    BY <1>0, <1>1, <1>4, <1>6 DEF HasContract
  <2>2. \A k : k \in Outstanding(d)' <=> k \in Outstanding(d)
    BY <1>1, <2>1, OutstandingIs, OutstandingNext
  <2>3. QED
    BY <1>0, <1>4, <1>6, <2>2 DEF WindowOK
<1>7. CASE c = d /\ ~w.live
  BY <1>4, <1>7 DEF WindowOK
<1>8. CASE c = d /\ w.live /\ w.gen = contract[c].gen + 1 /\ w.inUse = 0 /\ w.crt = 1
  <2>1. \A k \in Handle : k <= added /\ msg[k].c = d => ~HasContract(msg[k])'
    <3> SUFFICES ASSUME NEW k \in Handle, k <= added, msg[k].c = d
                 PROVE  ~ (contract'[msg[k].c].gen = msg[k].gen)
      BY <1>1 DEF HasContract
    <3>1. msg[k].gen \in Nat /\ msg[k].gen <= contract[d].gen /\ contract[d].gen \in Nat
      BY <1>0, <1>3, QueueType, MessageType, RecordType DEF QueueInv, MsgInv
    <3>2. contract'[msg[k].c].gen = contract[d].gen + 1
      BY <1>4, <1>8
    <3>3. QED
      BY <3>1, <3>2
  <2>2. \A k : k \notin Outstanding(d)'
    BY <1>1, <2>1, OutstandingNext
  <2>3. Outstanding(d)' = {}
    BY <2>2
  <2>4. Cardinality(Outstanding(d)') = 0
    BY <2>3, FS_EmptySet
  <2>5. QED
    BY <1>4, <1>8, <2>4 DEF WindowOK
<1>9. CASE c = d /\ Rewrites /\ w.inUse = 0 /\ w.crt = 1
  <2>1. contract'[d].inUse = 0 /\ contract'[d].crt = 1
    BY <1>4, <1>9
  <2>2. QED
    BY <1>5, <1>9, <2>1 DEF WindowOK
<1>10. QED
  BY <1>2, <1>6, <1>7, <1>8, <1>9

LEMMA WindowInit == Init => WindowInv
<1> SUFFICES ASSUME Init, NEW d \in Aperiodic PROVE WindowOK(d)
  BY WindowParts
<1>0. TypeOK /\ d \in Contract
  BY TypeInit, ConstantsOK
<1>1. PICK n \in 1..Window : contract[d] = [Fresh(1, 0) EXCEPT !.crt = n]
  BY <1>0 DEF Init
<1>2. contract[d].inUse = 0 /\ contract[d].crt = n /\ n # 0
  BY <1>1, ConstantsOK DEF Fresh
<1>3. \A h \in Handle : ~ (h <= added)
  BY HandleNat DEF Init
<1>4. Outstanding(d) = {}
  BY <1>0, <1>3, OutstandingIs
<1>5. Cardinality(Outstanding(d)) = 0
  BY <1>4, FS_EmptySet
<1>6. QED
  BY <1>2, <1>5 DEF WindowOK

LEMMA WindowNext ==
  ASSUME TypeOK, QueueInv, NoStaleSend, WindowInv, [Next]_vars
  PROVE  WindowInv'
<1>0. TypeOK'
  BY TypeNext
<1> SUFFICES ASSUME NEW d \in Aperiodic PROVE WindowOK(d)'
  BY WindowPartsNext
<1>1. WindowOK(d)
  BY WindowParts
<1>2. ASSUME UNCHANGED <<msg, added, contract>> PROVE WindowOK(d)'
  <2>1. Outstanding(d)' = Outstanding(d)
    BY <1>2 DEF Outstanding, Queued, HasContract
  <2>2. QED
    BY <1>1, <1>2, <2>1 DEF WindowOK
<1>3. CASE Next
  <2>0. StepShape
    BY <1>3, NextIs
  <2>1. ASSUME NEW c \in Contract, NEW kind \in Kinds, NEW prio \in Prios, NEW fits \in Fits,
               NEW rto \in RTOs, AddGenericObject(c, kind, prio, fits, rto)
        PROVE  WindowOK(d)'
    BY <1>1, <2>1, WindowAdd
  <2>2. ASSUME NEW D \in SUBSET Ready(Confirmed), NEW S \in SUBSET Handle,
               NEW V \in SUBSET Handle, TaskStep(D, S, V)
        PROVE  WindowOK(d)'
    BY <1>0, <1>1, <2>2, WindowTask
  <2>3. CASE OneSecond
    BY <1>2, <2>3, OneSecondIs
  <2>4. ASSUME NEW h, NEW v, MsgStep(h, v), UNCHANGED added PROVE WindowOK(d)'
    BY <1>0, <1>1, <2>4, WindowMsgStep
  <2>5. CASE ContractStep
    BY <1>0, <1>1, <2>5, WindowContract
  <2>6. QED
    BY <2>0, <2>1, <2>2, <2>3, <2>4, <2>5 DEF StepShape
<1>4. QED
  BY <1>2, <1>3 DEF vars

\* Given NoStaleSend, the three invariants together are inductive.
LEMMA WindowsInductive ==
  ASSUME NoStaleSend
  PROVE  /\ Init => TypeOK /\ QueueInv /\ WindowInv
         /\ TypeOK /\ QueueInv /\ WindowInv /\ [Next]_vars => TypeOK' /\ QueueInv' /\ WindowInv'
BY TypeInit, TypeNext, QueueInit, QueueNext, WindowInit, WindowNext

\* m_nInUseWndSize never keeps a place that nobody will free, even if contracts are
\* written again while requests are outstanding.
THEOREM AslNoSlotLeaked ==
  ASSUME NoStaleSend
  PROVE  Spec => []NoSlotLeaked
<1>1. Init => TypeOK /\ QueueInv /\ WindowInv
  BY WindowsInductive
<1>2. TypeOK /\ QueueInv /\ WindowInv /\ [Next]_vars => TypeOK' /\ QueueInv' /\ WindowInv'
  BY WindowsInductive
<1>3. WindowInv => NoSlotLeaked
  BY DEF WindowInv
<1>4. QED
  BY <1>1, <1>2, <1>3, PTL DEF Spec

\* If no contract in use is rewritten, m_nInUseWndSize is exactly the number of the
\* outstanding requests: no retry, failed send, late answer or expiry loses a place
\* or frees one twice.
THEOREM AslSlotsAccounted ==
  ASSUME NoStaleSend, ~Rewrites
  PROVE  Spec => []SlotsAccounted
<1>1. Init => TypeOK /\ QueueInv /\ WindowInv
  BY WindowsInductive
<1>2. TypeOK /\ QueueInv /\ WindowInv /\ [Next]_vars => TypeOK' /\ QueueInv' /\ WindowInv'
  BY WindowsInductive
<1>3. WindowInv => SlotsAccounted
  BY DEF WindowInv
<1>4. QED
  BY <1>1, <1>2, <1>3, PTL DEF Spec

\* If every message expects a response, a window that a timeout has closed has an
\* outstanding request, whose end opens it again.  (The retry of a message that
\* expects none closes the window too, with nothing outstanding.)
THEOREM AslWindowReopens ==
  ASSUME NoStaleSend, Kinds \subseteq {"req"}
  PROVE  Spec => []WindowReopens
<1>1. Init => TypeOK /\ QueueInv /\ WindowInv
  BY WindowsInductive
<1>2. TypeOK /\ QueueInv /\ WindowInv /\ [Next]_vars => TypeOK' /\ QueueInv' /\ WindowInv'
  BY WindowsInductive
<1>3. WindowInv => WindowReopens
  BY DEF WindowInv
<1>4. QED
  BY <1>1, <1>2, <1>3, PTL DEF Spec

-----------------------------------------------------------------------------
(* Answers and request ids.  SearchOriginalRequest compares nothing but    *)
(* the contract and the request id, which is a uint8, so two requests with *)
(* one id are told apart only as far as their distance allows.             *)

LEMMA ReqUnique ==
  ASSUME NEW q \in Int, NEW p \in Int, NEW r \in 0..(ReqMod - 1), NEW s \in 0..(ReqMod - 1),
         ReqMod * q + r = ReqMod * p + s
  PROVE  r = s
<1>1. ReqMod \in Nat \ {0}
  BY ConstantsOK
<1>2. ReqMod * (q - p) = s - r /\ ReqMod * (p - q) = r - s
  BY <1>1
<1>3. CASE q - p >= 1
  <2>1. ReqMod * (q - p) >= ReqMod
    BY <1>1, <1>3
  <2>2. QED
    BY <1>1, <1>2, <2>1
<1>4. CASE p - q >= 1
  <2>1. ReqMod * (p - q) >= ReqMod
    BY <1>1, <1>4
  <2>2. QED
    BY <1>1, <1>2, <2>1
<1>5. CASE q = p
  BY <1>1, <1>5
<1>6. QED
  BY <1>3, <1>4, <1>5

LEMMA ReqDivision ==
  ASSUME NEW x \in Int
  PROVE  /\ x = ReqMod * (x \div ReqMod) + (x % ReqMod)
         /\ x \div ReqMod \in Int /\ x % ReqMod \in 0..(ReqMod - 1)
BY ConstantsOK

\* The next id but n, and one more.
LEMMA ReqNext ==
  ASSUME NEW a \in Int
  PROVE  ((a % ReqMod) + 1) % ReqMod = (a + 1) % ReqMod
<1> DEFINE q == a \div ReqMod
           r == a % ReqMod
           y == r + 1
           z == a + 1
           u == y \div ReqMod
           v == y % ReqMod
           k == z \div ReqMod
           w == z % ReqMod
<1>0. ReqMod \in Nat \ {0}
  BY ConstantsOK
<1>1. a = ReqMod * q + r /\ q \in Int /\ r \in Int /\ y \in Int /\ z \in Int
  BY <1>0, ReqDivision
<1>2. y = ReqMod * u + v /\ u \in Int /\ v \in 0..(ReqMod - 1)
  BY <1>1, ReqDivision
<1>3. z = ReqMod * k + w /\ k \in Int /\ w \in 0..(ReqMod - 1)
  BY <1>1, ReqDivision
<1>4. z = ReqMod * q + y
  BY <1>0, <1>1
<1> HIDE DEF q, r, y, z, u, v, k, w
<1>5. z = ReqMod * (u + q) + v
  BY <1>0, <1>1, <1>2, <1>4
<1>6. v = w
  BY <1>1, <1>2, <1>3, <1>5, ReqUnique
<1>7. QED
  BY <1>6 DEF v, w, y, z, r

\* An id is its own remainder, and n ids after it the same one comes round only if n
\* is a multiple of the number of ids.
LEMMA ReqRound ==
  ASSUME NEW x \in 0..(ReqMod - 1), NEW n \in Nat
  PROVE  x % ReqMod = x /\ ((x + n) % ReqMod = x => n % ReqMod = 0)
<1>0. ReqMod \in Nat \ {0} /\ x \in Int /\ x + n \in Int /\ 0 \in 0..(ReqMod - 1)
  BY ConstantsOK
<1>1. x % ReqMod = x
  <2>1. x = ReqMod * 0 + x
    BY <1>0
  <2>2. QED
    BY <1>0, <2>1, ReqDivision, ReqUnique
<1>2. ASSUME (x + n) % ReqMod = x PROVE n % ReqMod = 0
  <2>1. PICK u \in Int : x + n = ReqMod * u + x
    BY <1>0, <1>2, ReqDivision
  <2>2. n = ReqMod * u + 0
    BY <1>0, <2>1
  <2>3. PICK q \in Int : n = ReqMod * q + (n % ReqMod) /\ n % ReqMod \in 0..(ReqMod - 1)
    BY ReqDivision
  <2>4. QED
    BY <1>0, <2>2, <2>3, ReqUnique
<1>3. QED
  BY <1>1, <1>2

\* What AnswersOwn says of an answer k given to the request h.
Own(h, k) ==
  \/ k \in {0, h}
  \/ msg[k].gen # msg[h].gen
  \/ k < h /\ Cardinality(RequestsBetween(k, h)) % ReqMod = 0
  \/ h < k /\ Cardinality(RequestsBetween(h, k)) % ReqMod = 0

\* The ids of a contract object follow one another modulo ReqMod: a message has the
\* id of an earlier one plus the requests made in between, and the next id is that of
\* any message plus the requests made since.
IdOrder ==
  /\ \A k, h \in Handle :
       k <= h /\ h <= added /\ msg[h].c = msg[k].c /\ msg[h].gen = msg[k].gen =>
         msg[h].req = (msg[k].req + Cardinality(RequestsBetween(k, h))) % ReqMod
  /\ \A k \in Handle, n \in Nat :
       k <= added /\ n = added + 1 /\ contract[msg[k].c].gen = msg[k].gen =>
         contract[msg[k].c].req = (msg[k].req + Cardinality(RequestsBetween(k, n))) % ReqMod
IdRange ==
  /\ \A c \in Contract : contract[c].req \in 0..(ReqMod - 1)
  /\ \A h \in Handle : h <= added => msg[h].req \in 0..(ReqMod - 1)
ToldSent == \A h \in Handle : \A i \in 1..Len(told[h]) : told[h][i] \in sent \cup {0}

IdInv == IdOrder /\ IdRange /\ ToldSent

LEMMA AddedInt ==
  ASSUME TypeOK
  PROVE  added \in Nat /\ added \in Int /\ \A h \in Handle : h \in Nat \ {0} /\ h \in Int
<1>1. added \in 0..MaxMsg /\ MaxMsg \in Nat
  BY ConstantsOK DEF TypeOK
<1>2. QED
  BY <1>1, HandleNat

LEMMA BetweenFinite ==
  ASSUME NEW k, NEW h
  PROVE  IsFiniteSet(RequestsBetween(k, h)) /\ Cardinality(RequestsBetween(k, h)) \in Nat
<1>1. RequestsBetween(k, h) \in SUBSET Handle
  BY DEF RequestsBetween
<1>2. QED
  BY <1>1, HandlesFinite

\* What is queued stays where it is, and new messages come after it.
LEMMA BetweenKept ==
  ASSUME TypeOK, added' \in Int, added <= added',
         \A j \in Handle : j <= added => Same(msg[j], msg'[j]),
         NEW k \in Handle, k <= added, NEW n \in Int, n <= added + 1
  PROVE  RequestsBetween(k, n)' = RequestsBetween(k, n)
<1>1. added \in Int /\ \A j \in Handle : j \in Int
  BY HandleNat, ConstantsOK DEF TypeOK
<1>2. ASSUME NEW j \in Handle
      PROVE  j < n /\ j <= added' <=> j < n /\ j <= added
  BY <1>1
<1>3. ASSUME NEW j \in Handle, j <= added
      PROVE  msg'[j].kind = msg[j].kind /\ msg'[j].c = msg[j].c /\ msg'[j].gen = msg[j].gen
  BY <1>3 DEF Same
<1>4. QED
  BY <1>2, <1>3 DEF RequestsBetween

LEMMA OwnKept ==
  ASSUME TypeOK, added' \in Int, added <= added',
         \A j \in Handle : j <= added => Same(msg[j], msg'[j]),
         NEW h \in Handle, h <= added, NEW k \in Handle \cup {0}, k <= added, Own(h, k)
  PROVE  Own(h, k)'
<1>1. CASE k = 0
  BY <1>1 DEF Own
<1>2. CASE k # 0
  <2>1. k \in Handle /\ k \in Int /\ h \in Int /\ added \in Int
    BY <1>2, AddedInt
  <2>2. h <= added + 1 /\ k <= added + 1
    BY <2>1
  <2>3. /\ RequestsBetween(k, h)' = RequestsBetween(k, h)
        /\ RequestsBetween(h, k)' = RequestsBetween(h, k)
    BY <2>1, <2>2, BetweenKept
  <2>4. msg'[k].gen = msg[k].gen /\ msg'[h].gen = msg[h].gen
    BY <2>1 DEF Same
  <2>5. QED
    BY <2>3, <2>4 DEF Own
<1>3. QED
  BY <1>1, <1>2

\* A step that tells what it may keeps what was told in order.
LEMMA AnswersKept ==
  ASSUME TypeOK, ToldInv, ToldSent, AnswersOwn, added' \in Int, added <= added',
         sent \subseteq sent',
         \A j \in Handle : j <= added => Same(msg[j], msg'[j]),
         \A h \in Handle :
           \/ told'[h] = told[h]
           \/ told'[h] = << 0 >>
           \/ h <= added /\ \E k \in sent : told'[h] = << k >> /\ Own(h, k)
  PROVE  ToldSent' /\ AnswersOwn'
<1>1. \A k \in sent : k \in Handle /\ k <= added
  <2>1. sent \subseteq 1..added /\ added \in 0..MaxMsg /\ MaxMsg \in Nat
    BY ConstantsOK DEF TypeOK
  <2>2. QED
    BY <2>1 DEF Handle
<1>2. ASSUME NEW h \in Handle, NEW i \in 1..Len(told'[h])
      PROVE  told'[h][i] \in sent' \cup {0} /\ Own(h, told[h][i])'
  <2>1. CASE told'[h] = << 0 >>
    <3>1. told'[h][i] = 0
      BY <2>1
    <3>2. QED
      BY <3>1 DEF Own
  <2>2. CASE told'[h] = told[h]
    <3>1. PICK k \in sent \cup {0} : k = told[h][i]
      BY <2>2 DEF ToldSent
    <3>2. told[h] # << >> /\ i \in 1..Len(told[h])
      BY <2>2
    <3>3. h <= added /\ k \in Handle \cup {0} /\ k <= added
      BY <1>1, <3>2, HandleNat, ConstantsOK DEF ToldInv, TypeOK
    <3>4. Own(h, k)
      BY <3>1, <3>2 DEF AnswersOwn, Own
    <3>5. Own(h, k)'
      BY <3>3, <3>4, OwnKept
    <3>6. told'[h][i] = k
      BY <2>2, <3>1
    <3>7. Own(h, told[h][i])'
      BY <3>5, <3>6 DEF Own
    <3>8. QED
      BY <3>6, <3>7
  <2>3. CASE h <= added /\ \E k \in sent : told'[h] = << k >> /\ Own(h, k)
    <3>1. PICK k \in sent : told'[h] = << k >> /\ Own(h, k)
      BY <2>3
    <3>2. told'[h][i] = k
      BY <3>1
    <3>3. Own(h, k)'
      BY <1>1, <2>3, <3>1, OwnKept
    <3>4. Own(h, told[h][i])'
      BY <3>2, <3>3 DEF Own
    <3>5. QED
      BY <3>2, <3>4
  <2>4. QED
    BY <2>1, <2>2, <2>3
<1>3. QED
  BY <1>2 DEF ToldSent, AnswersOwn, Own

\* A step that adds no message and keeps the contracts and their next ids.
LEMMA OrderKept ==
  ASSUME TypeOK, QueueInv, IdOrder, IdRange, added' = added,
         \A j \in Handle : j <= added => Same(msg[j], msg'[j]),
         \A c \in Contract :
           /\ contract'[c].req \in 0..(ReqMod - 1)
           /\ \/ contract'[c].gen = contract[c].gen + 1
              \/ contract'[c].gen = contract[c].gen /\ contract'[c].req = contract[c].req
  PROVE  IdOrder' /\ IdRange'
<1>1. added \in Int /\ added' \in Int /\ added <= added' /\ \A j \in Handle : j \in Int
  BY HandleNat, ConstantsOK DEF TypeOK
<1>2. ASSUME NEW j \in Handle, j <= added
      PROVE  /\ msg'[j].c = msg[j].c /\ msg'[j].gen = msg[j].gen /\ msg'[j].req = msg[j].req
             /\ msg[j].c \in Contract /\ msg[j].gen \in Nat /\ contract[msg[j].c].gen \in Nat
             /\ msg[j].gen <= contract[msg[j].c].gen
  <2>1. msg[j].c \in Contract /\ msg[j].gen \in Nat
    BY <1>2, QueueType, MessageType
  <2>2. contract[msg[j].c].gen \in Nat
    BY <2>1, RecordType DEF TypeOK
  <2>3. QED
    BY <1>2, <2>1, <2>2 DEF Same, QueueInv, MsgInv
<1>3. ASSUME NEW k \in Handle, NEW h \in Handle, k <= h, h <= added,
             msg'[h].c = msg'[k].c, msg'[h].gen = msg'[k].gen
      PROVE  msg'[h].req = (msg'[k].req + Cardinality(RequestsBetween(k, h)')) % ReqMod
  <2>1. k <= added /\ h \in Int /\ h <= added + 1
    BY <1>1, <1>3
  <2>2. RequestsBetween(k, h)' = RequestsBetween(k, h)
    BY <1>1, <2>1, BetweenKept
  <2>3. QED
    BY <1>2, <1>3, <2>1, <2>2 DEF IdOrder
<1>4. ASSUME NEW k \in Handle, NEW n \in Nat, k <= added, n = added + 1,
             contract'[msg'[k].c].gen = msg'[k].gen
      PROVE  contract'[msg'[k].c].req
               = (msg'[k].req + Cardinality(RequestsBetween(k, n)')) % ReqMod
  <2>1. RequestsBetween(k, n)' = RequestsBetween(k, n)
    BY <1>1, <1>4, BetweenKept
  <2>2. /\ contract'[msg[k].c].gen = contract[msg[k].c].gen
        /\ contract'[msg[k].c].req = contract[msg[k].c].req
    BY <1>2, <1>4
  <2>3. QED
    BY <1>2, <1>4, <2>1, <2>2 DEF IdOrder
<1>5. IdOrder'
  BY <1>3, <1>4 DEF IdOrder
<1>6. IdRange'
  BY <1>2 DEF IdRange
<1>7. QED
  BY <1>5, <1>6

\* A new message gets the next id, and a request uses it up.
LEMMA OrderAdd ==
  ASSUME TypeOK, IdOrder, IdRange, NEW c \in Contract, NEW kind \in Kinds, NEW prio \in Prios,
         NEW fits \in Fits, NEW rto \in RTOs, AddGenericObject(c, kind, prio, fits, rto)
  PROVE  IdOrder' /\ IdRange'
<1>1. PICK a \in Handle : a = added + 1
  BY TypeAdd
<1>2. /\ added \in Int /\ added' = a /\ added' \in Int /\ added <= added' /\ a \in Nat
      /\ \A h \in Handle : h \in Nat
  <2>1. added' = a
    BY <1>1, TypeAdd
  <2>2. QED
    BY <1>1, <2>1, HandleNat, ConstantsOK DEF TypeOK
<1>3. msg' = [msg EXCEPT ![a] = msg'[a]] /\ msg \in [Handle -> Message \cup {NoMsg}]
  BY <1>1, TypeAdd DEF TypeOK
<1>4. \A h \in Handle : h # a => msg'[h] = msg[h] /\ (h <= a <=> h <= added)
  BY <1>1, <1>2, <1>3
<1>5. \A h \in Handle : h <= added => h # a /\ Same(msg[h], msg'[h])
  <2>1. \A h \in Handle : h <= added => h # a
    BY <1>1, <1>2
  <2>2. QED
    BY <1>4, <2>1 DEF Same
<1>6. /\ msg'[a].c = c /\ msg'[a].gen = contract[c].gen /\ msg'[a].kind = kind
      /\ msg'[a].req = contract[c].req
  BY <1>1, TypeAdd
<1>7. /\ contract' = [contract EXCEPT ![c] = contract'[c]]
      /\ contract'[c].req = IF kind = "req" THEN (contract[c].req + 1) % ReqMod
                            ELSE contract[c].req
      /\ \A d \in Contract : contract'[d].gen = contract[d].gen
      /\ contract \in [Contract -> ContractRecord]
  BY TypeAdd DEF TypeOK
<1>8. \A h \in Handle : h <= added => msg[h].c \in Contract /\ msg[h].req \in Nat
  BY QueueType, MessageType
<1>9. \A d \in Contract : d # c => contract'[d] = contract[d]
  BY <1>7
<1>10. contract[c].req \in Int
  BY <1>7, RecordType
<1>11. ASSUME NEW k \in Handle, k <= a, msg'[k].c = c, msg'[k].gen = contract[c].gen
       PROVE  contract[c].req = (msg'[k].req + Cardinality(RequestsBetween(k, a)')) % ReqMod
  <2>1. CASE k = a
    <3>1. RequestsBetween(k, a)' = {}
      BY <1>2, <2>1 DEF RequestsBetween
    <3>2. Cardinality(RequestsBetween(k, a)') = 0
      BY <3>1, FS_EmptySet
    <3>3. contract[c].req % ReqMod = contract[c].req
      BY ReqRound DEF IdRange
    <3>4. msg'[k].req + 0 = contract[c].req
      BY <1>6, <1>10, <2>1
    <3>5. QED
      BY <3>2, <3>3, <3>4
  <2>2. CASE k # a
    <3>1. k <= added /\ msg'[k] = msg[k]
      BY <1>4, <1>11, <2>2
    <3>2. RequestsBetween(k, a)' = RequestsBetween(k, a)
      BY <1>1, <1>2, <1>5, <3>1, BetweenKept
    <3>3. QED
      BY <1>1, <1>2, <1>11, <3>1, <3>2 DEF IdOrder
  <2>3. QED
    BY <2>1, <2>2
<1>12. ASSUME NEW k \in Handle, NEW h \in Handle, k <= h, h <= a,
              msg'[h].c = msg'[k].c, msg'[h].gen = msg'[k].gen
       PROVE  msg'[h].req = (msg'[k].req + Cardinality(RequestsBetween(k, h)')) % ReqMod
  <2>1. CASE h = a
    BY <1>6, <1>11, <1>12, <2>1
  <2>2. CASE h # a
    <3>1. h <= added /\ k <= added /\ h <= added + 1 /\ k # a
      <4>1. h <= added
        BY <1>4, <1>12, <2>2
      <4>2. k <= added /\ h <= added + 1
        BY <1>2, <1>12, <4>1
      <4>3. QED
        BY <1>5, <4>1, <4>2
    <3>2. RequestsBetween(k, h)' = RequestsBetween(k, h)
      BY <1>2, <1>5, <3>1, BetweenKept
    <3>3. msg'[h] = msg[h] /\ msg'[k] = msg[k]
      BY <1>4, <3>1, <2>2
    <3>4. QED
      BY <1>12, <3>1, <3>2, <3>3 DEF IdOrder
  <2>3. QED
    BY <2>1, <2>2
<1>13. ASSUME NEW k \in Handle, k <= a, contract'[msg'[k].c].gen = msg'[k].gen
       PROVE  contract'[msg'[k].c].req
                = (msg'[k].req + Cardinality(RequestsBetween(k, a + 1)')) % ReqMod
  <2>0. /\ RequestsBetween(k, a + 1)'
             = RequestsBetween(k, a)'
                 \cup {j \in {a} : kind = "req" /\ msg'[k].c = c /\ msg'[k].gen = contract[c].gen}
        /\ a \notin RequestsBetween(k, a)'
    <3>1. \A j \in Handle : j \in Nat
      BY <1>2
    <3>2. \A j \in Handle : (j < a + 1 <=> j < a \/ j = a)
      BY <1>2, <3>1
    <3>3. k <= a /\ a <= a /\ ~ (a < a)
      BY <1>2, <1>13
    <3>4. ASSUME NEW j \in Handle
          PROVE  j \in RequestsBetween(k, a + 1)'
                   <=> \/ j \in RequestsBetween(k, a)'
                       \/ /\ j = a /\ kind = "req" /\ msg'[k].c = c
                          /\ msg'[k].gen = contract[c].gen
      BY <1>2, <1>6, <3>2, <3>3 DEF RequestsBetween
    <3>5. RequestsBetween(k, a)' \subseteq Handle /\ RequestsBetween(k, a + 1)' \subseteq Handle
          /\ a \notin RequestsBetween(k, a)'
      BY <3>3 DEF RequestsBetween
    <3>6. QED
      BY <3>4, <3>5
  <2>1. CASE msg'[k].c # c
    <3>1. k # a /\ k <= added /\ msg'[k] = msg[k] /\ msg[k].c \in Contract
      BY <1>4, <1>6, <1>8, <1>13, <2>1
    <3>2. RequestsBetween(k, a + 1)' = RequestsBetween(k, a)'
      BY <2>0, <2>1
    <3>3. RequestsBetween(k, a)' = RequestsBetween(k, a)
      <4>1. a \in Int /\ a <= added + 1
        BY <1>1, <1>2
      <4>2. QED
        BY <1>2, <1>5, <3>1, <4>1, BetweenKept
    <3>4. contract'[msg[k].c] = contract[msg[k].c]
      BY <1>9, <2>1, <3>1
    <3>5. QED
      BY <1>1, <1>2, <1>13, <3>1, <3>2, <3>3, <3>4 DEF IdOrder
  <2>2. CASE msg'[k].c = c /\ kind # "req"
    <3>1. RequestsBetween(k, a + 1)' = RequestsBetween(k, a)'
      BY <2>0, <2>2
    <3>2. msg'[k].gen = contract[c].gen
      BY <1>7, <1>13, <2>2
    <3>3. QED
      BY <1>7, <1>11, <1>13, <2>2, <3>1, <3>2
  <2>3. CASE msg'[k].c = c /\ kind = "req"
    <3>1. msg'[k].gen = contract[c].gen
      BY <1>7, <1>13, <2>3
    <3>2. RequestsBetween(k, a + 1)' = RequestsBetween(k, a)' \cup {a}
      BY <2>0, <2>3, <3>1
    <3>3. PICK n \in Nat : n = Cardinality(RequestsBetween(k, a)')
      <4>1. RequestsBetween(k, a)' \in SUBSET Handle
        BY DEF RequestsBetween
      <4>2. QED
        BY <4>1, HandlesFinite
    <3>4. Cardinality(RequestsBetween(k, a + 1)') = n + 1
      <4>1. RequestsBetween(k, a)' \in SUBSET Handle
        BY DEF RequestsBetween
      <4>2. IsFiniteSet(RequestsBetween(k, a)')
        BY <4>1, HandlesFinite
      <4>3. QED
        BY <2>0, <3>2, <3>3, <4>2, FS_AddElement
    <3>5. msg'[k].req \in Int
      BY <1>4, <1>6, <1>8, <1>10, <1>13
    <3>6. contract[c].req = (msg'[k].req + n) % ReqMod
      BY <1>11, <1>13, <2>3, <3>1, <3>3
    <3>7. contract'[c].req = (((msg'[k].req + n) % ReqMod) + 1) % ReqMod
      BY <1>7, <2>3, <3>6
    <3>8. contract'[c].req = (msg'[k].req + n + 1) % ReqMod
      <4>1. msg'[k].req + n \in Int
        BY <3>5
      <4>2. QED
        BY <3>7, <4>1, ReqNext
    <3>9. msg'[k].req + n + 1 = msg'[k].req + (n + 1)
      BY <3>5
    <3>10. QED
      BY <2>3, <3>4, <3>8, <3>9
  <2>4. QED
    BY <2>1, <2>2, <2>3
<1>14. IdOrder'
  BY <1>2, <1>12, <1>13 DEF IdOrder
<1>15. IdRange'
  <2>1. contract'[c].req \in 0..(ReqMod - 1)
    BY <1>7, <1>10, ReqDivision DEF IdRange
  <2>2. \A h \in Handle : h <= a => msg'[h].req \in 0..(ReqMod - 1)
    BY <1>4, <1>6 DEF IdRange
  <2>3. QED
    BY <1>2, <1>9, <2>1, <2>2 DEF IdRange
<1>16. QED
  BY <1>14, <1>15

\* The task tells only of timeouts.
LEMMA IdsTask ==
  ASSUME TypeOK, QueueInv, IdInv, AnswersOwn, ToldInv, NEW D, NEW S, NEW V, TaskStep(D, S, V)
  PROVE  IdInv' /\ AnswersOwn'
<1>1. /\ added' = added /\ sent \subseteq sent' /\ added \in Int
      /\ \A c \in Contract : contract'[c].gen = contract[c].gen
                             /\ contract'[c].req = contract[c].req
  BY AddedInt DEF TaskStep
<1>2. \A h \in Handle : h <= added => Same(msg[h], msg'[h])
  BY TaskMsg
<1>3. IdOrder' /\ IdRange'
  BY <1>1, <1>2, OrderKept DEF IdInv, IdRange
<1>4. ASSUME NEW h \in Handle PROVE told'[h] = told[h] \/ told'[h] = << 0 >>
  <2>1. told'[h] = IF h \in Orphaned(Confirmed, D) THEN Append(told[h], 0) ELSE told[h]
    BY DEF TaskStep, Notified
  <2>2. CASE h \in Orphaned(Confirmed, D)
    <3>1. h \in Queued
      BY <2>2, ReadyIs DEF Orphaned, Examined
    <3>2. told[h] = << >>
      BY <3>1 DEF ToldInv
    <3>3. QED
      BY <2>1, <2>2, <3>2
  <2>3. QED
    BY <2>1, <2>2
<1>5. ToldSent' /\ AnswersOwn'
  BY <1>1, <1>2, <1>4, AnswersKept DEF IdInv
<1>6. QED
  BY <1>3, <1>5 DEF IdInv

\* The pass tells of a timeout, an answer of the request it is for.
LEMMA IdsMsgStep ==
  ASSUME TypeOK, QueueInv, IdInv, AnswersOwn, ToldInv, NEW h, NEW v \in sent \cup {0},
         MsgStep(h, v), v = 0 \/ Own(h, v), UNCHANGED <<added, sent>>
  PROVE  IdInv' /\ AnswersOwn'
<1>0. h \in Queued /\ h \in Handle /\ msg[h] \in Message /\ msg[h].c \in Contract /\ h <= added
      /\ added \in Int /\ added' = added /\ sent \subseteq sent'
  <2>1. h \in Queued /\ h \in Handle
    BY DEF MsgStep, Queued
  <2>2. h <= added /\ msg[h] \in Message
    BY <2>1, QueueType
  <2>3. QED
    BY <2>1, <2>2, MessageType, AddedInt
<1>1. \A c \in Contract : contract'[c].gen = contract[c].gen
                          /\ contract'[c].req = contract[c].req
  BY <1>0 DEF MsgStep, TypeOK
<1>2. \A k \in Handle : k # h => msg'[k] = msg[k]
  BY <1>0 DEF MsgStep, TypeOK
<1>3. \A k \in Handle : k <= added => Same(msg[k], msg'[k])
  BY <1>2 DEF MsgStep, Same
<1>4. IdOrder' /\ IdRange'
  BY <1>0, <1>1, <1>3, OrderKept DEF IdInv, IdRange
<1>5. told' = told \/ told' = [told EXCEPT ![h] = Append(@, v)]
  BY DEF MsgStep
<1>6. told[h] = << >> /\ told \in [Handle -> Seq(Handle \cup {0})]
  BY <1>0 DEF ToldInv, TypeOK
<1>7. ASSUME NEW k \in Handle
      PROVE  told'[k] = told[k] \/ (k = h /\ told'[k] = << v >>)
  <2>1. CASE k # h \/ told' = told
    BY <1>5, <1>6, <2>1
  <2>2. CASE k = h /\ told' = [told EXCEPT ![h] = Append(@, v)]
    <3>1. told'[k] = Append(<< >>, v)
      BY <1>0, <1>6, <2>2
    <3>2. QED
      BY <2>2, <3>1
  <2>3. QED
    BY <1>5, <2>1, <2>2
<1>8. ASSUME NEW k \in Handle
      PROVE  \/ told'[k] = told[k]
             \/ told'[k] = << 0 >>
             \/ k <= added /\ \E j \in sent : told'[k] = << j >> /\ Own(k, j)
  <2>1. CASE v = 0
    BY <1>7, <2>1
  <2>2. CASE v # 0
    <3>1. v \in sent /\ Own(h, v)
      BY <2>2
    <3>2. QED
      BY <1>0, <1>7, <3>1
  <2>3. QED
    BY <2>1, <2>2
<1>9. ToldSent' /\ AnswersOwn'
  <2>1. added' \in Int /\ added <= added'
    BY <1>0
  <2>2. QED
    BY <1>0, <1>3, <1>8, <2>1, AnswersKept DEF IdInv
<1>10. QED
  BY <1>4, <1>9 DEF IdInv

\* An answer meets a request with its id: its own, one of another incarnation of the
\* contract, or one a multiple of ReqMod requests away.
LEMMA MatchingOwn ==
  ASSUME TypeOK, IdInv, NEW k \in sent, NEW h \in Matching(k)
  PROVE  Own(h, k)
<1>1. h \in Handle /\ h <= added /\ msg[h].c = msg[k].c /\ msg[h].req = msg[k].req
  BY QueueType DEF Matching, Queued
<1>2. k \in Handle /\ k <= added
  <2>1. sent \subseteq 1..added /\ added \in 0..MaxMsg /\ MaxMsg \in Nat
    BY ConstantsOK DEF TypeOK
  <2>2. QED
    BY <2>1 DEF Handle
<1>3. h \in Int /\ k \in Int /\ msg[h].req \in 0..(ReqMod - 1)
  BY <1>1, <1>2, HandleNat DEF IdInv, IdRange
<1>4. CASE msg[h].gen # msg[k].gen \/ h = k
  BY <1>4 DEF Own
<1>5. CASE msg[h].gen = msg[k].gen /\ k < h
  <2>1. msg[h].req = (msg[k].req + Cardinality(RequestsBetween(k, h))) % ReqMod
    BY <1>1, <1>2, <1>3, <1>5 DEF IdInv, IdOrder
  <2>2. Cardinality(RequestsBetween(k, h)) % ReqMod = 0
    BY <1>1, <1>3, <2>1, BetweenFinite, ReqRound
  <2>3. QED
    BY <1>5, <2>2 DEF Own
<1>6. CASE msg[h].gen = msg[k].gen /\ h < k
  <2>1. msg[k].req = (msg[h].req + Cardinality(RequestsBetween(h, k))) % ReqMod
    BY <1>1, <1>2, <1>3, <1>6 DEF IdInv, IdOrder
  <2>2. Cardinality(RequestsBetween(h, k)) % ReqMod = 0
    BY <1>1, <1>3, <2>1, BetweenFinite, ReqRound
  <2>3. QED
    BY <1>6, <2>2 DEF Own
<1>7. QED
  BY <1>3, <1>4, <1>5, <1>6

LEMMA IdsNext ==
  ASSUME TypeOK, ToldInv, QueueInv, IdInv, AnswersOwn, [Next]_vars
  PROVE  IdInv' /\ AnswersOwn'
<1>1. ASSUME UNCHANGED <<msg, added, contract, sent, told>> PROVE IdInv' /\ AnswersOwn'
  <2>1. \A k, n : RequestsBetween(k, n)' = RequestsBetween(k, n)
    BY <1>1 DEF RequestsBetween
  <2>2. QED
    BY <1>1, <2>1 DEF IdInv, IdOrder, IdRange, ToldSent, AnswersOwn
<1>2. CASE Next
  <2>0. StepShape
    BY <1>2, NextIs
  <2>1. ASSUME NEW c \in Contract, NEW kind \in Kinds, NEW prio \in Prios, NEW fits \in Fits,
               NEW rto \in RTOs, AddGenericObject(c, kind, prio, fits, rto)
        PROVE  IdInv' /\ AnswersOwn'
    <3>1. IdOrder' /\ IdRange'
      BY <2>1, OrderAdd DEF IdInv
    <3>2. added \in Int /\ added' \in Int /\ added <= added' /\ sent' = sent /\ told' = told
      <4>1. added \in Int /\ added' = added + 1
        BY <2>1, TypeAdd, AddedInt
      <4>2. QED
        BY <2>1, <4>1 DEF AddGenericObject
    <3>3. \A h \in Handle : h <= added => Same(msg[h], msg'[h])
      <4>1. msg' = [msg EXCEPT ![added + 1] = msg'[added + 1]]
            /\ msg \in [Handle -> Message \cup {NoMsg}]
        BY <2>1, TypeAdd DEF TypeOK
      <4>2. \A h \in Handle : h \in Int /\ (h <= added => h # added + 1)
        BY <3>2, HandleNat
      <4>3. QED
        BY <4>1, <4>2 DEF Same
    <3>4. ToldSent' /\ AnswersOwn'
      BY <3>2, <3>3, AnswersKept DEF IdInv
    <3>5. QED
      BY <3>1, <3>4 DEF IdInv
  <2>2. ASSUME NEW D \in SUBSET Ready(Confirmed), NEW S \in SUBSET Handle,
               NEW V \in SUBSET Handle, TaskStep(D, S, V)
        PROVE  IdInv' /\ AnswersOwn'
    BY <2>2, IdsTask
  <2>3. CASE OneSecond
    BY <1>1, <2>3, OneSecondIs
  <2>4. CASE MsgStep(cursor, 0) /\ UNCHANGED <<added, conf, sent>>
    BY <2>4, IdsMsgStep
  <2>5. ASSUME NEW k \in Handle, NEW h \in Handle, MsgStep(h, k), k \in sent, h \in Matching(k),
               UNCHANGED <<added, conf, cursor, sent>>
        PROVE  IdInv' /\ AnswersOwn'
    BY <2>5, MatchingOwn, IdsMsgStep
  <2>6. CASE ContractStep
    <3>1. UNCHANGED <<msg, added, conf, cursor, sent, told>>
      BY <2>6, ContractIs
    <3>2. PICK c \in Contract, w \in ContractRecord :
              /\ contract' = [contract EXCEPT ![c] = w]
              /\ \/ w.gen = contract[c].gen /\ w.req = contract[c].req
                 \/ w.gen = contract[c].gen + 1 /\ w.req \in 0..(ReqMod - 1)
      BY <2>6, ContractIs
    <3>3. \A d \in Contract :
            /\ contract'[d].req \in 0..(ReqMod - 1)
            /\ \/ contract'[d].gen = contract[d].gen + 1
               \/ contract'[d].gen = contract[d].gen /\ contract'[d].req = contract[d].req
      BY <3>2 DEF TypeOK, IdInv, IdRange
    <3>4. \A h \in Handle : Same(msg[h], msg'[h])
      BY <3>1 DEF Same
    <3>5. IdOrder' /\ IdRange'
      BY <3>1, <3>3, <3>4, OrderKept DEF IdInv
    <3>6. ToldSent' /\ AnswersOwn'
      <4>1. added \in Int /\ added' = added /\ sent' = sent /\ told' = told
        BY <3>1, ConstantsOK DEF TypeOK
      <4>2. QED
        BY <3>4, <4>1, AnswersKept DEF IdInv
    <3>7. QED
      BY <3>5, <3>6 DEF IdInv
  <2>7. QED
    BY <2>0, <2>1, <2>2, <2>3, <2>4, <2>5, <2>6 DEF StepShape
<1>3. QED
  BY <1>1, <1>2 DEF vars

LEMMA IdsInit == Init => IdInv /\ AnswersOwn
<1> SUFFICES ASSUME Init PROVE IdInv /\ AnswersOwn
  OBVIOUS
<1>1. added = 0 /\ \A h \in Handle : h \in Nat \ {0} /\ told[h] = << >>
  BY HandleNat DEF Init
<1>2. ASSUME NEW c \in Contract PROVE contract[c].req \in 0..(ReqMod - 1)
  <2>1. PICK n \in 1..Window : contract[c] = [Fresh(1, 0) EXCEPT !.crt = n]
    BY DEF Init
  <2>2. contract[c].req = 0
    BY <2>1 DEF Fresh
  <2>3. QED
    BY <2>2, ConstantsOK
<1>3. AnswersOwn /\ ToldSent
  BY <1>1 DEF AnswersOwn, ToldSent
<1>4. \A h \in Handle : ~ (h <= added)
  BY <1>1
<1>5. IdRange
  BY <1>2, <1>4 DEF IdRange
<1>6. IdOrder
  <2>1. \A k, h \in Handle : ~ (k <= h /\ h <= added)
    BY <1>4
  <2>2. QED
    BY <1>4, <2>1 DEF IdOrder
<1>7. QED
  BY <1>3, <1>5, <1>6 DEF IdInv

\* However late or often the answers come, a request is given its own or one that its
\* id cannot tell from its own: of another incarnation of the contract, or a multiple of
\* the number of ids away.
THEOREM AslAnswersOwn == Spec => []AnswersOwn
<1> DEFINE Inv == TypeOK /\ ToldInv /\ QueueInv /\ IdInv /\ AnswersOwn
<1>1. Init => Inv
  BY TypeInit, ToldInit, QueueInit, IdsInit
<1>2. Inv /\ [Next]_vars => Inv'
  BY TypeNext, ToldNext, QueueNext, IdsNext
<1>3. Inv => AnswersOwn
  OBVIOUS
<1>4. QED
  BY <1>1, <1>2, <1>3, PTL DEF Spec
=============================================================================
