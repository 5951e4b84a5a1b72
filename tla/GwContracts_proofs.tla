-------------------------- MODULE GwContracts_proofs --------------------------
(***************************************************************************)
(* Contracts and the leases on them: an active client lease holds a        *)
(* contract to its own device, the usage count is the number of leases on  *)
(* the contract, only a contract nobody uses is terminated, and a lease    *)
(* pending delete waits for a contract that is on its way out.             *)
(***************************************************************************)
EXTENDS GwSessions_proofs

-----------------------------------------------------------------------------
(* Arithmetic modulo the width of the usage count.                         *)

LEMMA ModUnique ==
  ASSUME NEW q \in Int, NEW p \in Int, NEW r \in 0..(UsageMod - 1), NEW s \in 0..(UsageMod - 1),
         UsageMod * q + r = UsageMod * p + s
  PROVE  r = s
<1>1. UsageMod * (q - p) = s - r /\ UsageMod * (p - q) = r - s
  BY BoundAssumption
<1>2. CASE q - p >= 1
  <2>1. UsageMod * (q - p) >= UsageMod
    BY <1>2, BoundAssumption
  <2>2. QED
    BY <1>1, <2>1, BoundAssumption
<1>3. CASE p - q >= 1
  <2>1. UsageMod * (p - q) >= UsageMod
    BY <1>3, BoundAssumption
  <2>2. QED
    BY <1>1, <2>1, BoundAssumption
<1>4. CASE q = p
  BY <1>1, <1>4, BoundAssumption
<1>5. QED
  BY <1>2, <1>3, <1>4

\* A count that is added to (b >= 0) or subtracted from modulo its width is the
\* true count modulo its width.
LEMMA ModAdd ==
  ASSUME NEW a \in Int, NEW b \in Int
  PROVE  ((a % UsageMod) + b) % UsageMod = (a + b) % UsageMod
<1>1. \A x \in Int : /\ x = UsageMod * (x \div UsageMod) + (x % UsageMod)
                     /\ x \div UsageMod \in Int /\ x % UsageMod \in 0..(UsageMod - 1)
  BY BoundAssumption
<1> DEFINE q == a \div UsageMod
           r == a % UsageMod
           y == r + b
           z == a + b
           u == y \div UsageMod
           v == y % UsageMod
           k == z \div UsageMod
           w == z % UsageMod
<1>2. /\ a = UsageMod * q + r /\ q \in Int /\ r \in Int /\ y \in Int /\ z \in Int
  BY <1>1, BoundAssumption
<1>3. y = UsageMod * u + v /\ u \in Int /\ v \in 0..(UsageMod - 1)
  BY <1>1, <1>2
<1>4. z = UsageMod * k + w /\ k \in Int /\ w \in 0..(UsageMod - 1)
  BY <1>1, <1>2
<1>5. z = UsageMod * q + y
  BY <1>2, BoundAssumption
<1> HIDE DEF q, r, y, z, u, v, k, w
<1>6. z = UsageMod * (u + q) + v
  BY <1>2, <1>3, <1>5, BoundAssumption
<1>7. v = w
  BY <1>2, <1>3, <1>4, <1>6, ModUnique
<1>8. QED
  BY <1>7 DEF v, w, y, z, r

-----------------------------------------------------------------------------
(* The inductive invariants.                                               *)

\* A contract id that an answer in flight grants is new, and granted once.
AnswersFresh ==
  /\ \A d \in Dst, c \in ContractId : Rsp(d, c) \in net => c \notin Table
  /\ \A d, e \in Dst, c \in ContractId : Rsp(d, c) \in net /\ Rsp(e, c) \in net => d = e

\* AnswersFresh keeps a contract that leases use from being replaced by another
\* with the same id and a different destination.
ContractInv == AnswersFresh /\ ActiveLeaseHasContract /\ SMContractLive

\* A contract that is not in the table has no users to inherit.
UnusedOutside == \A c \in ContractId \ Table : usage[c] = 0

\* Only client leases wait for, or hold, a contract.
OnlyClients ==
  /\ \A r \in In("inProgress") : lease[r].kind = "CLIENT"
  /\ \A r \in Active : lease[r].kind # "CLIENT" => lease[r].contract = 0

UsageInv == UnusedOutside /\ OnlyClients /\ UsageMatches

LEMMA Messages ==
  /\ \A d, e, c, b : Rsp(d, c) = Rsp(e, b) => d = e /\ c = b
  /\ \A d, e, c : Rsp(d, c) # Req(e)
  /\ \A d, c, b : Rsp(d, c) # Term(b) /\ Rsp(d, c) # Del(b)
  /\ \A c, d : Term(c) # Req(d)
  /\ \A c, d, b : Term(c) # Rsp(d, b) /\ Term(c) # Del(b)
  /\ \A c, b : Term(c) = Term(b) => c = b
  /\ \A c, b : Del(c) = Del(b) => c = b
  /\ \A c, d : Del(c) # Req(d)
<1>1. \A d, c : Rsp(d, c).type = "rsp" /\ Rsp(d, c).dst = d /\ Rsp(d, c).id = c
  BY DEF Rsp
<1>2. \A d : Req(d).type = "req"
  BY DEF Req
<1>3. \A c : Term(c).type = "term" /\ Term(c).id = c
  BY DEF Term
<1>4. \A c : Del(c).type = "del" /\ Del(c).id = c
  BY DEF Del
<1>5. QED
  BY <1>1, <1>2, <1>3, <1>4

LEMMA FreshNotAnswered ==
  ASSUME NEW c, FreshId(c)
  PROVE  \A d : Rsp(d, c) \notin net
BY DEF FreshId, Rsp

-----------------------------------------------------------------------------
(* ContractInv.                                                            *)

\* A step that keeps the contracts, brings no answer and activates no lease keeps
\* the invariant.
LEMMA ContractInvKept ==
  ASSUME ContractInv, UNCHANGED <<dstOf, smContract>>,
         \A d \in Dst, c \in ContractId : Rsp(d, c) \in net' => Rsp(d, c) \in net,
         \A r \in Ref : list'[r] = "active" =>
            /\ list[r] = "active" /\ lease'[r].kind = lease[r].kind
            /\ lease'[r].contract = lease[r].contract /\ lease'[r].dst = lease[r].dst
  PROVE  ContractInv'
<1>1. Table' = Table
  BY DEF Table
<1>2. AnswersFresh'
  BY <1>1 DEF ContractInv, AnswersFresh
<1>3. ActiveLeaseHasContract'
  BY <1>1 DEF ContractInv, ActiveLeaseHasContract, Active, In
<1>4. SMContractLive'
  BY <1>1 DEF ContractInv, SMContractLive
<1>5. QED
  BY <1>2, <1>3, <1>4 DEF ContractInv

\* A contract that is new, or known with the same destination, and that no answer
\* in flight grants as well, keeps the invariant when it is added.
LEMMA AddKeepsContracts ==
  ASSUME TypeOK, ContractInv, NEW c \in ContractId, NEW d \in Dst, AddContract(c, d),
         c \notin Table \/ dstOf[c] = d, net' \subseteq net,
         \A e \in Dst : Rsp(e, c) \notin net'
  PROVE  ContractInv'
<1>1. dstOf'[c] = d /\ \A b \in ContractId \ {c} : dstOf'[b] = dstOf[b]
  BY DEF AddContract, TypeOK
<1>2. d # NoDst /\ c # 0
  BY DstAssumption, ContractIdAssumption
<1>3. Table' = Table \cup {c}
  BY <1>1, <1>2 DEF Table
<1>4. \A b \in Table : dstOf'[b] = dstOf[b]
  BY <1>1 DEF Table
<1>5. AnswersFresh'
  BY <1>3 DEF ContractInv, AnswersFresh
<1>6. ASSUME NEW r \in Ref, list'[r] = "active", lease'[r].kind = "CLIENT"
      PROVE  lease'[r].contract \in Table' /\ dstOf'[lease'[r].contract] = lease'[r].dst
  <2>1. CASE r \in Clients(d)
    <3>1. lease[r] \in Lease /\ lease[r].dst = d
      BY <2>1, LeaseFields DEF Clients, In
    <3>2. lease'[r] = [lease[r] EXCEPT !.contract = c]
      BY <2>1 DEF AddContract
    <3>3. lease'[r].contract = c /\ lease'[r].dst = d
      BY <3>1, <3>2 DEF Lease
    <3>4. QED
      BY <1>1, <1>3, <3>3
  <2>2. CASE r \notin Clients(d)
    <3>1. list[r] = "active" /\ lease'[r] = lease[r]
      BY <1>6, <2>2 DEF AddContract
    <3>2. lease[r].contract \in Table /\ dstOf[lease[r].contract] = lease[r].dst
      BY <1>6, <3>1 DEF ContractInv, ActiveLeaseHasContract, Active, In
    <3>3. QED
      BY <1>3, <1>4, <3>1, <3>2
  <2>3. QED
    BY <2>1, <2>2
<1>7. ActiveLeaseHasContract'
  BY <1>6 DEF ActiveLeaseHasContract, Active, In
<1>8. SMContractLive'
  <2>1. CASE d = SMDst
    BY <1>1, <1>3, <2>1 DEF AddContract, SMContractLive
  <2>2. CASE d # SMDst
    BY <1>3, <1>4, <2>2 DEF AddContract, ContractInv, SMContractLive
  <2>3. QED
    BY <2>1, <2>2
<1>9. QED
  BY <1>5, <1>7, <1>8 DEF ContractInv

\* Removing leases keeps the invariant.
LEMMA RemoveKeepsContracts ==
  ASSUME ContractInv, NEW K, NEW N, NEW F, RemoveLeases(K, N, F)
  PROVE  ContractInv'
<1>1. UNCHANGED <<dstOf, smContract>>
  BY DEF RemoveLeases
<1>2. \A d \in Dst, c \in ContractId : Rsp(d, c) \in net' => Rsp(d, c) \in net
  BY Messages DEF RemoveLeases
<1>3. ASSUME NEW r \in Ref, list'[r] = "active"
      PROVE  list[r] = "active" /\ lease'[r] = lease[r]
  BY <1>3, RemoveRest DEF InUse
<1>4. QED
  BY <1>1, <1>2, <1>3, ContractInvKept

\* One step keeps the invariant, by action.
LEMMA ContractStep ==
  ASSUME TypeOK, ContractInv, [Next]_vars
  PROVE  ContractInv'
<1> USE DEF clockVars, sessVars, leaseVars, dmoVars, faultVars
<1>1. ASSUME UNCHANGED <<dstOf, smContract, list, lease>>,
             \A d \in Dst, c \in ContractId : Rsp(d, c) \in net' => Rsp(d, c) \in net
      PROVE  ContractInv'
  BY <1>1, ContractInvKept
<1>2. ASSUME NEW d, RequestContract(d), NEW e \in Dst, NEW c \in ContractId, Rsp(e, c) \in net'
      PROVE  Rsp(e, c) \in net
  BY <1>2, Messages DEF RequestContract
<1>3. CASE \E k \in Conn, p \in Periods \cup {0} : CreateSession(k, p)
  BY <1>1, <1>3 DEF CreateSession
<1>4. ASSUME NEW s \in SessionId, NEW p \in Periods, RenewSession(s, p)
      PROVE  ContractInv'
  <2>1. ASSUME NEW r \in Ref, list'[r] = "active"
        PROVE  /\ list[r] = "active" /\ lease'[r].kind = lease[r].kind
               /\ lease'[r].contract = lease[r].contract /\ lease'[r].dst = lease[r].dst
    <3>1. list[r] = "active" /\ lease[r] \in Lease
      BY <1>4, <2>1, LeaseFields DEF RenewSession, CutLeases
    <3>2. lease'[r] \in {lease[r], [lease[r] EXCEPT !.exp = now + p]}
      BY <1>4 DEF RenewSession, CutLeases
    <3>3. QED
      BY <3>1, <3>2 DEF Lease
  <2>2. QED
    BY <1>4, <2>1, ContractInvKept DEF RenewSession, CutLeases
<1>5. ASSUME NEW s \in SessionId, DeleteSession(s)
      PROVE  ContractInv'
  BY <1>5, RemoveKeepsContracts DEF DeleteSession, DropSessions
<1>6. ASSUME NEW k \in Conn, CloseConnection(k)
      PROVE  ContractInv'
  BY <1>6, RemoveKeepsContracts DEF CloseConnection, DropSessions
<1>7. ASSUME NEW r \in Ref, NEW s \in SessionId, NEW kd, NEW d, NEW t, NEW p, NEW c, NEW l,
             Put(r, l, NewLease(s, kd, d, t, p, c)), UNCHANGED <<dstOf, smContract>>,
             l = "active" /\ kd = "CLIENT" => c \in Table /\ dstOf[c] = d,
             \A e \in Dst, b \in ContractId : Rsp(e, b) \in net' => Rsp(e, b) \in net
      PROVE  ContractInv'
  <2>1. Table' = Table
    BY <1>7 DEF Table
  <2>2. list'[r] = l /\ lease'[r] = NewLease(s, kd, d, t, p, c)
    BY <1>7 DEF Put, TypeOK
  <2>3. lease'[r].kind = kd /\ lease'[r].dst = d /\ lease'[r].contract = c
    BY <2>2 DEF NewLease
  <2>4. \A x \in Ref \ {r} : list'[x] = list[x] /\ lease'[x] = lease[x]
    BY <1>7 DEF Put, TypeOK
  <2>5. ActiveLeaseHasContract'
    BY <1>7, <2>1, <2>2, <2>3, <2>4 DEF ContractInv, ActiveLeaseHasContract, Active, In
  <2>6. AnswersFresh' /\ SMContractLive'
    BY <1>7, <2>1 DEF ContractInv, AnswersFresh, SMContractLive
  <2>7. QED
    BY <2>5, <2>6 DEF ContractInv
<1>8. ASSUME NEW r \in Ref, NEW s \in SessionId, NEW kd \in {"SERVER", "SUBSCRIBER"},
             NEW d \in Dst, NEW t \in Tsap, NEW p \in Periods \cup {0},
             CreatePlainLease(r, s, kd, d, t, p)
      PROVE  ContractInv'
  BY <1>7, <1>8 DEF CreatePlainLease
<1>9. ASSUME NEW r \in Ref, NEW s \in SessionId, NEW d \in Dst, NEW t \in Tsap,
             NEW p \in Periods \cup {0}, NEW c \in ContractId, ReuseContract(r, s, d, t, p, c)
      PROVE  ContractInv'
  BY <1>7, <1>9 DEF ReuseContract, GetContract
<1>10. ASSUME NEW r \in Ref, NEW s \in SessionId, NEW d \in Dst, NEW t \in Tsap,
              NEW p \in Periods \cup {0}, AskContract(r, s, d, t, p)
       PROVE  ContractInv'
  BY <1>2, <1>7, <1>10 DEF AskContract
<1>11. ASSUME NEW r \in Ref, DeleteLease(r)
       PROVE  ContractInv'
  BY <1>11, RemoveKeepsContracts DEF DeleteLease
<1>12. ASSUME NEW r \in Ref, NEW p \in Periods, RenewLease(r, p)
       PROVE  ContractInv'
  <2>1. lease[r] \in Lease
    BY <1>12, LeaseFields DEF RenewLease
  <2>2. PICK x : lease' = [lease EXCEPT ![r].exp = x]
    BY <1>12 DEF RenewLease
  <2>3. \A y \in Ref : lease'[y] = lease[y] \/ (y = r /\ lease'[y] = [lease[r] EXCEPT !.exp = x])
    BY <2>2 DEF TypeOK
  <2>4. \A y \in Ref : /\ lease'[y].kind = lease[y].kind /\ lease'[y].dst = lease[y].dst
                       /\ lease'[y].contract = lease[y].contract
    BY <2>1, <2>3 DEF Lease
  <2>5. QED
    BY <1>12, <2>4, ContractInvKept DEF RenewLease
<1>13. ASSUME NEW d \in Dst, KeyAdded(d) \/ RequestTimeout(d)
       PROVE  ContractInv'
  BY <1>1, <1>13, Messages DEF KeyAdded, RequestTimeout
<1>14. ASSUME NEW d \in Dst, NEW c \in ContractId \cup {0}, ContractResponse(d, c)
       PROVE  ContractInv'
  <2>1. CASE pend[d] # "idle" /\ c # 0 /\ ~TableFull
    <3>1. c \in ContractId /\ AddContract(c, d) /\ c \notin Table
      BY <1>14, <2>1 DEF ContractResponse, ContractInv, AnswersFresh
    <3>2. net' \subseteq net /\ \A e \in Dst : Rsp(e, c) \notin net'
      BY <1>14, <3>1 DEF ContractResponse, ContractInv, AnswersFresh
    <3>3. QED
      BY <3>1, <3>2, AddKeepsContracts
  <2>2. CASE ~(pend[d] # "idle" /\ c # 0 /\ ~TableFull)
    BY <1>1, <1>14, <2>2 DEF ContractResponse
  <2>3. QED
    BY <2>1, <2>2
<1>15. ASSUME NEW c \in ContractId, NEW d \in Dst, SetContract(c, d)
       PROVE  ContractInv'
  <2>1. AddContract(c, d) /\ net' = net
    BY <1>15 DEF SetContract
  <2>2. c \notin Table \/ dstOf[c] = d
    BY <1>15 DEF SetContract, FreshId
  <2>3. CASE FreshId(c)
    BY <2>1, <2>2, <2>3, FreshNotAnswered, AddKeepsContracts
  <2>4. CASE dstOf[c] = d
    <3>1. c \in Table
      BY <2>4, DstAssumption DEF Table
    <3>2. QED
      BY <2>1, <2>2, <3>1, AddKeepsContracts DEF ContractInv, AnswersFresh
  <2>5. QED
    BY <1>15, <2>3, <2>4 DEF SetContract
<1>16. ASSUME NEW c \in ContractId, DeleteContract(c)
       PROVE  ContractInv'
  <2>1. CASE c \in Table
    <3>1. /\ dstOf' = [dstOf EXCEPT ![c] = NoDst] /\ net' \subseteq net
          /\ list' = Relist({}, LeasesOn(c)) /\ lease' = Cells(LeasesOn(c))
          /\ smContract' = SMContractWithout(c)
      BY <1>16, <2>1 DEF DeleteContract
    <3>2. Table' = Table \ {c} /\ \A b \in Table' : dstOf'[b] = dstOf[b]
      BY <3>1 DEF Table, TypeOK
    <3>3. AnswersFresh'
      BY <3>1, <3>2 DEF ContractInv, AnswersFresh
    <3>4. ASSUME NEW r \in Ref, list'[r] = "active", lease'[r].kind = "CLIENT"
          PROVE  lease'[r].contract \in Table' /\ dstOf'[lease'[r].contract] = lease'[r].dst
      <4>1. r \notin LeasesOn(c) /\ list[r] = "active" /\ lease'[r] = lease[r]
        BY <3>1, <3>4, EraseRest
      <4>2. lease[r].contract # c
        BY <4>1 DEF LeasesOn, On, Active, In
      <4>3. QED
        BY <3>2, <3>4, <4>1, <4>2 DEF ContractInv, ActiveLeaseHasContract, Active, In
    <3>5. ActiveLeaseHasContract'
      BY <3>4 DEF ActiveLeaseHasContract, Active, In
    <3>6. SMContractLive'
      BY <3>1, <3>2 DEF ContractInv, SMContractLive, SMContractWithout
    <3>7. QED
      BY <3>3, <3>5, <3>6 DEF ContractInv
  <2>2. CASE c \notin Table
    BY <1>1, <1>16, <2>2 DEF DeleteContract
  <2>3. QED
    BY <2>1, <2>2
<1>17. CASE MaintainSMContract
  <2>1. CASE UNCHANGED <<leaseVars, dmoVars, net>>
    BY <1>1, <2>1
  <2>2. CASE RequestContract(SMDst) /\ UNCHANGED <<leaseVars, dstOf, usage, smContract, joined>>
    BY <1>1, <1>2, <2>2
  <2>3. CASE /\ SMDst \in Dst /\ \E c \in GetContract(SMDst) : AddContract(c, SMDst)
             /\ UNCHANGED <<pend, joined, net>>
    <3>1. PICK c \in Table : AddContract(c, SMDst) /\ dstOf[c] = SMDst
      BY <2>3 DEF GetContract
    <3>2. c \in ContractId /\ \A e \in Dst : Rsp(e, c) \notin net'
      BY <2>3 DEF Table, ContractInv, AnswersFresh
    <3>3. QED
      BY <2>3, <3>1, <3>2, AddKeepsContracts
  <2>4. QED
    BY <1>17, <2>1, <2>2, <2>3 DEF MaintainSMContract
<1>18. CASE OneSecondTasks
  BY <1>18, RemoveKeepsContracts DEF OneSecondTasks, DropSessions
<1>19. CASE Join \/ Tick \/ UNCHANGED vars
  BY <1>1, <1>19 DEF Join, Tick, vars
<1>20. ASSUME NEW d \in Dst, NEW c \in ContractId \cup {0}, SMAnswer(d, c)
       PROVE  ContractInv'
  <2>1. UNCHANGED <<dstOf, smContract, list, lease>> /\ Table' = Table
    BY <1>20 DEF SMAnswer, Table
  <2>2. CASE c = 0
    <3>1. \A e \in Dst, b \in ContractId : Rsp(e, b) \in net' => Rsp(e, b) \in net
      BY <1>20, <2>2, Messages, ContractIdAssumption DEF SMAnswer
    <3>2. QED
      BY <1>1, <2>1, <3>1
  <2>3. CASE FreshId(c)
    <3>1. c \notin Table /\ \A e \in Dst : Rsp(e, c) \notin net
      BY <2>3, FreshNotAnswered DEF FreshId
    <3>2. ASSUME NEW e \in Dst, NEW b \in ContractId, Rsp(e, b) \in net'
          PROVE  (Rsp(e, b) \in net /\ b # c) \/ (e = d /\ b = c)
      BY <1>20, <3>1, <3>2, Messages DEF SMAnswer
    <3>3. AnswersFresh'
      BY <2>1, <3>1, <3>2 DEF ContractInv, AnswersFresh
    <3>4. QED
      BY <2>1, <3>3 DEF ContractInv, ActiveLeaseHasContract, SMContractLive, Active, In
  <2>4. QED
    BY <1>20, <2>2, <2>3 DEF SMAnswer
<1>21. ASSUME NEW c \in ContractId, SMTerminate(c) \/ SMRevoke(c)
       PROVE  ContractInv'
  BY <1>1, <1>21, Messages DEF SMTerminate, SMRevoke
<1>22. ASSUME NEW m \in net, Lose(m)
       PROVE  ContractInv'
  BY <1>1, <1>22 DEF Lose
<1>23. CASE StackReset
  <2>1. net' = {} /\ smContract' = 0
    BY <1>23 DEF StackReset
  <2>2. \A r \in Ref : list'[r] # "active"
    BY <1>23, EraseRest DEF StackReset, Active, In
  <2>3. QED
    BY <2>1, <2>2 DEF ContractInv, AnswersFresh, ActiveLeaseHasContract, SMContractLive, Active, In
<1>24. QED
  BY <1>3, <1>4, <1>5, <1>6, <1>8, <1>9, <1>10, <1>11, <1>12, <1>13, <1>14, <1>15,
     <1>16, <1>17, <1>18, <1>19, <1>20, <1>21, <1>22, <1>23
  DEF Next, HostRequest, Stack, Environment

\* An active client lease holds a contract that is in the DMO's table and leads to
\* the lease's destination, through deletions by the System Manager, stack
\* resets, late answers and the re-use of contract ids.
THEOREM ActiveLeasesHaveContracts == Spec => []ActiveLeaseHasContract
<1>1. Init => ContractInv
  BY DstAssumption DEF Init, ContractInv, AnswersFresh, ActiveLeaseHasContract, SMContractLive,
     Active, In
<1>2. TypeOK /\ ContractInv /\ [Next]_vars => ContractInv'
  BY ContractStep
<1>3. ContractInv => ActiveLeaseHasContract
  BY DEF ContractInv
<1>4. QED
  BY <1>1, <1>2, <1>3, LeasesTypeCorrect, PTL DEF Spec

\* The contract the gateway keeps as its own to the System Manager is in the table
\* and leads there.
THEOREM SMContractIsLive == Spec => []SMContractLive
<1>1. Init => ContractInv
  BY DstAssumption DEF Init, ContractInv, AnswersFresh, ActiveLeaseHasContract, SMContractLive,
     Active, In
<1>2. TypeOK /\ ContractInv /\ [Next]_vars => ContractInv'
  BY ContractStep
<1>3. ContractInv => SMContractLive
  BY DEF ContractInv
<1>4. QED
  BY <1>1, <1>2, <1>3, LeasesTypeCorrect, PTL DEF Spec

-----------------------------------------------------------------------------
(* UsageInv: the usage counts.                                             *)

LEMMA OnFinite ==
  ASSUME NEW c, NEW R \in SUBSET Ref
  PROVE  On(c, R) \in SUBSET Ref /\ IsFiniteSet(On(c, R)) /\ Cardinality(On(c, R)) \in Nat
<1>1. On(c, R) \in SUBSET Ref
  BY DEF On
<1>2. IsFiniteSet(On(c, R))
  BY <1>1, RefAssumption, FS_Subset
<1>3. QED
  BY <1>1, <1>2, FS_CardinalityType

\* A step that changes neither the contracts nor which leases are active on which
\* keeps the invariant.
LEMMA UsageInvKept ==
  ASSUME UsageInv, UNCHANGED <<dstOf, usage>>,
         \A r \in Ref : /\ list'[r] = "active" <=> list[r] = "active"
                        /\ list'[r] = "inProgress" => list[r] = "inProgress"
                        /\ list'[r] \in {"active", "inProgress"} =>
                             /\ lease'[r].contract = lease[r].contract
                             /\ lease'[r].kind = lease[r].kind
  PROVE  UsageInv'
<1>1. Table' = Table
  BY DEF Table
<1>2. Active' = Active /\ \A c : On(c, Active)' = On(c, Active)
  BY DEF Active, In, On
<1>3. UnusedOutside' /\ UsageMatches'
  BY <1>1, <1>2 DEF UsageInv, UnusedOutside, UsageMatches
<1>4. OnlyClients'
  BY <1>2 DEF UsageInv, OnlyClients, Active, In
<1>5. QED
  BY <1>3, <1>4 DEF UsageInv

\* The leases still active after RemoveLeases, and what it does to the count: no
\* lease is given back twice or not at all.
LEMMA RemoveActive ==
  ASSUME NEW K \in SUBSET Active, NEW N \in SUBSET Active, NEW F \in SUBSET Ref,
         F \cap Active = {}, RemoveLeases(K, N, F)
  PROVE  /\ Active' = Active \ (K \cup N)
         /\ \A r \in Active' : lease'[r] = lease[r]
         /\ \A c : On(c, Active)' = On(c, Active) \ On(c, K \cup N)
<1>1. PICK P \in SUBSET K :
         /\ list' = Relist(P, (K \ P) \cup N \cup F)
         /\ lease' = Cells((K \ P) \cup N \cup F)
  BY DEF RemoveLeases
<1>2. \A r \in Ref : list'[r] = "active" <=> list[r] = "active" /\ r \notin K \cup N
  BY <1>1 DEF Relist, Active, In
<1>3. Active' = Active \ (K \cup N)
  BY <1>2 DEF Active, In
<1>4. \A r \in Active' : lease'[r] = lease[r]
  BY <1>1, <1>3 DEF Cells, Active, In
<1>5. \A c : On(c, Active)' = On(c, Active) \ On(c, K \cup N)
  BY <1>3, <1>4 DEF On
<1>6. QED
  BY <1>3, <1>4, <1>5

\* Removing leases keeps the invariant.
LEMMA RemoveKeepsUsage ==
  ASSUME TypeOK, UsageInv, NEW K \in SUBSET Active, NEW N \in SUBSET Active, NEW F \in SUBSET Ref,
         F \cap Active = {}, RemoveLeases(K, N, F)
  PROVE  UsageInv'
<1>1. UNCHANGED dstOf /\ usage' = UsageAfter(K, N) /\ Table' = Table
  BY DEF RemoveLeases, Table
<1>2. K \cup N \in SUBSET Ref /\ Active \in SUBSET Ref
  BY DEF Active, In
<1>3. ASSUME NEW c \in Table
      PROVE  usage'[c] = Cardinality(On(c, Active)') % UsageMod
  <2> DEFINE X == On(c, Active)
             Y == On(c, K \cup N)
  <2>1. IsFiniteSet(X) /\ Cardinality(X) \in Nat /\ Cardinality(Y) \in Nat
    BY <1>2, OnFinite
  <2>2. Cardinality(X \ Y) = Cardinality(X) - Cardinality(Y)
    <3>1. X \cap Y = Y
      BY DEF On
    <3>2. QED
      BY <2>1, <3>1, FS_Difference
  <2>3. On(c, Active)' = X \ Y
    BY RemoveActive
  <2>4. usage[c] = Cardinality(X) % UsageMod
    BY DEF UsageInv, UsageMatches
  <2>5. usage'[c] = (usage[c] - Cardinality(Y)) % UsageMod
    BY <1>1 DEF UsageAfter, Table
  <2> HIDE DEF X, Y
  <2>6. ((Cardinality(X) % UsageMod) + (-Cardinality(Y))) % UsageMod
          = (Cardinality(X) + (-Cardinality(Y))) % UsageMod
    BY <2>1, ModAdd
  <2>7. (Cardinality(X) % UsageMod) \in Int
    BY <2>1, BoundAssumption
  <2>8. (Cardinality(X) % UsageMod) - Cardinality(Y) = (Cardinality(X) % UsageMod) + (-Cardinality(Y))
    BY <2>1, <2>7
  <2>9. Cardinality(X) - Cardinality(Y) = Cardinality(X) + (-Cardinality(Y))
    BY <2>1
  <2>10. QED
    BY <2>2, <2>3, <2>4, <2>5, <2>6, <2>8, <2>9
<1>4. UsageMatches'
  BY <1>1, <1>3 DEF UsageMatches
<1>5. UnusedOutside'
  BY <1>1 DEF UsageInv, UnusedOutside, UsageAfter
<1>6. OnlyClients'
  <2>1. \A r \in Active' : r \in Active /\ lease'[r] = lease[r]
    BY RemoveActive
  <2>2. \A r \in In("inProgress")' : r \in In("inProgress") /\ lease'[r] = lease[r]
    BY RemoveRest DEF In, InUse
  <2>3. QED
    BY <2>1, <2>2 DEF UsageInv, OnlyClients
<1>7. QED
  BY <1>4, <1>5, <1>6 DEF UsageInv

\* Adding a contract keeps the invariant: every lease that waited for it is
\* counted, once.
LEMMA AddKeepsUsage ==
  ASSUME TypeOK, ContractInv, UsageInv, NEW c \in ContractId, NEW d \in Dst, AddContract(c, d)
  PROVE  UsageInv'
<1>1. /\ dstOf'[c] = d /\ \A b \in ContractId \ {c} : dstOf'[b] = dstOf[b]
      /\ usage'[c] = (usage[c] + Cardinality(Clients(d))) % UsageMod
      /\ \A b \in ContractId \ {c} : usage'[b] = usage[b]
  BY DEF AddContract, TypeOK
<1>2. d # NoDst /\ c # 0
  BY DstAssumption, ContractIdAssumption
<1>3. Table' = Table \cup {c}
  BY <1>1, <1>2 DEF Table
<1>4. /\ Clients(d) \in SUBSET Ref /\ Active \in SUBSET Ref
      /\ Clients(d) \cap Active = {} /\ \A r \in Clients(d) : lease[r] \in Lease
  BY LeaseFields DEF Clients, Active, In
<1>5. /\ \A r \in Clients(d) : list'[r] = "active" /\ lease'[r] = [lease[r] EXCEPT !.contract = c]
      /\ \A r \in Ref \ Clients(d) : list'[r] = list[r] /\ lease'[r] = lease[r]
  BY <1>4 DEF AddContract
<1>6. Active' = Active \cup Clients(d)
  BY <1>4, <1>5 DEF Active, In
<1>7. \A r \in Clients(d) : lease'[r].contract = c /\ lease'[r].kind = lease[r].kind
  <2>1. \A v \in Lease : LET w == [v EXCEPT !.contract = c]
                         IN w.contract = c /\ w.kind = v.kind
    BY DEF Lease
  <2>2. QED
    BY <1>4, <1>5, <2>1, ZenonT(60)
<1>8. \A r \in Active : lease'[r] = lease[r]
  BY <1>4, <1>5
<1>9. On(c, Active)' = On(c, Active) \cup Clients(d)
  <2>1. \A r \in Active' : r \in Clients(d) \/ (r \in Active /\ lease'[r] = lease[r])
    BY <1>6, <1>8
  <2>2. QED
    BY <1>6, <1>7, <1>8, <2>1 DEF On
<1>10. \A b \in ContractId \ {c} : On(b, Active)' = On(b, Active)
  BY <1>6, <1>7, <1>8 DEF On
<1>11. usage[c] = Cardinality(On(c, Active)) % UsageMod
  <2>1. CASE c \in Table
    BY <2>1 DEF UsageInv, UsageMatches
  <2>2. CASE c \notin Table
    <3>1. \A r \in Active : lease[r].contract # c
      BY <1>2, <2>2 DEF ContractInv, ActiveLeaseHasContract, UsageInv, OnlyClients
    <3>2. On(c, Active) = {}
      BY <3>1 DEF On
    <3>3. usage[c] = 0
      BY <2>2 DEF UsageInv, UnusedOutside
    <3>4. 0 % UsageMod = 0
      BY BoundAssumption
    <3>5. QED
      BY <3>2, <3>3, <3>4, FS_EmptySet
  <2>3. QED
    BY <2>1, <2>2
<1>12. usage'[c] = Cardinality(On(c, Active)') % UsageMod
  <2> DEFINE X == On(c, Active)
  <2>1. /\ IsFiniteSet(X) /\ Cardinality(X) \in Nat /\ X \cap Clients(d) = {}
        /\ IsFiniteSet(Clients(d)) /\ Cardinality(Clients(d)) \in Nat
    <3>1. IsFiniteSet(Clients(d))
      BY <1>4, RefAssumption, FS_Subset
    <3>2. X \cap Clients(d) = {}
      BY <1>4 DEF On
    <3>3. QED
      BY <1>4, <3>1, <3>2, OnFinite, FS_CardinalityType
  <2> HIDE DEF X
  <2>2. Cardinality(X \cup Clients(d)) = Cardinality(X) + Cardinality(Clients(d))
    <3>1. Cardinality(X \cap Clients(d)) = 0
      BY <2>1, FS_EmptySet
    <3>2. Cardinality(X \cup Clients(d))
            = Cardinality(X) + Cardinality(Clients(d)) - Cardinality(X \cap Clients(d))
      BY <2>1, FS_Union
    <3>3. QED
      BY <2>1, <3>1, <3>2
  <2>3. ((Cardinality(X) % UsageMod) + Cardinality(Clients(d))) % UsageMod
          = (Cardinality(X) + Cardinality(Clients(d))) % UsageMod
    BY <2>1, ModAdd
  <2>4. QED
    BY <1>1, <1>9, <1>11, <2>2, <2>3 DEF X
<1>13. UsageMatches'
  <2>1. \A b \in Table \ {c} : b \in ContractId \ {c}
    BY DEF Table
  <2>2. QED
    <3>1. \A b \in Table \ {c} : usage'[b] = Cardinality(On(b, Active)') % UsageMod
      BY <1>1, <1>10, <2>1 DEF UsageInv, UsageMatches
    <3>2. QED
      BY <1>3, <1>12, <3>1 DEF UsageMatches
<1>14. UnusedOutside'
  BY <1>1, <1>3 DEF UsageInv, UnusedOutside
<1>15. OnlyClients'
  <2>1. \A r \in In("inProgress")' : r \in In("inProgress") /\ lease'[r] = lease[r]
    BY <1>4, <1>5 DEF In
  <2>2. \A r \in Clients(d) : lease'[r].kind = "CLIENT"
    BY <1>7 DEF UsageInv, OnlyClients, Clients
  <2>3. QED
    BY <1>6, <1>8, <2>1, <2>2 DEF UsageInv, OnlyClients
<1>16. QED
  BY <1>13, <1>14, <1>15 DEF UsageInv

\* The premises of RemoveKeepsUsage, for the leases of sessions that end.
LEMMA DropKeepsUsage ==
  ASSUME TypeOK, UsageInv, NEW S, NEW N \in SUBSET Active, NEW F \in SUBSET Ref,
         F \cap Active = {}, DropSessions(S, N, F)
  PROVE  UsageInv'
<1> DEFINE K == Active \cap OfSession(S)
           F2 == F \cup ((In("subscriber") \cup In("inProgress")) \cap OfSession(S))
<1>1. K \in SUBSET Active
  OBVIOUS
<1>2. F2 \in SUBSET Ref /\ F2 \cap Active = {}
  BY DEF In, Active
<1>3. RemoveLeases(K, N, F2)
  BY DEF DropSessions
<1> HIDE DEF K, F2
<1>4. QED
  BY <1>1, <1>2, <1>3, RemoveKeepsUsage

\* One step keeps the invariant, by action.
LEMMA UsageStep ==
  ASSUME TypeOK, ContractInv, UsageInv, [Next]_vars
  PROVE  UsageInv'
<1> USE DEF clockVars, sessVars, leaseVars, dmoVars, faultVars
<1>1. ASSUME UNCHANGED <<dstOf, usage, list, lease>>
      PROVE  UsageInv'
  BY <1>1, UsageInvKept
<1>2. ASSUME NEW s \in SessionId, NEW p \in Periods, RenewSession(s, p)
      PROVE  UsageInv'
  <2>1. ASSUME NEW r \in Ref, list'[r] \in {"active", "inProgress"}
        PROVE  lease'[r].kind = lease[r].kind /\ lease'[r].contract = lease[r].contract
    <3>1. lease[r] \in Lease
      BY <1>2, <2>1, LeaseFields DEF RenewSession, CutLeases
    <3>2. lease'[r] \in {lease[r], [lease[r] EXCEPT !.exp = now + p]}
      BY <1>2 DEF RenewSession, CutLeases
    <3>3. QED
      BY <3>1, <3>2 DEF Lease
  <2>2. QED
    BY <1>2, <2>1, UsageInvKept DEF RenewSession, CutLeases
<1>3. ASSUME NEW s \in SessionId, DeleteSession(s)
      PROVE  UsageInv'
  <2>1. {} \in SUBSET Active /\ {} \in SUBSET Ref /\ {} \cap Active = {}
    OBVIOUS
  <2>2. QED
    BY <1>3, <2>1, DropKeepsUsage DEF DeleteSession
<1>4. ASSUME NEW k \in Conn, CloseConnection(k)
      PROVE  UsageInv'
  <2>1. {} \in SUBSET Active /\ {} \in SUBSET Ref /\ {} \cap Active = {}
    OBVIOUS
  <2>2. QED
    BY <1>4, <2>1, DropKeepsUsage DEF CloseConnection
<1>5. ASSUME NEW r \in Ref, list[r] = "free", NEW s, NEW kd, NEW d, NEW t, NEW p, NEW c,
             NEW l \in {"active", "subscriber", "inProgress"},
             Put(r, l, NewLease(s, kd, d, t, p, c))
      PROVE  /\ \A x \in Ref \ {r} : list'[x] = list[x] /\ lease'[x] = lease[x]
             /\ list'[r] = l /\ lease'[r].kind = kd /\ lease'[r].contract = c
             /\ r \notin Active /\ r \notin In("inProgress")
             /\ Active' = IF l = "active" THEN Active \cup {r} ELSE Active
             /\ In("inProgress")' = IF l = "inProgress" THEN In("inProgress") \cup {r}
                                    ELSE In("inProgress")
  <2>1. list'[r] = l /\ lease'[r] = NewLease(s, kd, d, t, p, c)
    BY <1>5 DEF Put, TypeOK
  <2>2. lease'[r].kind = kd /\ lease'[r].contract = c
    BY <2>1 DEF NewLease
  <2>3. \A x \in Ref \ {r} : list'[x] = list[x] /\ lease'[x] = lease[x]
    BY <1>5 DEF Put, TypeOK
  <2>4. r \notin Active /\ r \notin In("inProgress")
    BY <1>5 DEF Active, In
  <2>5. QED
    BY <2>1, <2>2, <2>3, <2>4 DEF Active, In
<1>6. ASSUME NEW r \in Ref, NEW s \in SessionId, NEW kd \in {"SERVER", "SUBSCRIBER"},
             NEW d \in Dst, NEW t \in Tsap, NEW p \in Periods \cup {0},
             CreatePlainLease(r, s, kd, d, t, p)
      PROVE  UsageInv'
  <2> DEFINE l == IF kd = "SERVER" THEN "active" ELSE "subscriber"
  <2>1. /\ Put(r, l, NewLease(s, kd, d, t, p, 0)) /\ list[r] = "free"
        /\ UNCHANGED <<dstOf, usage>> /\ l \in {"active", "subscriber"}
    BY <1>6 DEF CreatePlainLease
  <2> HIDE DEF l
  <2>2. /\ \A x \in Ref \ {r} : list'[x] = list[x] /\ lease'[x] = lease[x]
        /\ lease'[r].kind = kd /\ lease'[r].contract = 0 /\ r \notin Active
        /\ r \notin In("inProgress")
        /\ Active' \in {Active, Active \cup {r}} /\ In("inProgress")' = In("inProgress")
    BY <1>5, <2>1
  <2>3. Table' = Table /\ \A c \in Table : c # 0
    BY <2>1, ContractIdAssumption DEF Table
  <2>4. ASSUME NEW c \in Table PROVE On(c, Active)' = On(c, Active)
    BY <2>2, <2>3 DEF On, Active, In
  <2>5. UsageMatches' /\ UnusedOutside'
    BY <2>1, <2>3, <2>4 DEF UsageInv, UsageMatches, UnusedOutside
  <2>6. OnlyClients'
    BY <2>2 DEF UsageInv, OnlyClients, Active, In
  <2>7. QED
    BY <2>5, <2>6 DEF UsageInv
<1>7. ASSUME NEW r \in Ref, NEW s \in SessionId, NEW d \in Dst, NEW t \in Tsap,
             NEW p \in Periods \cup {0}, NEW c \in ContractId, ReuseContract(r, s, d, t, p, c)
      PROVE  UsageInv'
  <2>1. /\ Put(r, "active", NewLease(s, "CLIENT", d, t, p, c)) /\ list[r] = "free"
        /\ UNCHANGED dstOf /\ usage' = [usage EXCEPT ![c] = (@ + 1) % UsageMod] /\ c \in Table
    BY <1>7 DEF ReuseContract, GetContract
  <2>2. /\ \A x \in Ref \ {r} : list'[x] = list[x] /\ lease'[x] = lease[x]
        /\ lease'[r].kind = "CLIENT" /\ lease'[r].contract = c /\ r \notin Active
        /\ r \notin In("inProgress")
        /\ Active' = Active \cup {r} /\ In("inProgress")' = In("inProgress")
    BY <1>5, <2>1
  <2>3. Table' = Table
    BY <2>1 DEF Table
  <2>4. On(c, Active)' = On(c, Active) \cup {r} /\ r \notin On(c, Active)
    BY <2>2 DEF On, Active, In
  <2>5. \A b \in Table \ {c} : On(b, Active)' = On(b, Active) /\ usage'[b] = usage[b]
    BY <2>1, <2>2 DEF On, Active, In, Table, TypeOK
  <2>6. usage'[c] = Cardinality(On(c, Active)') % UsageMod
    <3>1. IsFiniteSet(On(c, Active)) /\ Cardinality(On(c, Active)) \in Nat
      BY OnFinite DEF Active, In
    <3>2. Cardinality(On(c, Active)') = Cardinality(On(c, Active)) + 1
      BY <2>4, <3>1, FS_AddElement
    <3>3. usage[c] = Cardinality(On(c, Active)) % UsageMod
      BY <2>1 DEF UsageInv, UsageMatches
    <3>4. usage'[c] = (usage[c] + 1) % UsageMod
      BY <2>1 DEF TypeOK
    <3>5. ((Cardinality(On(c, Active)) % UsageMod) + 1) % UsageMod
            = (Cardinality(On(c, Active)) + 1) % UsageMod
      BY <3>1, ModAdd
    <3>6. QED
      BY <3>2, <3>3, <3>4, <3>5
  <2>7. UsageMatches'
    BY <2>3, <2>5, <2>6 DEF UsageInv, UsageMatches
  <2>8. UnusedOutside'
    BY <2>1, <2>3 DEF UsageInv, UnusedOutside, TypeOK
  <2>9. OnlyClients'
    BY <2>2 DEF UsageInv, OnlyClients, Active, In
  <2>10. QED
    BY <2>7, <2>8, <2>9 DEF UsageInv
<1>8. ASSUME NEW r \in Ref, NEW s \in SessionId, NEW d \in Dst, NEW t \in Tsap,
             NEW p \in Periods \cup {0}, AskContract(r, s, d, t, p)
      PROVE  UsageInv'
  <2>1. /\ Put(r, "inProgress", NewLease(s, "CLIENT", d, t, p, 0)) /\ list[r] = "free"
        /\ UNCHANGED <<dstOf, usage>>
    BY <1>8 DEF AskContract
  <2>2. /\ \A x \in Ref \ {r} : list'[x] = list[x] /\ lease'[x] = lease[x]
        /\ lease'[r].kind = "CLIENT" /\ r \notin Active
        /\ Active' = Active /\ In("inProgress")' = In("inProgress") \cup {r}
    BY <1>5, <2>1
  <2>3. Table' = Table /\ \A c : On(c, Active)' = On(c, Active)
    BY <2>1, <2>2 DEF Table, On, Active, In
  <2>4. UsageMatches' /\ UnusedOutside'
    BY <2>1, <2>3 DEF UsageInv, UsageMatches, UnusedOutside
  <2>5. OnlyClients'
    BY <2>2 DEF UsageInv, OnlyClients, Active, In
  <2>6. QED
    BY <2>4, <2>5 DEF UsageInv
<1>9. ASSUME NEW r \in Ref, DeleteLease(r)
      PROVE  UsageInv'
  <2>1. /\ {r} \cap Active \in SUBSET Active /\ {} \in SUBSET Active
        /\ {r} \ Active \in SUBSET Ref /\ ({r} \ Active) \cap Active = {}
    OBVIOUS
  <2>2. RemoveLeases({r} \cap Active, {}, {r} \ Active)
    BY <1>9 DEF DeleteLease
  <2>3. QED
    BY <2>1, <2>2, RemoveKeepsUsage
<1>10. ASSUME NEW r \in Ref, NEW p \in Periods, RenewLease(r, p)
       PROVE  UsageInv'
  <2>1. lease[r] \in Lease
    BY <1>10, LeaseFields DEF RenewLease
  <2>2. PICK x : lease' = [lease EXCEPT ![r].exp = x]
    BY <1>10 DEF RenewLease
  <2>3. \A y \in Ref : lease'[y] = lease[y] \/ (y = r /\ lease'[y] = [lease[r] EXCEPT !.exp = x])
    BY <2>2 DEF TypeOK
  <2>4. \A y \in Ref : lease'[y].kind = lease[y].kind /\ lease'[y].contract = lease[y].contract
    BY <2>1, <2>3 DEF Lease
  <2>5. QED
    BY <1>10, <2>4, UsageInvKept DEF RenewLease
<1>11. ASSUME NEW d \in Dst, NEW c \in ContractId \cup {0}, ContractResponse(d, c)
       PROVE  UsageInv'
  <2>1. CASE pend[d] # "idle" /\ c # 0 /\ ~TableFull
    <3>1. c \in ContractId /\ AddContract(c, d)
      BY <1>11, <2>1 DEF ContractResponse
    <3>2. QED
      BY <3>1, AddKeepsUsage
  <2>2. CASE ~(pend[d] # "idle" /\ c # 0 /\ ~TableFull)
    BY <1>1, <1>11, <2>2 DEF ContractResponse
  <2>3. QED
    BY <2>1, <2>2
<1>12. ASSUME NEW c \in ContractId, NEW d \in Dst, SetContract(c, d)
       PROVE  UsageInv'
  BY <1>12, AddKeepsUsage DEF SetContract
<1>13. ASSUME NEW c \in ContractId, DeleteContract(c)
       PROVE  UsageInv'
  <2>1. CASE c \in Table
    <3>1. /\ dstOf' = [dstOf EXCEPT ![c] = NoDst] /\ usage' = [usage EXCEPT ![c] = 0]
          /\ list' = Relist({}, LeasesOn(c)) /\ lease' = Cells(LeasesOn(c))
      BY <1>13, <2>1 DEF DeleteContract
    <3>2. Table' = Table \ {c}
      BY <3>1 DEF Table, TypeOK
    <3>3. \A r \in Ref : list'[r] # "free" => r \notin LeasesOn(c) /\ list'[r] = list[r] /\ lease'[r] = lease[r]
      BY <3>1, EraseRest
    <3>4. \A r \in Ref \ LeasesOn(c) : list'[r] = list[r] /\ lease'[r] = lease[r]
      BY <3>1 DEF Relist, Cells
    <3>5. Active' = Active \ LeasesOn(c) /\ \A r \in Active' : lease'[r] = lease[r]
      BY <3>3, <3>4 DEF Active, In
    <3>6. \A b \in Table \ {c} : On(b, Active)' = On(b, Active) /\ usage'[b] = usage[b]
      <4>1. \A r \in LeasesOn(c) : lease[r].contract = c
        BY DEF LeasesOn, On
      <4>2. \A b \in Table \ {c} : On(b, Active)' = On(b, Active)
        BY <3>5, <4>1 DEF On
      <4>3. QED
        BY <3>1, <4>2 DEF Table, TypeOK
    <3>7. UsageMatches'
      BY <3>2, <3>6 DEF UsageInv, UsageMatches
    <3>8. UnusedOutside'
      BY <3>1, <3>2 DEF UsageInv, UnusedOutside, TypeOK
    <3>9. OnlyClients'
      BY <3>3 DEF UsageInv, OnlyClients, Active, In
    <3>10. QED
      BY <3>7, <3>8, <3>9 DEF UsageInv
  <2>2. CASE c \notin Table
    BY <1>1, <1>13, <2>2 DEF DeleteContract
  <2>3. QED
    BY <2>1, <2>2
<1>14. CASE MaintainSMContract
  <2>1. ASSUME SMDst \in Dst, NEW c \in GetContract(SMDst), AddContract(c, SMDst)
        PROVE  UsageInv'
    <3>1. c \in ContractId
      BY DEF GetContract, Table
    <3>2. QED
      BY <2>1, <3>1, AddKeepsUsage
  <2>2. QED
    BY <1>1, <1>14, <2>1 DEF MaintainSMContract
<1>15. CASE OneSecondTasks
  <2> DEFINE S == ExpiredSessions
             rest == Ref \ OfSession(S)
             N == {r \in Active \cap rest : ExpiredLease(r)}
             F == {r \in In("subscriber") \cap rest : ExpiredLease(r)}
                    \cup {r \in In("inProgress") \cap rest : StaleRequest(r)}
  <2>1. N \in SUBSET Active
    OBVIOUS
  <2>2. F \in SUBSET Ref /\ F \cap Active = {}
    BY DEF In, Active
  <2>3. DropSessions(S, N, F)
    BY <1>15 DEF OneSecondTasks
  <2> HIDE DEF S, N, F
  <2>4. QED
    BY <2>1, <2>2, <2>3, DropKeepsUsage
<1>16. CASE StackReset
  <2>1. Table' = {} /\ \A c \in ContractId : usage'[c] = 0
    BY <1>16 DEF StackReset, Table
  <2>2. \A r \in Ref : list'[r] # "free" => r \notin Active /\ list'[r] = list[r] /\ lease'[r] = lease[r]
    BY <1>16, EraseRest DEF StackReset
  <2>3. QED
    BY <2>1, <2>2 DEF UsageInv, UnusedOutside, OnlyClients, UsageMatches, Active, In
<1>17. CASE UNCHANGED vars \/ Join \/ Tick
  BY <1>1, <1>17 DEF vars, Join, Tick
<1>18. ASSUME NEW d \in Dst, NEW c \in ContractId \cup {0}, SMAnswer(d, c)
       PROVE  UsageInv'
  BY <1>1, <1>18 DEF SMAnswer
<1>19. ASSUME NEW c \in ContractId, SMTerminate(c) \/ SMRevoke(c)
       PROVE  UsageInv'
  BY <1>1, <1>19 DEF SMTerminate, SMRevoke
<1>20. ASSUME NEW m \in net, Lose(m)
       PROVE  UsageInv'
  BY <1>1, <1>20 DEF Lose
<1>21. ASSUME NEW d \in Dst, KeyAdded(d) \/ RequestTimeout(d)
       PROVE  UsageInv'
  BY <1>1, <1>21 DEF KeyAdded, RequestTimeout
<1>22. CASE \E k \in Conn, p \in Periods \cup {0} : CreateSession(k, p)
  BY <1>1, <1>22 DEF CreateSession
<1>23. QED
  BY <1>2, <1>3, <1>4, <1>6, <1>7, <1>8, <1>9, <1>10, <1>11, <1>12, <1>13, <1>14, <1>15,
     <1>16, <1>17, <1>18, <1>19, <1>20, <1>21, <1>22
  DEF Next, HostRequest, Stack, Environment

LEMMA InvariantsHold == Spec => [](TypeOK /\ ContractInv /\ UsageInv)
<1>1. Init => ContractInv /\ UsageInv
  <2>1. Init => Table = {} /\ Active = {} /\ In("inProgress") = {}
    BY DEF Init, Table, Active, In
  <2>2. QED
    BY <2>1 DEF Init, ContractInv, AnswersFresh, ActiveLeaseHasContract, SMContractLive,
       UsageInv, UnusedOutside, OnlyClients, UsageMatches
<1>2. TypeOK /\ ContractInv /\ UsageInv /\ [Next]_vars => ContractInv' /\ UsageInv'
  BY ContractStep, UsageStep
<1>3. QED
  BY <1>1, <1>2, LeasesTypeCorrect, PTL DEF Spec

\* The usage count of a contract is the number of active leases on it, modulo its
\* width: no creation, activation, deletion or expiry of a lease and no
\* notification loses or double-counts one.
THEOREM UsageCountsLeases == Spec => []UsageMatches
<1>1. UsageInv => UsageMatches
  BY DEF UsageInv
<1>2. QED
  BY <1>1, InvariantsHold, PTL

-----------------------------------------------------------------------------
(* Termination.                                                            *)

\* With fewer leases than the usage count can hold, a contract whose count passes
\* through 0 while leases are removed has no active lease left.
LEMMA TerminatedUnused ==
  ASSUME Cardinality(Ref) < UsageMod, TypeOK, UsageInv,
         NEW K \in SUBSET Active, NEW N \in SUBSET Active,
         NEW c \in Terminated({}, K) \cup Terminated(K, N)
  PROVE  c # smContract /\ On(c, Active) = On(c, K \cup N)
<1> DEFINE X == On(c, Active)
           Y == On(c, K \cup N)
<1>1. /\ K \in SUBSET Ref /\ N \in SUBSET Ref /\ Active \in SUBSET Ref
      /\ K \cup N \in SUBSET Ref /\ {} \cup K \in SUBSET Ref /\ {} \in SUBSET Ref
  BY DEF Active, In
<1>2. /\ IsFiniteSet(X) /\ Cardinality(X) \in Nat /\ Cardinality(Y) \in Nat
      /\ Cardinality(On(c, {} \cup K)) \in Nat /\ Cardinality(On(c, {})) \in Nat
      /\ Cardinality(On(c, K)) \in Nat
      /\ IsFiniteSet(Y) /\ X \in SUBSET Ref
  BY <1>1, OnFinite
<1>3. Y \in SUBSET X /\ On(c, {} \cup K) \in SUBSET Y
  BY DEF On
<1>4. Cardinality(Y) <= Cardinality(X) /\ Cardinality(On(c, {} \cup K)) <= Cardinality(Y)
  BY <1>2, <1>3, FS_Subset
<1>5. Cardinality(X) <= Cardinality(Ref) /\ Cardinality(Ref) \in Nat
  BY <1>2, RefAssumption, FS_Subset, FS_CardinalityType
<1>6. c \in Table \ {smContract}
  BY DEF Terminated
<1>7. usage[c] = Cardinality(X)
  <2>1. usage[c] = Cardinality(X) % UsageMod
    BY <1>6 DEF UsageInv, UsageMatches
  <2>2. Cardinality(X) < UsageMod
    BY <1>2, <1>5, BoundAssumption
  <2>3. QED
    BY <1>2, <2>1, <2>2, ModSmall
<1>8. \/ Hits(c, Cardinality(On(c, {})), Cardinality(On(c, {} \cup K)))
      \/ Hits(c, Cardinality(On(c, K)), Cardinality(Y))
  BY DEF Terminated
<1> HIDE DEF X, Y
<1>9. PICK n \in Nat : n <= Cardinality(Y) /\ (usage[c] - n) % UsageMod = 0
  <2>1. CASE Hits(c, Cardinality(On(c, {})), Cardinality(On(c, {} \cup K)))
    <3>1. PICK n \in (Cardinality(On(c, {})) + 1)..Cardinality(On(c, {} \cup K)) :
             (usage[c] - n) % UsageMod = 0
      BY <2>1 DEF Hits
    <3>2. n \in Nat /\ n <= Cardinality(Y)
      BY <1>2, <1>4, <3>1
    <3>3. QED
      BY <3>1, <3>2
  <2>2. CASE Hits(c, Cardinality(On(c, K)), Cardinality(Y))
    <3>1. PICK n \in (Cardinality(On(c, K)) + 1)..Cardinality(Y) : (usage[c] - n) % UsageMod = 0
      BY <2>2 DEF Hits
    <3>2. n \in Nat /\ n <= Cardinality(Y)
      BY <1>2, <3>1
    <3>3. QED
      BY <3>1, <3>2
  <2>3. QED
    BY <1>8, <2>1, <2>2
<1>10. usage[c] - n \in Nat /\ usage[c] - n < UsageMod
  BY <1>2, <1>4, <1>5, <1>7, <1>9, BoundAssumption
<1>11. usage[c] - n = 0
  BY <1>9, <1>10, ModSmall
<1>12. Cardinality(X) = Cardinality(Y)
  BY <1>2, <1>4, <1>7, <1>9, <1>11
<1>13. X = Y
  BY <1>2, <1>3, <1>12, FS_Subset
<1>14. QED
  BY <1>6, <1>13 DEF X, Y

\* What a termination in a step says of the state after it.
TerminationOK ==
  \A c \in ContractId : Term(c) \in net' \ net =>
     /\ c # smContract
     /\ \A r \in Ref : list'[r] = "active" => lease'[r].contract # c

LEMMA RemoveTerminates ==
  ASSUME Cardinality(Ref) < UsageMod, TypeOK, UsageInv,
         NEW K \in SUBSET Active, NEW N \in SUBSET Active, NEW F \in SUBSET Ref,
         F \cap Active = {}, RemoveLeases(K, N, F)
  PROVE  TerminationOK
<1> SUFFICES ASSUME NEW c \in ContractId, Term(c) \in net', Term(c) \notin net
             PROVE  /\ c # smContract
                    /\ \A r \in Ref : list'[r] = "active" => lease'[r].contract # c
  BY DEF TerminationOK
<1>1. c \in Terminated({}, K) \cup Terminated(K, N)
  <2>1. net' \subseteq net \cup {Term(b) : b \in Terminated({}, K) \cup Terminated(K, N)}
    BY DEF RemoveLeases
  <2>2. QED
    BY <2>1, Messages
<1>2. c # smContract /\ On(c, Active) = On(c, K \cup N)
  BY <1>1, TerminatedUnused
<1>3. On(c, Active)' = {}
  BY <1>2, RemoveActive, SMTT(30)
<1>4. QED
  BY <1>2, <1>3 DEF On, Active, In

LEMMA DropTerminates ==
  ASSUME Cardinality(Ref) < UsageMod, TypeOK, UsageInv, NEW S, NEW N \in SUBSET Active,
         NEW F \in SUBSET Ref, F \cap Active = {}, DropSessions(S, N, F)
  PROVE  TerminationOK
<1> DEFINE K == Active \cap OfSession(S)
           F2 == F \cup ((In("subscriber") \cup In("inProgress")) \cap OfSession(S))
<1>1. K \in SUBSET Active
  OBVIOUS
<1>2. F2 \in SUBSET Ref /\ F2 \cap Active = {}
  BY DEF In, Active
<1>3. RemoveLeases(K, N, F2)
  BY DEF DropSessions
<1> HIDE DEF K, F2
<1>4. QED
  BY <1>1, <1>2, <1>3, RemoveTerminates

LEMMA TerminationStep ==
  ASSUME Cardinality(Ref) < UsageMod, TypeOK, UsageInv, [Next]_vars
  PROVE  TerminationOK
<1> USE DEF clockVars, sessVars, leaseVars, dmoVars, faultVars
<1>1. ASSUME \A c \in ContractId : Term(c) \in net' => Term(c) \in net
      PROVE  TerminationOK
  BY <1>1 DEF TerminationOK
<1>2. {} \in SUBSET Active /\ {} \in SUBSET Ref /\ {} \cap Active = {}
  OBVIOUS
<1>3. ASSUME NEW s \in SessionId, DeleteSession(s)
      PROVE  TerminationOK
  BY <1>2, <1>3, DropTerminates DEF DeleteSession
<1>4. ASSUME NEW k \in Conn, CloseConnection(k)
      PROVE  TerminationOK
  BY <1>2, <1>4, DropTerminates DEF CloseConnection
<1>5. ASSUME NEW r \in Ref, DeleteLease(r)
      PROVE  TerminationOK
  <2>1. /\ {r} \cap Active \in SUBSET Active
        /\ {r} \ Active \in SUBSET Ref /\ ({r} \ Active) \cap Active = {}
    OBVIOUS
  <2>2. RemoveLeases({r} \cap Active, {}, {r} \ Active)
    BY <1>5 DEF DeleteLease
  <2>3. QED
    BY <1>2, <2>1, <2>2, RemoveTerminates
<1>6. CASE OneSecondTasks
  <2> DEFINE S == ExpiredSessions
             rest == Ref \ OfSession(S)
             N == {r \in Active \cap rest : ExpiredLease(r)}
             F == {r \in In("subscriber") \cap rest : ExpiredLease(r)}
                    \cup {r \in In("inProgress") \cap rest : StaleRequest(r)}
  <2>1. N \in SUBSET Active
    OBVIOUS
  <2>2. F \in SUBSET Ref /\ F \cap Active = {}
    BY DEF In, Active
  <2>3. DropSessions(S, N, F)
    BY <1>6 DEF OneSecondTasks
  <2> HIDE DEF S, N, F
  <2>4. QED
    BY <2>1, <2>2, <2>3, DropTerminates
<1>7. ASSUME NEW d, RequestContract(d)
      PROVE  TerminationOK
  BY <1>1, <1>7, Messages DEF RequestContract
<1>8. ASSUME net' \subseteq net
      PROVE  TerminationOK
  BY <1>1, <1>8
<1>9. ASSUME NEW d, NEW c, SMAnswer(d, c)
      PROVE  TerminationOK
  BY <1>1, <1>9, Messages DEF SMAnswer
<1>10. ASSUME NEW c, SMTerminate(c) \/ SMRevoke(c)
       PROVE  TerminationOK
  BY <1>1, <1>10, Messages DEF SMTerminate, SMRevoke
<1>11. ASSUME NEW d, KeyAdded(d)
       PROVE  TerminationOK
  BY <1>1, <1>11, Messages DEF KeyAdded
<1>12. CASE Stack /\ ~OneSecondTasks
  <2>1. ASSUME NEW d \in Dst, NEW c \in ContractId \cup {0}, ContractResponse(d, c)
        PROVE  TerminationOK
    BY <1>8, <2>1 DEF ContractResponse
  <2>2. ASSUME NEW c \in ContractId, DeleteContract(c)
        PROVE  TerminationOK
    BY <1>8, <2>2 DEF DeleteContract
  <2>3. CASE MaintainSMContract
    BY <1>7, <1>8, <2>3 DEF MaintainSMContract
  <2>4. ASSUME NEW d \in Dst, RequestTimeout(d)
        PROVE  TerminationOK
    BY <1>8, <2>4 DEF RequestTimeout
  <2>5. ASSUME NEW c \in ContractId, NEW d \in Dst, SetContract(c, d)
        PROVE  TerminationOK
    BY <1>8, <2>5 DEF SetContract
  <2>6. CASE Join
    BY <1>8, <2>6 DEF Join
  <2>7. QED
    BY <1>11, <1>12, <2>1, <2>2, <2>3, <2>4, <2>5, <2>6 DEF Stack
<1>13. CASE Environment
  BY <1>8, <1>9, <1>10, <1>13 DEF Environment, Tick, Lose, StackReset
<1>14. CASE HostRequest
  <2>1. CASE net' = net
    BY <1>8, <2>1
  <2>2. CASE net' # net
    BY <1>3, <1>4, <1>5, <1>7, <1>14, <2>2 DEF HostRequest, CreateSession, RenewSession, CutLeases,
       CreatePlainLease, ReuseContract, AskContract, RenewLease
  <2>3. QED
    BY <2>1, <2>2
<1>15. CASE UNCHANGED vars
  BY <1>8, <1>15 DEF vars
<1>16. QED
  BY <1>6, <1>12, <1>13, <1>14, <1>15 DEF Next

\* With fewer lease objects than m_nUsageCount has values, the termination of a
\* contract is requested only when no active lease is left on it, and never for
\* the gateway's own contract to the System Manager.
THEOREM OnlyUnusedTerminated ==
  ASSUME Cardinality(Ref) < UsageMod
  PROVE  Spec => TerminateOnlyUnused
<1>1. TypeOK /\ ContractInv /\ UsageInv /\ [Next]_vars => [TerminationOK]_vars
  BY TerminationStep
<1>2. Spec => [][TerminationOK]_vars
  BY <1>1, InvariantsHold, PTL DEF Spec
<1>3. QED
  BY <1>2 DEF TerminateOnlyUnused, TerminationOK

-----------------------------------------------------------------------------
(* Leases pending delete.                                                  *)

\* A termination that is asked for is sent: the gateway is joined until the first
\* reset.
PendingInv == PendingDeleteAwaited /\ (joined \/ resets # 0)

\* A step that keeps the contracts and the messages that end them, and moves no
\* lease to the list, keeps the invariant.
LEMMA PendingKept ==
  ASSUME PendingInv, UNCHANGED <<losses, resets, joined>>, Table \subseteq Table',
         \A c \in ContractId : Term(c) \in net => Term(c) \in net' \/ Del(c) \in net',
         \A c \in ContractId : Del(c) \in net => Del(c) \in net',
         \A r \in Ref : list'[r] = "pendingDelete" =>
            list[r] = "pendingDelete" /\ lease'[r].contract = lease[r].contract
  PROVE  PendingInv'
<1>1. ASSUME losses = 0, resets = 0, NEW r \in Ref, list'[r] = "pendingDelete"
      PROVE  LET c == lease'[r].contract IN c \in Table' /\ (Term(c) \in net' \/ Del(c) \in net')
  <2> DEFINE c == lease[r].contract
  <2>1. list[r] = "pendingDelete" /\ lease'[r].contract = c
    BY <1>1
  <2>2. c \in Table /\ (Term(c) \in net \/ Del(c) \in net)
    BY <1>1, <2>1 DEF PendingInv, PendingDeleteAwaited, In
  <2>3. c \in ContractId
    BY <2>2 DEF Table
  <2> HIDE DEF c
  <2>4. QED
    BY <2>1, <2>2, <2>3
<1>2. PendingDeleteAwaited'
  BY <1>1 DEF PendingDeleteAwaited, In
<1>3. QED
  BY <1>2 DEF PendingInv

\* Removing leases keeps it: a lease is put on the list by the request that its
\* contract be terminated.
LEMMA RemoveKeepsPending ==
  ASSUME TypeOK, PendingInv, UNCHANGED <<losses, resets>>,
         NEW K \in SUBSET Active, NEW N, NEW F, RemoveLeases(K, N, F), K \cap (N \cup F) = {}
  PROVE  PendingInv'
<1>1. PICK P \in SUBSET K :
         /\ \A r \in P : lease[r].contract \in Terminated({}, K)
         /\ list' = Relist(P, (K \ P) \cup N \cup F)
         /\ lease' = Cells((K \ P) \cup N \cup F)
         /\ net' = net \cup (IF joined THEN {Term(c) : c \in Terminated({}, K) \cup Terminated(K, N)} ELSE {})
         /\ UNCHANGED <<dstOf, joined>>
  BY DEF RemoveLeases
<1>2. Table' = Table
  BY <1>1 DEF Table
<1>3. ASSUME NEW r \in Ref, list'[r] = "pendingDelete"
      PROVE  r \in P \/ list[r] = "pendingDelete"
  BY <1>1, <1>3 DEF Relist
<1>4. ASSUME NEW r \in Ref, list'[r] = "pendingDelete" PROVE lease'[r] = lease[r]
  <2>1. r \notin (K \ P) \cup N \cup F
    BY <1>1, <1>4 DEF Relist
  <2>2. QED
    BY <1>1, <2>1 DEF Cells
<1>5. ASSUME losses = 0, resets = 0, NEW r \in Ref, list'[r] = "pendingDelete"
      PROVE  LET c == lease'[r].contract IN c \in Table' /\ (Term(c) \in net' \/ Del(c) \in net')
  <2> DEFINE c == lease[r].contract
  <2>1. lease'[r].contract = c
    BY <1>4, <1>5
  <2>2. CASE r \in P
    <3>1. c \in Terminated({}, K)
      BY <1>1, <2>2
    <3>2. c \in Table
      BY <3>1 DEF Terminated
    <3>3. joined
      BY <1>5 DEF PendingInv
    <3>4. Term(c) \in net'
      BY <1>1, <3>1, <3>3
    <3> HIDE DEF c
    <3>5. QED
      BY <1>2, <2>1, <3>2, <3>4
  <2>3. CASE list[r] = "pendingDelete"
    <3>1. c \in Table /\ (Term(c) \in net \/ Del(c) \in net)
      BY <1>5, <2>3 DEF PendingInv, PendingDeleteAwaited, In
    <3>2. net \subseteq net'
      BY <1>1
    <3> HIDE DEF c
    <3>3. QED
      BY <1>2, <2>1, <3>1, <3>2
  <2>4. QED
    BY <1>3, <1>5, <2>2, <2>3
<1>6. PendingDeleteAwaited'
  BY <1>5 DEF PendingDeleteAwaited, In
<1>7. QED
  BY <1>1, <1>6 DEF PendingInv

LEMMA DropKeepsPending ==
  ASSUME TypeOK, PendingInv, UNCHANGED <<losses, resets>>, NEW S, NEW N, NEW F,
         N \cap OfSession(S) = {}, F \cap Active = {}, DropSessions(S, N, F)
  PROVE  PendingInv'
<1> DEFINE K == Active \cap OfSession(S)
           F2 == F \cup ((In("subscriber") \cup In("inProgress")) \cap OfSession(S))
<1>1. K \in SUBSET Active /\ K \cap N = {}
  OBVIOUS
<1>2. K \cap F2 = {}
  BY DEF In, Active
<1>3. RemoveLeases(K, N, F2)
  BY DEF DropSessions
<1> HIDE DEF K, F2
<1>4. QED
  BY <1>1, <1>2, <1>3, RemoveKeepsPending

\* Adding a contract moves no lease to the list and changes none that is on it.
LEMMA AddKeepsPending ==
  ASSUME TypeOK, PendingInv, UNCHANGED <<losses, resets, joined>>,
         NEW c \in ContractId, NEW d \in Dst, AddContract(c, d),
         \A b \in ContractId : /\ Term(b) \in net => Term(b) \in net'
                               /\ Del(b) \in net => Del(b) \in net'
  PROVE  PendingInv'
<1>1. dstOf' = [dstOf EXCEPT ![c] = d] /\ d # NoDst
  BY DstAssumption DEF AddContract
<1>2. Table \subseteq Table'
  BY <1>1 DEF Table, TypeOK
<1>3. ASSUME NEW r \in Ref, list'[r] = "pendingDelete"
      PROVE  list[r] = "pendingDelete" /\ lease'[r].contract = lease[r].contract
  <2>1. r \notin Clients(d)
    BY <1>3 DEF AddContract
  <2>2. QED
    BY <1>3, <2>1 DEF AddContract
<1>4. QED
  BY <1>2, <1>3, PendingKept

\* One step keeps the invariant, by action.
LEMMA PendingStep ==
  ASSUME TypeOK, PendingInv, [Next]_vars
  PROVE  PendingInv'
<1> USE DEF clockVars, sessVars, leaseVars, dmoVars, faultVars
<1>1. ASSUME UNCHANGED <<losses, resets, joined, dstOf, list, lease>>,
             \A c \in ContractId : Term(c) \in net => Term(c) \in net' \/ Del(c) \in net',
             \A c \in ContractId : Del(c) \in net => Del(c) \in net'
      PROVE  PendingInv'
  <2>1. Table \subseteq Table'
    BY <1>1 DEF Table
  <2>2. QED
    BY <1>1, <2>1, PendingKept
<1>2. ASSUME NEW d, RequestContract(d) PROVE net \subseteq net'
  BY <1>2 DEF RequestContract
<1>3. ASSUME NEW s \in SessionId, NEW p \in Periods, RenewSession(s, p)
      PROVE  PendingInv'
  <2>1. ASSUME NEW r \in Ref, list'[r] = "pendingDelete"
        PROVE  list[r] = "pendingDelete" /\ lease'[r].contract = lease[r].contract
    <3>1. list[r] = "pendingDelete" /\ lease[r] \in Lease
      BY <1>3, <2>1, LeaseFields DEF RenewSession
    <3>2. lease'[r] \in {lease[r], [lease[r] EXCEPT !.exp = now + p]}
      BY <1>3 DEF RenewSession, CutLeases
    <3>3. QED
      BY <3>1, <3>2 DEF Lease
  <2>2. UNCHANGED <<losses, resets, joined, net>> /\ Table \subseteq Table'
    BY <1>3 DEF RenewSession, Table
  <2>3. QED
    BY <2>1, <2>2, PendingKept
<1>4. ASSUME NEW S, NEW N, NEW F, DropSessions(S, N, F), UNCHANGED <<losses, resets>>,
             N \cap OfSession(S) = {}, F \cap Active = {}
      PROVE  PendingInv'
  BY <1>4, DropKeepsPending
<1>5. ASSUME NEW s \in SessionId, DeleteSession(s)
      PROVE  PendingInv'
  BY <1>4, <1>5 DEF DeleteSession
<1>6. ASSUME NEW k \in Conn, CloseConnection(k)
      PROVE  PendingInv'
  BY <1>4, <1>6 DEF CloseConnection
<1>7. ASSUME NEW r \in Ref, NEW l \in {"active", "subscriber", "inProgress"}, NEW v,
             Put(r, l, v), UNCHANGED <<losses, resets, joined, dstOf>>, net \subseteq net'
      PROVE  PendingInv'
  <2>1. ASSUME NEW x \in Ref, list'[x] = "pendingDelete"
        PROVE  list[x] = "pendingDelete" /\ lease'[x].contract = lease[x].contract
    <3>1. x # r
      BY <1>7, <2>1 DEF Put, TypeOK
    <3>2. QED
      BY <1>7, <2>1, <3>1 DEF Put, TypeOK
  <2>2. Table \subseteq Table'
    BY <1>7 DEF Table
  <2>3. QED
    BY <1>7, <2>1, <2>2, PendingKept
<1>8. ASSUME NEW r \in Ref, NEW s \in SessionId, NEW kd \in {"SERVER", "SUBSCRIBER"},
             NEW d \in Dst, NEW t \in Tsap, NEW p \in Periods \cup {0},
             CreatePlainLease(r, s, kd, d, t, p)
      PROVE  PendingInv'
  BY <1>7, <1>8 DEF CreatePlainLease
<1>9. ASSUME NEW r \in Ref, NEW s \in SessionId, NEW d \in Dst, NEW t \in Tsap,
             NEW p \in Periods \cup {0}, NEW c \in ContractId, ReuseContract(r, s, d, t, p, c)
      PROVE  PendingInv'
  BY <1>7, <1>9 DEF ReuseContract
<1>10. ASSUME NEW r \in Ref, NEW s \in SessionId, NEW d \in Dst, NEW t \in Tsap,
              NEW p \in Periods \cup {0}, AskContract(r, s, d, t, p)
       PROVE  PendingInv'
  BY <1>2, <1>7, <1>10 DEF AskContract
<1>11. ASSUME NEW r \in Ref, DeleteLease(r)
       PROVE  PendingInv'
  <2>1. /\ {r} \cap Active \in SUBSET Active
        /\ ({r} \cap Active) \cap ({} \cup ({r} \ Active)) = {}
    OBVIOUS
  <2>2. RemoveLeases({r} \cap Active, {}, {r} \ Active) /\ UNCHANGED <<losses, resets>>
    BY <1>11 DEF DeleteLease
  <2>3. QED
    BY <2>1, <2>2, RemoveKeepsPending
<1>12. ASSUME NEW r \in Ref, NEW p \in Periods, RenewLease(r, p)
       PROVE  PendingInv'
  <2>1. lease[r] \in Lease
    BY <1>12, LeaseFields DEF RenewLease
  <2>2. PICK x : lease' = [lease EXCEPT ![r].exp = x]
    BY <1>12 DEF RenewLease
  <2>3. \A y \in Ref : lease'[y] = lease[y] \/ (y = r /\ lease'[y] = [lease[r] EXCEPT !.exp = x])
    BY <2>2 DEF TypeOK
  <2>4. \A y \in Ref : lease'[y].contract = lease[y].contract
    BY <2>1, <2>3 DEF Lease
  <2>5. UNCHANGED <<losses, resets, joined, net, list>> /\ Table \subseteq Table'
    BY <1>12 DEF RenewLease, Table
  <2>6. QED
    BY <2>4, <2>5, PendingKept
<1>13. ASSUME NEW d \in Dst, KeyAdded(d) \/ RequestTimeout(d)
       PROVE  PendingInv'
  BY <1>1, <1>13 DEF KeyAdded, RequestTimeout
<1>14. ASSUME NEW d \in Dst, NEW c \in ContractId \cup {0}, ContractResponse(d, c)
       PROVE  PendingInv'
  <2>1. \A b : /\ Term(b) \in net => Term(b) \in net'
               /\ Del(b) \in net => Del(b) \in net'
    BY <1>14, Messages DEF ContractResponse
  <2>2. CASE pend[d] # "idle" /\ c # 0 /\ ~TableFull
    <3>1. c \in ContractId /\ AddContract(c, d) /\ UNCHANGED <<losses, resets, joined>>
      BY <1>14, <2>2 DEF ContractResponse
    <3>2. QED
      BY <2>1, <3>1, AddKeepsPending
  <2>3. CASE ~(pend[d] # "idle" /\ c # 0 /\ ~TableFull)
    BY <1>1, <1>14, <2>1, <2>3 DEF ContractResponse
  <2>4. QED
    BY <2>2, <2>3
<1>15. ASSUME NEW c \in ContractId, NEW d \in Dst, SetContract(c, d)
       PROVE  PendingInv'
  BY <1>15, AddKeepsPending DEF SetContract
<1>16. ASSUME NEW c \in ContractId, DeleteContract(c)
       PROVE  PendingInv'
  <2>1. /\ \A b : Term(b) \in net => Term(b) \in net'
        /\ \A b : b # c /\ Del(b) \in net => Del(b) \in net'
    BY <1>16, Messages DEF DeleteContract
  <2>2. UNCHANGED <<losses, resets, joined>>
    BY <1>16 DEF DeleteContract
  <2>3. \A b \in Table : b # c => b \in Table'
    BY <1>16 DEF DeleteContract, Table, TypeOK
  <2>4. ASSUME losses = 0, resets = 0, NEW r \in Ref, list'[r] = "pendingDelete"
        PROVE  /\ list[r] = "pendingDelete" /\ lease'[r] = lease[r]
               /\ lease[r].contract \in Table /\ lease[r].contract # c
    <3>1. lease[r].contract \in Table
      <4>1. list[r] = "pendingDelete"
        BY <1>16, <2>4, EraseRest DEF DeleteContract
      <4>2. QED
        BY <2>4, <4>1 DEF PendingInv, PendingDeleteAwaited, In
    <3>2. CASE c \in Table
      <4>1. list' = Relist({}, LeasesOn(c)) /\ lease' = Cells(LeasesOn(c))
        BY <1>16, <3>2 DEF DeleteContract
      <4>2. r \notin LeasesOn(c) /\ list[r] = "pendingDelete" /\ lease'[r] = lease[r]
        BY <2>4, <4>1, EraseRest
      <4>3. lease[r].contract # c
        BY <4>2 DEF LeasesOn, On, In
      <4>4. QED
        BY <3>1, <4>2, <4>3
    <3>3. CASE c \notin Table
      <4>1. list[r] = "pendingDelete" /\ lease'[r] = lease[r]
        BY <1>16, <2>4, <3>3 DEF DeleteContract
      <4>2. QED
        BY <3>1, <3>3, <4>1
    <3>4. QED
      BY <3>2, <3>3
  <2>5. ASSUME losses = 0, resets = 0, NEW r \in Ref, list'[r] = "pendingDelete"
        PROVE  LET b == lease'[r].contract IN b \in Table' /\ (Term(b) \in net' \/ Del(b) \in net')
    <3> DEFINE b == lease[r].contract
    <3>1. list[r] = "pendingDelete" /\ lease'[r].contract = b /\ b \in Table /\ b # c
      BY <2>4, <2>5
    <3>2. Term(b) \in net \/ Del(b) \in net
      BY <2>5, <3>1 DEF PendingInv, PendingDeleteAwaited, In
    <3> HIDE DEF b
    <3>3. QED
      BY <2>1, <2>3, <3>1, <3>2
  <2>6. PendingDeleteAwaited'
    BY <2>2, <2>5 DEF PendingDeleteAwaited, In
  <2>7. QED
    BY <2>2, <2>6 DEF PendingInv
<1>17. CASE MaintainSMContract
  <2>1. ASSUME SMDst \in Dst, NEW c \in GetContract(SMDst), AddContract(c, SMDst),
               UNCHANGED <<joined, net, losses, resets>>
        PROVE  PendingInv'
    <3>1. c \in ContractId
      BY DEF GetContract, Table
    <3>2. QED
      BY <2>1, <3>1, AddKeepsPending
  <2>2. QED
    BY <1>1, <1>2, <1>17, <2>1 DEF MaintainSMContract
<1>18. CASE OneSecondTasks
  <2> DEFINE S == ExpiredSessions
             rest == Ref \ OfSession(S)
             N == {r \in Active \cap rest : ExpiredLease(r)}
             F == {r \in In("subscriber") \cap rest : ExpiredLease(r)}
                    \cup {r \in In("inProgress") \cap rest : StaleRequest(r)}
  <2>1. N \cap OfSession(S) = {}
    OBVIOUS
  <2>2. F \cap Active = {}
    BY DEF In, Active
  <2>3. DropSessions(S, N, F) /\ UNCHANGED <<losses, resets>>
    BY <1>18 DEF OneSecondTasks
  <2> HIDE DEF S, N, F
  <2>4. QED
    BY <2>1, <2>2, <2>3, <1>4
<1>19. CASE StackReset
  <2>1. resets' = resets + 1 /\ resets \in Nat
    BY <1>19 DEF StackReset, TypeOK
  <2>2. resets' # 0
    BY <2>1
  <2>3. QED
    BY <2>2 DEF PendingInv, PendingDeleteAwaited
<1>20. CASE Join
  <2>1. UNCHANGED <<losses, resets, dstOf, list, lease, net>> /\ joined'
    BY <1>20 DEF Join
  <2>2. PendingDeleteAwaited'
    BY <2>1 DEF PendingInv, PendingDeleteAwaited, In, Table
  <2>3. QED
    BY <2>1, <2>2 DEF PendingInv
<1>21. CASE Tick \/ UNCHANGED vars
  BY <1>1, <1>21 DEF Tick, vars
<1>22. ASSUME NEW d \in Dst, NEW c \in ContractId \cup {0}, SMAnswer(d, c)
       PROVE  PendingInv'
  BY <1>1, <1>22, Messages DEF SMAnswer
<1>23. ASSUME NEW c \in ContractId, SMTerminate(c)
       PROVE  PendingInv'
  <2>1. /\ \A b \in ContractId : Term(b) \in net => Term(b) \in net' \/ Del(b) \in net'
        /\ \A b \in ContractId : Del(b) \in net => Del(b) \in net'
    BY <1>23, Messages DEF SMTerminate
  <2>2. QED
    BY <1>1, <1>23, <2>1 DEF SMTerminate
<1>24. ASSUME NEW c \in ContractId, SMRevoke(c)
       PROVE  PendingInv'
  BY <1>1, <1>24 DEF SMRevoke
<1>25. ASSUME NEW m \in net, Lose(m)
       PROVE  PendingInv'
  <2>1. losses' = losses + 1 /\ losses \in Nat /\ UNCHANGED <<joined, resets>>
    BY <1>25 DEF Lose, TypeOK
  <2>2. losses' # 0
    BY <2>1
  <2>3. QED
    BY <2>1, <2>2 DEF PendingInv, PendingDeleteAwaited
<1>26. CASE \E k \in Conn, p \in Periods \cup {0} : CreateSession(k, p)
  BY <1>1, <1>26 DEF CreateSession
<1>27. QED
  BY <1>3, <1>5, <1>6, <1>8, <1>9, <1>10, <1>11, <1>12, <1>13, <1>14, <1>15, <1>16, <1>17,
     <1>18, <1>19, <1>20, <1>21, <1>22, <1>23, <1>24, <1>25, <1>26
  DEF Next, HostRequest, Stack, Environment

\* As long as no message is lost and the stack is not reset, a lease pending delete
\* waits for a contract that exists and whose termination or deletion is on its
\* way: no order of terminations, revocations, session ends and new contracts
\* leaves one that nothing will free.
THEOREM PendingDeletesAwaited == Spec => []PendingDeleteAwaited
<1>1. Init => PendingInv
  BY DEF Init, PendingInv, PendingDeleteAwaited, In
<1>2. TypeOK /\ PendingInv /\ [Next]_vars => PendingInv'
  BY PendingStep
<1>3. PendingInv => PendingDeleteAwaited
  BY DEF PendingInv
<1>4. QED
  BY <1>1, <1>2, <1>3, LeasesTypeCorrect, PTL DEF Spec
=============================================================================
