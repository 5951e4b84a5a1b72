--------------------------- MODULE GwLeases_proofs ---------------------------
(***************************************************************************)
(* Proofs about GwLeases, for every set of connections, leases and         *)
(* destinations and every bound.                                           *)
(***************************************************************************)
EXTENDS GwLeases, FiniteSetTheorems, TLAPS

-----------------------------------------------------------------------------
(* Arithmetic of the uint8 usage count.                                    *)

LEMMA ModRange ==
  ASSUME NEW x \in Int
  PROVE  x % UsageMod \in 0..(UsageMod - 1)
BY BoundAssumption

LEMMA ModSmall ==
  ASSUME NEW x \in Nat, x < UsageMod
  PROVE  x % UsageMod = x
BY BoundAssumption

-----------------------------------------------------------------------------
(* Types.                                                                  *)

\* Every lease in a list is a lease record; every free cell is empty.
LEMMA LeaseFields ==
  ASSUME TypeOK, NEW r \in Ref
  PROVE  /\ list[r] \in Lists
         /\ list[r] # "free" => lease[r] \in Lease
         /\ list[r] = "free" <=> lease[r] = NoLease
BY DEF TypeOK

\* Moving the leases P and erasing the leases G keeps lists and cells together.
LEMMA RelistType ==
  ASSUME TypeOK, NEW P \in SUBSET Ref, NEW G \in SUBSET Ref, P \cap G = {},
         \A r \in P : list[r] # "free"
  PROVE  /\ Relist(P, G) \in [Ref -> Lists]
         /\ Cells(G) \in [Ref -> Lease \cup {NoLease}]
         /\ \A r \in Ref : Relist(P, G)[r] = "free" <=> Cells(G)[r] = NoLease
<1>1. Relist(P, G) \in [Ref -> Lists]
  BY DEF Relist, TypeOK, Lists
<1>2. Cells(G) \in [Ref -> Lease \cup {NoLease}]
  BY DEF Cells, TypeOK
<1>3. ASSUME NEW r \in Ref PROVE Relist(P, G)[r] = "free" <=> Cells(G)[r] = NoLease
  BY DEF Cells, TypeOK, Relist
<1>4. QED
  BY <1>1, <1>2, <1>3

\* So does erasing alone.
LEMMA EraseType ==
  ASSUME TypeOK, NEW G \in SUBSET Ref
  PROVE  /\ Relist({}, G) \in [Ref -> Lists]
         /\ Cells(G) \in [Ref -> Lease \cup {NoLease}]
         /\ \A r \in Ref : Relist({}, G)[r] = "free" <=> Cells(G)[r] = NoLease
<1>1. {} \in SUBSET Ref /\ {} \cap G = {} /\ \A r \in {} : list[r] # "free"
  OBVIOUS
<1>2. QED
  BY <1>1, RelistType

\* A record of the type Lease is not an empty cell.
LEMMA LeaseNotEmpty ==
  ASSUME NEW v \in Lease
  PROVE  v # NoLease
BY KindAssumption DEF Lease, NoLease

\* RemoveLeases keeps the types of what it changes.
LEMMA RemoveType ==
  ASSUME TypeOK, NEW K \in SUBSET Active, NEW N \in SUBSET (Active \ K),
         NEW F \in SUBSET Ref, F \cap Active = {}, RemoveLeases(K, N, F)
  PROVE  /\ list' \in [Ref -> Lists]
         /\ lease' \in [Ref -> Lease \cup {NoLease}]
         /\ \A r \in Ref : list'[r] = "free" <=> lease'[r] = NoLease
         /\ usage' \in [ContractId -> 0..(UsageMod - 1)]
         /\ net' \subseteq Message
         /\ UNCHANGED <<dstOf, pend, smContract, joined>>
<1>1. K \subseteq Ref /\ N \subseteq Ref /\ \A r \in K : list[r] # "free"
  BY DEF Active, In
<1>2. PICK P \in SUBSET K :
         /\ list' = Relist(P, (K \ P) \cup N \cup F)
         /\ lease' = Cells((K \ P) \cup N \cup F)
         /\ usage' = UsageAfter(K, N)
         /\ net' = net \cup (IF joined THEN {Term(c) : c \in Terminated({}, K) \cup Terminated(K, N)} ELSE {})
         /\ UNCHANGED <<dstOf, pend, smContract, joined>>
  BY DEF RemoveLeases
<1>3. P \in SUBSET Ref /\ ((K \ P) \cup N \cup F) \in SUBSET Ref
      /\ P \cap ((K \ P) \cup N \cup F) = {}
  BY <1>1
<1>4. /\ list' \in [Ref -> Lists]
      /\ lease' \in [Ref -> Lease \cup {NoLease}]
      /\ \A r \in Ref : list'[r] = "free" <=> lease'[r] = NoLease
  BY <1>1, <1>2, <1>3, RelistType
<1>5. usage' \in [ContractId -> 0..(UsageMod - 1)]
  <2>1. ASSUME NEW c \in ContractId PROVE usage'[c] \in 0..(UsageMod - 1)
    <3>1. IsFiniteSet(On(c, K \cup N))
      <4>1. On(c, K \cup N) \subseteq Ref
        BY <1>1 DEF On
      <4>2. QED
        BY <4>1, RefAssumption, FS_Subset
    <3>2. Cardinality(On(c, K \cup N)) \in Int
      BY <3>1, FS_CardinalityType
    <3>3. usage[c] \in Int
      BY DEF TypeOK
    <3>4. (usage[c] - Cardinality(On(c, K \cup N))) % UsageMod \in 0..(UsageMod - 1)
      BY <3>2, <3>3, ModRange
    <3>5. QED
      BY <1>2, <3>4 DEF UsageAfter, TypeOK
  <2>2. QED
    BY <1>2, <2>1 DEF UsageAfter
<1>6. net' \subseteq Message
  <2>1. \A c \in Terminated({}, K) \cup Terminated(K, N) : c \in ContractId
    BY DEF Terminated, Table
  <2>2. \A c \in ContractId : Term(c) \in Message
    BY DEF Message
  <2>3. QED
    BY <1>2, <2>1, <2>2 DEF TypeOK
<1>7. QED
  BY <1>2, <1>4, <1>5, <1>6

\* So does deleting the sessions S with everything that goes with them.
LEMMA DropType ==
  ASSUME TypeOK, NEW S, NEW N \in SUBSET Active, NEW F \in SUBSET Ref,
         N \cap OfSession(S) = {}, F \cap Active = {}, DropSessions(S, N, F)
  PROVE  /\ list' \in [Ref -> Lists]
         /\ lease' \in [Ref -> Lease \cup {NoLease}]
         /\ \A r \in Ref : list'[r] = "free" <=> lease'[r] = NoLease
         /\ usage' \in [ContractId -> 0..(UsageMod - 1)]
         /\ net' \subseteq Message
         /\ live' \subseteq SessionId /\ sessExp' \in [SessionId -> Time]
         /\ UNCHANGED <<dstOf, pend, smContract, joined>>
<1> DEFINE K == Active \cap OfSession(S)
           F2 == F \cup ((In("subscriber") \cup In("inProgress")) \cap OfSession(S))
<1>1. K \in SUBSET Active /\ N \in SUBSET (Active \ K)
  OBVIOUS
<1>2. F2 \in SUBSET Ref /\ F2 \cap Active = {}
  BY DEF In, Active
<1>3. RemoveLeases(K, N, F2)
  BY DEF DropSessions
<1>4. live' \subseteq SessionId /\ sessExp' \in [SessionId -> Time]
  BY DEF DropSessions, TypeOK, Time
<1> HIDE DEF K, F2
<1>5. QED
  BY <1>1, <1>2, <1>3, <1>4, RemoveType

\* AddContract keeps the types of what it changes.
LEMMA AddType ==
  ASSUME TypeOK, NEW c \in ContractId, NEW d \in Dst, AddContract(c, d)
  PROVE  /\ list' \in [Ref -> Lists]
         /\ lease' \in [Ref -> Lease \cup {NoLease}]
         /\ \A r \in Ref : list'[r] = "free" <=> lease'[r] = NoLease
         /\ dstOf' \in [ContractId -> Dst \cup {NoDst}]
         /\ usage' \in [ContractId -> 0..(UsageMod - 1)]
         /\ smContract' \in ContractId \cup {0}
<1>1. list' \in [Ref -> Lists]
  BY DEF AddContract, TypeOK, Lists
<1>2. \A r \in Clients(d) : r \in Ref /\ list[r] = "inProgress" /\ lease[r] \in Lease
  BY LeaseFields DEF Clients, In
<1>3. \A r \in Clients(d) : [lease[r] EXCEPT !.contract = c] \in Lease
  BY <1>2 DEF Lease
<1>4. lease' \in [Ref -> Lease \cup {NoLease}]
  BY <1>3 DEF AddContract, TypeOK
<1>5. ASSUME NEW r \in Ref PROVE list'[r] = "free" <=> lease'[r] = NoLease
  <2>1. CASE r \in Clients(d)
    BY <1>3, <2>1, LeaseNotEmpty DEF AddContract
  <2>2. CASE r \notin Clients(d)
    BY <2>2, LeaseFields DEF AddContract
  <2>3. QED
    BY <2>1, <2>2
<1>6. usage' \in [ContractId -> 0..(UsageMod - 1)]
  <2>1. IsFiniteSet(Clients(d))
    BY RefAssumption, FS_Subset, Clients(d) \subseteq Ref DEF Clients, In
  <2>2. Cardinality(Clients(d)) \in Nat
    BY <2>1, FS_CardinalityType
  <2>3. usage[c] + Cardinality(Clients(d)) \in Int
    BY <2>2 DEF TypeOK
  <2>4. (usage[c] + Cardinality(Clients(d))) % UsageMod \in 0..(UsageMod - 1)
    BY <2>3, ModRange
  <2>5. QED
    BY <2>4 DEF AddContract, TypeOK
<1>7. QED
  BY <1>1, <1>4, <1>5, <1>6 DEF AddContract, TypeOK

\* Creating a lease in a free cell keeps lists and cells together.
LEMMA PutType ==
  ASSUME TypeOK, NEW r \in Ref, NEW l \in Lists \ {"free"}, NEW v \in Lease, Put(r, l, v)
  PROVE  /\ list' \in [Ref -> Lists]
         /\ lease' \in [Ref -> Lease \cup {NoLease}]
         /\ \A x \in Ref : list'[x] = "free" <=> lease'[x] = NoLease
<1>1. v # NoLease
  BY LeaseNotEmpty
<1>2. QED
  BY <1>1 DEF Put, TypeOK

\* The lease createLease fills in is a lease record.
LEMMA NewLeaseType ==
  ASSUME TypeOK, NEW s \in SessionId, NEW kd \in Kinds, NEW d \in Dst, NEW t \in Tsap,
         NEW p \in Periods \cup {0}, NEW c \in ContractId \cup {0}
  PROVE  NewLease(s, kd, d, t, p, c) \in Lease
<1>1. now \in Nat /\ sessExp[s] \in Nat /\ p \in Nat
  BY PeriodAssumption, BoundAssumption DEF TypeOK, Time
<1>2. LeaseExpiry(s, p) \in Time
  BY <1>1 DEF LeaseExpiry, Time
<1>3. QED
  BY <1>1, <1>2 DEF NewLease, Lease, Time

\* RequestContract keeps the types of what it changes.
LEMMA RequestType ==
  ASSUME TypeOK, NEW d \in Dst, RequestContract(d)
  PROVE  pend' \in [Dst -> {"idle", "noKey", "waiting"}] /\ net' \subseteq Message
<1>1. Req(d) \in Message
  BY DEF Message
<1>2. QED
  BY <1>1 DEF RequestContract, TypeOK

\* Type correctness of one step, by action.
LEMMA TypeStep ==
  ASSUME TypeOK, [Next]_vars
  PROVE  TypeOK'
<1> USE DEF clockVars, sessVars, leaseVars, dmoVars, faultVars
<1>1. ASSUME NEW k \in Conn, NEW p \in Periods \cup {0}, CreateSession(k, p)
      PROVE  TypeOK'
  <2>1. now \in Nat /\ p \in Nat /\ lastSess \in Nat
    BY PeriodAssumption, BoundAssumption DEF TypeOK
  <2>2. lastSess' \in SessionId
    BY <1>1, <2>1, BoundAssumption DEF CreateSession, SessionId
  <2>3. sessExp' \in [SessionId -> Time] /\ gsap' \in [Conn -> SUBSET SessionId]
    BY <1>1, <2>1, <2>2 DEF CreateSession, TypeOK, Time
  <2>4. QED
    BY <1>1, <2>2, <2>3 DEF CreateSession, TypeOK, SessionId
<1>2. ASSUME NEW s \in SessionId, NEW p \in Periods, RenewSession(s, p)
      PROVE  TypeOK'
  <2>1. now + p \in Time
    BY PeriodAssumption, BoundAssumption DEF TypeOK, Time
  <2>2. ASSUME NEW r \in Ref
        PROVE  /\ lease'[r] \in Lease \cup {NoLease}
               /\ list'[r] = "free" <=> lease'[r] = NoLease
    <3>1. CASE list[r] \in {"active", "subscriber", "inProgress"}
      <4>1. lease[r] \in Lease
        BY <3>1, LeaseFields
      <4>2. [lease[r] EXCEPT !.exp = now + p] \in Lease
        BY <2>1, <4>1 DEF Lease
      <4>3. QED
        BY <1>2, <3>1, <4>1, <4>2, LeaseNotEmpty DEF RenewSession, CutLeases
    <3>2. CASE list[r] \notin {"active", "subscriber", "inProgress"}
      BY <1>2, <3>2, LeaseFields DEF RenewSession, CutLeases, TypeOK
    <3>3. QED
      BY <3>1, <3>2
  <2>3. lease' \in [Ref -> Lease \cup {NoLease}]
    BY <1>2, <2>2 DEF RenewSession, CutLeases
  <2>4. sessExp' \in [SessionId -> Time]
    BY <1>2, <2>1 DEF RenewSession, CutLeases, TypeOK
  <2>5. QED
    BY <1>2, <2>2, <2>3, <2>4 DEF RenewSession, CutLeases, TypeOK
<1>3. ASSUME NEW s \in SessionId, DeleteSession(s)
      PROVE  TypeOK'
  <2>1. /\ {} \in SUBSET Active /\ {} \in SUBSET Ref
        /\ {} \cap OfSession({s}) = {} /\ {} \cap Active = {}
    OBVIOUS
  <2>2. DropSessions({s}, {}, {}) /\ UNCHANGED <<clockVars, lastSess, gsap, faultVars>>
    BY <1>3 DEF DeleteSession
  <2>3. QED
    BY <2>1, <2>2, DropType DEF TypeOK
<1>4. ASSUME NEW k \in Conn, CloseConnection(k)
      PROVE  TypeOK'
  <2>1. gsap' \in [Conn -> SUBSET SessionId]
    BY <1>4 DEF CloseConnection, TypeOK
  <2>2. /\ {} \in SUBSET Active /\ {} \in SUBSET Ref
        /\ {} \cap OfSession(gsap[k] \cap live) = {} /\ {} \cap Active = {}
    OBVIOUS
  <2>3. DropSessions(gsap[k] \cap live, {}, {}) /\ UNCHANGED <<clockVars, lastSess, faultVars>>
    BY <1>4 DEF CloseConnection
  <2>4. QED
    BY <2>1, <2>2, <2>3, DropType DEF TypeOK
<1>5. ASSUME NEW r \in Ref, NEW s \in SessionId, NEW kd \in {"SERVER", "SUBSCRIBER"},
             NEW d \in Dst, NEW t \in Tsap, NEW p \in Periods \cup {0},
             CreatePlainLease(r, s, kd, d, t, p)
      PROVE  TypeOK'
  <2>1. NewLease(s, kd, d, t, p, 0) \in Lease
    BY <1>5, NewLeaseType DEF CreatePlainLease, ValidRequest
  <2>2. QED
    BY <1>5, <2>1, PutType DEF CreatePlainLease, TypeOK, Lists
<1>6. ASSUME NEW r \in Ref, NEW s \in SessionId, NEW d \in Dst, NEW t \in Tsap,
             NEW p \in Periods \cup {0}, NEW c \in ContractId, ReuseContract(r, s, d, t, p, c)
      PROVE  TypeOK'
  <2>1. NewLease(s, "CLIENT", d, t, p, c) \in Lease
    BY <1>6, NewLeaseType DEF ReuseContract, ValidRequest
  <2>2. (usage[c] + 1) % UsageMod \in 0..(UsageMod - 1)
    BY ModRange DEF TypeOK
  <2>3. usage' \in [ContractId -> 0..(UsageMod - 1)]
    BY <1>6, <2>2 DEF ReuseContract, TypeOK
  <2>4. QED
    BY <1>6, <2>1, <2>3, PutType DEF ReuseContract, TypeOK, Lists
<1>7. ASSUME NEW r \in Ref, NEW s \in SessionId, NEW d \in Dst, NEW t \in Tsap,
             NEW p \in Periods \cup {0}, AskContract(r, s, d, t, p)
      PROVE  TypeOK'
  <2>1. NewLease(s, "CLIENT", d, t, p, 0) \in Lease
    BY <1>7, NewLeaseType DEF AskContract, ValidRequest
  <2>2. QED
    BY <1>7, <2>1, PutType, RequestType DEF AskContract, TypeOK, Lists
<1>8. ASSUME NEW r \in Ref, DeleteLease(r)
      PROVE  TypeOK'
  <2>1. /\ {r} \cap Active \in SUBSET Active /\ {} \in SUBSET (Active \ ({r} \cap Active))
        /\ {r} \ Active \in SUBSET Ref /\ ({r} \ Active) \cap Active = {}
    OBVIOUS
  <2>2. RemoveLeases({r} \cap Active, {}, {r} \ Active)
    BY <1>8 DEF DeleteLease
  <2>3. QED
    BY <1>8, <2>1, <2>2, RemoveType DEF DeleteLease, TypeOK
<1>9. ASSUME NEW r \in Ref, NEW p \in Periods, RenewLease(r, p)
      PROVE  TypeOK'
  <2>1. lease[r] \in Lease /\ list[r] # "free"
    BY <1>9, LeaseFields DEF RenewLease
  <2>2. lease[r].born + p \in Time /\ sessExp[lease[r].sess] \in Time
    BY <2>1, PeriodAssumption DEF TypeOK, Lease, Time
  <2>3. PICK x \in Time : lease' = [lease EXCEPT ![r].exp = x]
    BY <1>9, <2>2 DEF RenewLease
  <2>4. [lease[r] EXCEPT !.exp = x] \in Lease
    BY <2>1 DEF Lease
  <2>5. lease' = [lease EXCEPT ![r] = [lease[r] EXCEPT !.exp = x]]
    BY <2>3
  <2>6. QED
    BY <1>9, <2>1, <2>4, <2>5, LeaseNotEmpty DEF RenewLease, TypeOK
<1>10. ASSUME NEW d \in Dst, KeyAdded(d) \/ RequestTimeout(d)
       PROVE  TypeOK'
  <2>1. Req(d) \in Message
    BY DEF Message
  <2>2. QED
    BY <1>10, <2>1 DEF KeyAdded, RequestTimeout, TypeOK
<1>11. ASSUME NEW d \in Dst, NEW c \in ContractId \cup {0}, ContractResponse(d, c)
       PROVE  TypeOK'
  <2>1. pend' \in [Dst -> {"idle", "noKey", "waiting"}] /\ net' \subseteq Message
    BY <1>11 DEF ContractResponse, TypeOK
  <2>2. CASE pend[d] # "idle" /\ c # 0 /\ ~TableFull
    <3>1. c \in ContractId /\ AddContract(c, d)
      BY <1>11, <2>2 DEF ContractResponse
    <3>2. QED
      BY <1>11, <2>1, <3>1, AddType DEF ContractResponse, TypeOK
  <2>3. CASE ~(pend[d] # "idle" /\ c # 0 /\ ~TableFull)
    BY <1>11, <2>1, <2>3 DEF ContractResponse, TypeOK
  <2>4. QED
    BY <2>2, <2>3
<1>12. ASSUME NEW c \in ContractId, NEW d \in Dst, SetContract(c, d)
       PROVE  TypeOK'
  BY <1>12, AddType DEF SetContract, TypeOK
<1>13. ASSUME NEW c \in ContractId, DeleteContract(c)
       PROVE  TypeOK'
  <2>1. CASE c \in Table
    <3>1. LeasesOn(c) \in SUBSET Ref
      BY DEF LeasesOn, On, Active, In
    <3>2. /\ list' \in [Ref -> Lists]
          /\ lease' \in [Ref -> Lease \cup {NoLease}]
          /\ \A r \in Ref : list'[r] = "free" <=> lease'[r] = NoLease
      BY <1>13, <2>1, <3>1, EraseType DEF DeleteContract
    <3>3. QED
      BY <1>13, <2>1, <3>2, BoundAssumption DEF DeleteContract, TypeOK, SMContractWithout
  <2>2. CASE c \notin Table
    BY <1>13, <2>2 DEF DeleteContract, TypeOK
  <2>3. QED
    BY <2>1, <2>2
<1>14. CASE MaintainSMContract
  <2>1. CASE UNCHANGED <<leaseVars, dmoVars, net>>
    BY <1>14, <2>1 DEF MaintainSMContract, TypeOK
  <2>2. CASE SMDst \in Dst /\ RequestContract(SMDst)
             /\ UNCHANGED <<leaseVars, dstOf, usage, smContract, joined>>
    BY <1>14, <2>2, RequestType DEF MaintainSMContract, TypeOK
  <2>3. CASE SMDst \in Dst /\ (\E c \in GetContract(SMDst) : AddContract(c, SMDst))
             /\ UNCHANGED <<pend, joined, net>>
    <3>1. PICK c \in ContractId : AddContract(c, SMDst)
      BY <2>3 DEF GetContract, Table
    <3>2. QED
      BY <1>14, <2>3, <3>1, AddType DEF MaintainSMContract, TypeOK
  <2>4. QED
    BY <1>14, <2>1, <2>2, <2>3 DEF MaintainSMContract
<1>15. CASE OneSecondTasks
  <2> DEFINE S == ExpiredSessions
             rest == Ref \ OfSession(S)
             N == {r \in Active \cap rest : ExpiredLease(r)}
             F == {r \in In("subscriber") \cap rest : ExpiredLease(r)}
                    \cup {r \in In("inProgress") \cap rest : StaleRequest(r)}
  <2>1. N \in SUBSET Active /\ N \cap OfSession(S) = {}
    OBVIOUS
  <2>2. F \in SUBSET Ref /\ F \cap Active = {}
    BY DEF In, Active
  <2>3. DropSessions(S, N, F)
    BY <1>15 DEF OneSecondTasks
  <2> HIDE DEF S, N, F
  <2>4. QED
    BY <1>15, <2>1, <2>2, <2>3, DropType DEF OneSecondTasks, TypeOK
<1>16. CASE Join
  BY <1>16 DEF Join, TypeOK
<1>17. CASE Tick
  BY <1>17, BoundAssumption DEF Tick, TypeOK
<1>18. ASSUME NEW d \in Dst, NEW c \in ContractId \cup {0}, SMAnswer(d, c)
       PROVE  TypeOK'
  <2>1. Rsp(d, c) \in Message
    BY DEF Message
  <2>2. QED
    BY <1>18, <2>1 DEF SMAnswer, TypeOK
<1>19. ASSUME NEW c \in ContractId, SMTerminate(c) \/ SMRevoke(c)
       PROVE  TypeOK'
  <2>1. Del(c) \in Message
    BY DEF Message
  <2>2. QED
    BY <1>19, <2>1 DEF SMTerminate, SMRevoke, TypeOK
<1>20. ASSUME NEW m \in net, Lose(m)
       PROVE  TypeOK'
  BY <1>20, BoundAssumption DEF Lose, TypeOK
<1>21. CASE StackReset
  <2>1. Active \in SUBSET Ref
    BY DEF Active, In
  <2>2. /\ list' \in [Ref -> Lists]
        /\ lease' \in [Ref -> Lease \cup {NoLease}]
        /\ \A r \in Ref : list'[r] = "free" <=> lease'[r] = NoLease
    BY <1>21, <2>1, EraseType DEF StackReset
  <2>3. /\ dstOf' \in [ContractId -> Dst \cup {NoDst}]
        /\ usage' \in [ContractId -> 0..(UsageMod - 1)]
        /\ pend' \in [Dst -> {"idle", "noKey", "waiting"}]
    BY <1>21, BoundAssumption DEF StackReset
  <2>4. resets' \in 0..MaxResets
    BY <1>21, BoundAssumption DEF StackReset, TypeOK
  <2>5. QED
    BY <1>21, <2>2, <2>3, <2>4 DEF StackReset, TypeOK
<1>22. CASE UNCHANGED vars
  BY <1>22 DEF vars, TypeOK
<1>23. QED
  BY <1>1, <1>2, <1>3, <1>4, <1>5, <1>6, <1>7, <1>8, <1>9, <1>10, <1>11, <1>12, <1>13,
     <1>14, <1>15, <1>16, <1>17, <1>18, <1>19, <1>20, <1>21, <1>22
  DEF Next, HostRequest, Stack, Environment

\* Every reachable state is well typed: in particular an erased lease is in no
\* list, a lease in a list is not erased, and the usage counts stay in a byte.
THEOREM LeasesTypeCorrect == Spec => []TypeOK
<1>1. Init => TypeOK
  BY BoundAssumption DEF Init, TypeOK, Lists, Time
<1>2. TypeOK /\ [Next]_vars => TypeOK'
  BY TypeStep
<1>3. QED
  BY <1>1, <1>2, PTL DEF Spec
=============================================================================
