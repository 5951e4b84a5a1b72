------------------------------ MODULE GwLeases ------------------------------
(***************************************************************************)
(* Sessions, leases and contracts of the ISA100 gateway.                   *)
(*                                                                         *)
(* A host opens sessions over a TCP connection (CGSAP, CSessionMgmtService)*)
(* and leases in a session (CLeaseMgmtService).  A client lease needs a    *)
(* contract with its field device: leases to the same device share one,    *)
(* which is requested from the System Manager by the first lease and       *)
(* terminated after the last (m_nUsageCount).  The contract table and the  *)
(* outstanding requests are the DMO's (ISA100/dmap_dmo.cpp), which reports *)
(* every contract added or deleted to the gateway (ContractNotification).  *)
(* The gateway is one thread: an action is one handler of its main loop.   *)
(*                                                                         *)
(* A lease is a heap cell r \in Ref; list[r] is the CLeaseMgmtService list *)
(* that holds it.  A destination is a device address with its TSAP; the    *)
(* source port of every contract is that of the gateway UAP.  The System   *)
(* Manager and the network are external: net is the set of messages in     *)
(* flight, delivered in any order.  The DMO's request table is abstracted  *)
(* to one entry per destination (DmoContracts has it in full).             *)
(***************************************************************************)
EXTENDS Integers, FiniteSets

CONSTANTS Conn,         \* TCP connections of hosts
          Ref,          \* lease objects
          Dst,          \* contract destinations (address, TSAP)
          SMDst,        \* the destination of the gateway's own SM contract
          NoDst,        \* not a destination; SMDst = NoDst leaves that contract out
          Kinds,        \* the kinds of lease hosts ask for
          Tsap,         \* local TSAP ids a lease may name (IsUAPLocalValid)
          ContractId,   \* contract ids; 0 is INVALID_CONTRACTID
          MaxContracts, \* MAX_CONTRACT_NO
          MaxSessions,  \* MAX_SESSIONS
          PendingTimeout, \* PENDING_LEASE_TIMEOUT
          UsageMod,     \* 2^8: m_nUsageCount is a uint8
          Periods,      \* finite session and lease periods, in seconds
          MaxSessionId, \* bound of the model: sessions ever created
          MaxTime,      \* bound of the model: the clock stops here
          MaxResets,    \* bound of the model: stack resets (unjoin)
          MaxLosses     \* bound of the model: messages lost

ASSUME DstAssumption == SMDst \in Dst \cup {NoDst} /\ NoDst \notin Dst
ASSUME KindAssumption == Kinds \subseteq {"CLIENT", "SERVER", "SUBSCRIBER"}
ASSUME TsapAssumption == Tsap \subseteq Nat
ASSUME ContractIdAssumption == ContractId \subseteq Nat \ {0}
ASSUME RefAssumption == IsFiniteSet(Ref)
ASSUME BoundAssumption ==
  /\ MaxContracts \in Nat /\ MaxSessions \in Nat /\ MaxSessionId \in Nat
  /\ PendingTimeout \in Nat /\ UsageMod \in Nat \ {0} /\ MaxTime \in Nat
  /\ MaxResets \in Nat /\ MaxLosses \in Nat
ASSUME PeriodAssumption == Periods \subseteq Nat \ {0}

VARIABLES
  now, due,             \* time(NULL); the one-second task that is due
  live, sessExp,        \* SessionArray: the ids in use, nExpirationTime (0: never)
  lastSess,             \* m_nSessionIndTop - 1
  gsap,                 \* m_lstSessions of each connection
  list, lease,          \* the list of each lease object; its fields
  dstOf, usage,         \* g_oDmoContractsMap: destination and m_nUsageCount
  pend,                 \* g_oPendingContractRspMap, per destination
  smContract,           \* SMContractID()
  joined,               \* g_ucJoinStatus = DEVICE_JOINED
  net,                  \* messages between the DMO and the System Manager
  resets, losses        \* faults so far

clockVars == <<now, due>>
sessVars  == <<live, sessExp, lastSess, gsap>>
leaseVars == <<list, lease>>
dmoVars   == <<dstOf, usage, pend, smContract, joined>>
faultVars == <<resets, losses>>
vars == <<clockVars, sessVars, leaseVars, dmoVars, net, faultVars>>

SessionId == 1..MaxSessionId
Time == Nat

Lists == {"free", "inProgress", "active", "subscriber", "pendingDelete"}

\* CLIENT stands for CLIENT and BULK_CLIENT leases, SERVER for SERVER and ALERT
\* (no contract), SUBSCRIBER for the periodic ones
Lease == [kind : Kinds, sess : SessionId, dst : Dst, tsap : Tsap,
          exp : Time, born : Time, contract : ContractId \cup {0}]

NoLease == [kind |-> "NONE"]

Req(d)    == [type |-> "req", dst |-> d]             \* SCO contract request
Rsp(d, c) == [type |-> "rsp", dst |-> d, id |-> c]   \* its answer; c = 0: refused
Term(c)   == [type |-> "term", id |-> c]             \* SCO contract termination
Del(c)    == [type |-> "del", id |-> c]              \* DMO contract delete, by the SM

Message == {Req(d) : d \in Dst}
             \cup {Rsp(d, c) : d \in Dst, c \in ContractId \cup {0}}
             \cup {Term(c) : c \in ContractId} \cup {Del(c) : c \in ContractId}

TypeOK ==
  /\ now \in 0..MaxTime /\ due \in {"none", "maintain", "expire"}
  /\ live \subseteq SessionId /\ sessExp \in [SessionId -> Time]
  /\ lastSess \in 0..MaxSessionId
  /\ gsap \in [Conn -> SUBSET SessionId]
  /\ list \in [Ref -> Lists]
  /\ lease \in [Ref -> Lease \cup {NoLease}]
  /\ \A r \in Ref : list[r] = "free" <=> lease[r] = NoLease
  /\ dstOf \in [ContractId -> Dst \cup {NoDst}]
  /\ usage \in [ContractId -> 0..(UsageMod - 1)]
  /\ pend \in [Dst -> {"idle", "noKey", "waiting"}]
  /\ smContract \in ContractId \cup {0}
  /\ joined \in BOOLEAN
  /\ net \subseteq Message
  /\ resets \in 0..MaxResets /\ losses \in 0..MaxLosses

Init ==
  /\ now = 0 /\ due = "none"
  /\ live = {} /\ sessExp = [s \in SessionId |-> 0] /\ lastSess = 0
  /\ gsap = [k \in Conn |-> {}]
  /\ list = [r \in Ref |-> "free"] /\ lease = [r \in Ref |-> NoLease]
  /\ dstOf = [c \in ContractId |-> NoDst] /\ usage = [c \in ContractId |-> 0]
  /\ pend = [d \in Dst |-> "idle"]
  /\ smContract = 0 /\ joined = TRUE
  /\ net = {} /\ resets = 0 /\ losses = 0

-----------------------------------------------------------------------------
(* Searches and conditions.                                                *)

In(l) == {r \in Ref : list[r] = l}
Active == In("active")
Clients(d) == {r \in In("inProgress") : lease[r].dst = d}

OfSession(S) == {r \in Ref : list[r] # "free" /\ lease[r].sess \in S}

\* IsValidSession: the test that lets a request in
IsValidSession(s) == s \in live /\ (sessExp[s] = 0 \/ sessExp[s] > now)

\* reqSessionIsValid: the session is valid and belongs to the connection
ReqSessionIsValid(s) == IsValidSession(s) /\ \E k \in Conn : s \in gsap[k]

\* Mutant of ExpiredSessions: the unlimited sessions are tested, not the finite
ExpiredSessionsNone == {s \in live : sessExp[s] = 0 /\ sessExp[s] > now}

\* CheckExpireSessions
ExpiredSessions == {s \in live : sessExp[s] # 0 /\ sessExp[s] < now}

\* Mutant of StaleRequest: the age is never reached
StaleRequestNever(r) == lease[r].born + PendingTimeout < 0

\* CheckExpireLeases
ExpiredLease(r) == lease[r].exp # 0 /\ lease[r].exp <= now
StaleRequest(r) == lease[r].born + PendingTimeout < now

Table == {c \in ContractId : dstOf[c] # NoDst}
TableFull == Cardinality(Table) >= MaxContracts

\* DMO_GetContract: the first match in the id-ordered map
GetContract(d) == {c \in Table : dstOf[c] = d /\
                     \A b \in Table : dstOf[b] = d => c <= b}

\* An id the System Manager may allocate (external): not in the gateway's table
\* and named by no message in flight
FreshId(c) == c \notin Table /\ \A m \in net : m.type # "req" => m.id # c

-----------------------------------------------------------------------------
(* Removing leases (deleteActiveLease, deleteActiveSubscriberLease).       *)

On(c, R) == {r \in R : lease[r].contract = c}

\* Mutant of Hits: the last-but-one lease already counts as the last
HitsEarly(c, n1, n2) == \E n \in (n1 + 1)..n2 : (usage[c] - n) % UsageMod \in {0, 1}

\* The usage count of c passes through 0 while its n1+1-th .. n2-th lease of the
\* pass is deleted
Hits(c, n1, n2) == \E n \in (n1 + 1)..n2 : (usage[c] - n) % UsageMod = 0

\* Contracts whose termination is requested when the active leases R are deleted
\* after the active leases R0: "no other leases use it", and never the GW->SM one
Terminated(R0, R) ==
  {c \in Table \ {smContract} :
     Hits(c, Cardinality(On(c, R0)), Cardinality(On(c, R0 \cup R)))}

\* Mutant of Relist: the object is deleted but its list keeps the pointer
RelistDangling(P, G) == [r \in Ref |-> IF r \in P THEN "pendingDelete" ELSE list[r]]

\* The lists after the leases P moved to m_lstLeasesPendingDelete and the leases
\* G were erased; the cells after G were deleted
Relist(P, G) == [r \in Ref |-> IF r \in P THEN "pendingDelete"
                               ELSE IF r \in G THEN "free" ELSE list[r]]
Cells(G) == [r \in Ref |-> IF r \in G THEN NoLease ELSE lease[r]]

\* The usage counts after the active leases K and N were deleted
UsageAfter(K, N) ==
  [c \in ContractId |-> IF c \in Table
                          THEN (usage[c] - Cardinality(On(c, K \cup N))) % UsageMod
                          ELSE usage[c]]

\* Delete the active leases K, for which the caller waits for the contract
\* notification (p_pbPendingContractDelete), then the active leases N, for which
\* it does not, and the leases F, which use no contract.  The lease whose
\* deletion requests a termination is kept in m_lstLeasesPendingDelete.
RemoveLeases(K, N, F) ==
  LET T1 == Terminated({}, K)
      T2 == Terminated(K, N)
  IN \E P \in SUBSET K :
       /\ \A c \in T1 : Cardinality(On(c, P)) = 1
       /\ \A r \in P : lease[r].contract \in T1
       /\ list' = Relist(P, (K \ P) \cup N \cup F)
       /\ lease' = Cells((K \ P) \cup N \cup F)
       /\ usage' = UsageAfter(K, N)
       /\ net' = net \cup (IF joined THEN {Term(c) : c \in T1 \cup T2} ELSE {})
       /\ UNCHANGED <<dstOf, pend, smContract, joined>>

-----------------------------------------------------------------------------
(* Session management.                                                     *)

\* createSession + addSession; p = 0 asks for an unlimited session
CreateSession(k, p) ==
  /\ Cardinality(live) < MaxSessions
  /\ lastSess < MaxSessionId
  /\ lastSess' = lastSess + 1
  /\ live' = live \cup {lastSess'}
  /\ sessExp' = [sessExp EXCEPT ![lastSess'] = IF p = 0 THEN 0 ELSE now + p]
  /\ gsap' = [gsap EXCEPT ![k] = @ \cup {lastSess'}]
  /\ UNCHANGED <<clockVars, leaseVars, dmoVars, net, faultVars>>

\* Mutant of RenewSession: ProcessSessionUpdate is not called
RenewSessionOnly(s, p) ==
  /\ ReqSessionIsValid(s)
  /\ sessExp[s] > 0
  /\ sessExp' = [sessExp EXCEPT ![s] = now + p]
  /\ UNCHANGED <<clockVars, live, lastSess, gsap, leaseVars, dmoVars, net, faultVars>>

\* ProcessSessionUpdate: the leases that would outlive their session are cut
CutLeases(s, e) ==
  [r \in Ref |-> IF /\ list[r] \in {"active", "subscriber", "inProgress"}
                    /\ lease[r].sess = s /\ lease[r].exp > e
                   THEN [lease[r] EXCEPT !.exp = e] ELSE lease[r]]

\* renewSession: an unlimited session cannot be renewed
RenewSession(s, p) ==
  /\ ReqSessionIsValid(s)
  /\ sessExp[s] > 0
  /\ sessExp' = [sessExp EXCEPT ![s] = now + p]
  /\ lease' = CutLeases(s, now + p)
  /\ UNCHANGED <<clockVars, live, lastSess, gsap, list, dmoVars, net, faultVars>>

\* Mutant of DropSessions: the leases in progress are forgotten
DropSessionsNotPending(S, N, F) ==
  /\ RemoveLeases(Active \cap OfSession(S), N,
                  F \cup (In("subscriber") \cap OfSession(S)))
  /\ live' = live \ S
  /\ sessExp' = [s \in SessionId |-> IF s \in S THEN 0 ELSE sessExp[s]]

\* deleteSession of every session of S: ProcessSessionDelete, then the slot is
\* cleared; N and F are what the caller removes after that
DropSessions(S, N, F) ==
  /\ RemoveLeases(Active \cap OfSession(S), N,
                  F \cup ((In("subscriber") \cup In("inProgress")) \cap OfSession(S)))
  /\ live' = live \ S
  /\ sessExp' = [s \in SessionId |-> IF s \in S THEN 0 ELSE sessExp[s]]

DeleteSession(s) ==
  /\ ReqSessionIsValid(s)
  /\ DropSessions({s}, {}, {})
  /\ UNCHANGED <<clockVars, lastSess, gsap, faultVars>>

\* Mutant of CloseConnection: the list is cleared, the sessions are not deleted
CloseConnectionOnly(k) ==
  /\ gsap[k] # {}
  /\ gsap' = [gsap EXCEPT ![k] = {}]
  /\ UNCHANGED <<clockVars, live, sessExp, lastSess, leaseVars, dmoVars, net, faultVars>>

\* ~CTcpGSAP: clear() deletes every session opened over the connection
CloseConnection(k) ==
  /\ gsap[k] # {}
  /\ DropSessions(gsap[k] \cap live, {}, {})
  /\ gsap' = [gsap EXCEPT ![k] = {}]
  /\ UNCHANGED <<clockVars, lastSess, faultVars>>

-----------------------------------------------------------------------------
(* The DMO's side of a contract request.                                   *)

\* DMO_RequestNewContract without a contract to d in the table: refused when not
\* joined, a request is outstanding or the table is full; otherwise the request
\* waits for a key, is sent, or is left in the request table although the
\* application sub-layer would not take it, or no key could be requested
RequestContract(d) ==
  \/ /\ joined /\ pend[d] = "idle" /\ ~TableFull
     /\ \/ pend' = [pend EXCEPT ![d] = "noKey"] /\ UNCHANGED net
        \/ pend' = [pend EXCEPT ![d] = "waiting"] /\ net' \in {net, net \cup {Req(d)}}
  \/ UNCHANGED <<pend, net>>

\* Mutant of AddContract: one use is counted, however many leases waited
AddContractOnce(c, d) ==
  /\ dstOf' = [dstOf EXCEPT ![c] = d]
  /\ usage' = [usage EXCEPT ![c] = (@ + 1) % UsageMod]
  /\ list' = [r \in Ref |-> IF r \in Clients(d) THEN "active" ELSE list[r]]
  /\ lease' = [r \in Ref |-> IF r \in Clients(d)
                               THEN [lease[r] EXCEPT !.contract = c] ELSE lease[r]]
  /\ smContract' = IF d = SMDst THEN c ELSE smContract

\* UAP_NotifyAddContract -> ContractNotification(c, contract): every client
\* lease in progress to d becomes active on c and counts in its usage
AddContract(c, d) ==
  /\ dstOf' = [dstOf EXCEPT ![c] = d]
  /\ usage' = [usage EXCEPT ![c] = (@ + Cardinality(Clients(d))) % UsageMod]
  /\ list' = [r \in Ref |-> IF r \in Clients(d) THEN "active" ELSE list[r]]
  /\ lease' = [r \in Ref |-> IF r \in Clients(d)
                               THEN [lease[r] EXCEPT !.contract = c] ELSE lease[r]]
  /\ smContract' = IF d = SMDst THEN c ELSE smContract

\* DMO_NotifyNewKeyAdded: the request that waited for its key is sent
KeyAdded(d) ==
  /\ pend[d] = "noKey"
  /\ pend' = [pend EXCEPT ![d] = "waiting"]
  /\ net' \in {net, net \cup {Req(d)}}
  /\ UNCHANGED <<clockVars, sessVars, leaseVars, dstOf, usage, smContract, joined, faultVars>>

\* DMO_TimeoutContractReqs: the request fails; ContractNotification(0, contract)
\* takes neither branch, so the leases in progress stay as they are
RequestTimeout(d) ==
  /\ pend[d] # "idle"
  /\ pend' = [pend EXCEPT ![d] = "idle"]
  /\ UNCHANGED <<clockVars, sessVars, leaseVars, dstOf, usage, smContract, joined,
                 net, faultVars>>

\* DMO_ProcessContractResponse
ContractResponse(d, c) ==
  /\ Rsp(d, c) \in net
  /\ net' = net \ {Rsp(d, c)}
  /\ pend' = [pend EXCEPT ![d] = "idle"]
  /\ IF pend[d] # "idle" /\ c # 0 /\ ~TableFull
       THEN AddContract(c, d)
       ELSE UNCHANGED <<leaseVars, dstOf, usage, smContract>>
  /\ UNCHANGED <<clockVars, sessVars, joined, faultVars>>

\* DMO_setContract: the System Manager writes a contract, new or known, to d (the
\* code would overwrite any destination; it is assumed not to redirect one); a
\* write with two indices deletes the first contract before (SMRevoke and
\* DeleteContract, then SetContract)
SetContract(c, d) ==
  /\ joined
  /\ \/ FreshId(c) /\ ~TableFull
     \/ dstOf[c] = d /\ Del(c) \notin net
  /\ AddContract(c, d)
  /\ UNCHANGED <<clockVars, sessVars, pend, joined, net, faultVars>>

\* Mutants of LeasesOn: one of the two lists is not searched
LeasesOnPending(c) == On(c, In("pendingDelete"))
LeasesOnActive(c) == On(c, Active)

\* ContractNotification(c, NULL): the leases that go with the contract
LeasesOn(c) == On(c, Active \cup In("pendingDelete"))

\* Mutant of SMContractWithout: the GW->SM contract id is kept
SMContractKept(c) == smContract

\* CGwUAP::ContractNotification(c, NULL): SMContractID() afterwards
SMContractWithout(c) == IF c = smContract THEN 0 ELSE smContract

\* DMO_deleteContract -> ContractNotification(c, NULL): the leases on c go, with
\* no termination; a contract that is not in the table is not notified
DeleteContract(c) ==
  /\ Del(c) \in net
  /\ net' = net \ {Del(c)}
  /\ IF c \in Table
       THEN /\ dstOf' = [dstOf EXCEPT ![c] = NoDst]
            /\ usage' = [usage EXCEPT ![c] = 0]
            /\ list' = Relist({}, LeasesOn(c)) /\ lease' = Cells(LeasesOn(c))
            /\ smContract' = SMContractWithout(c)
       ELSE UNCHANGED <<leaseVars, dstOf, usage, smContract>>
  /\ UNCHANGED <<clockVars, sessVars, pend, joined, faultVars>>

\* maintainSMContract, the first of the one-second tasks: without a GW->SM contract
\* one is requested, once WAIT_BEFORE_REQUESTING_SM_CONTRACT has passed (abstracted
\* to a choice); a contract to it that is already in the table is notified again
MaintainSMContract ==
  /\ due = "maintain" /\ due' = "expire"
  /\ \/ UNCHANGED <<leaseVars, dmoVars, net>>
     \/ /\ SMDst \in Dst /\ joined /\ smContract = 0 /\ GetContract(SMDst) = {}
        /\ RequestContract(SMDst)
        /\ UNCHANGED <<leaseVars, dstOf, usage, smContract, joined>>
     \/ /\ SMDst \in Dst /\ joined /\ smContract = 0
        /\ \E c \in GetContract(SMDst) : AddContract(c, SMDst)
        /\ UNCHANGED <<pend, joined, net>>
  /\ UNCHANGED <<now, sessVars, faultVars>>

-----------------------------------------------------------------------------
(* Lease management.                                                       *)

\* validateUserRequest: a request to create a lease that goes through; any other
\* is confirmed with an error and changes nothing
ValidRequest(s, kd, t) == ReqSessionIsValid(s) /\ kd \in Kinds /\ t \in Tsap

\* createLease: the lease is cut to the session's end
LeaseExpiry(s, p) ==
  IF p # 0 /\ sessExp[s] # 0 /\ sessExp[s] < now + p THEN sessExp[s]
  ELSE IF p # 0 THEN now + p ELSE 0

NewLease(s, kd, d, t, p, c) ==
  [kind |-> kd, sess |-> s, dst |-> d, tsap |-> t, exp |-> LeaseExpiry(s, p),
   born |-> now, contract |-> c]

\* A lease pending delete to the same destination and local TSAP: "CANNOT re-use
\* a contract pending delete. Refuse the request"
PendingDeleteFor(d, t) ==
  \E r \in In("pendingDelete") : lease[r].dst = d /\ lease[r].tsap = t

Put(r, l, v) == list' = [list EXCEPT ![r] = l] /\ lease' = [lease EXCEPT ![r] = v]

\* createLease of a SERVER/ALERT or of a periodic lease: no contract is needed
CreatePlainLease(r, s, kd, d, t, p) ==
  /\ ValidRequest(s, kd, t) /\ list[r] = "free"
  /\ Put(r, IF kd = "SERVER" THEN "active" ELSE "subscriber", NewLease(s, kd, d, t, p, 0))
  /\ UNCHANGED <<clockVars, sessVars, dmoVars, net, faultVars>>

\* createLease of a client lease when a contract to d exists: it is re-used,
\* unless it is pending delete (then the request is refused: no step)
ReuseContract(r, s, d, t, p, c) ==
  /\ ValidRequest(s, "CLIENT", t) /\ list[r] = "free"
  /\ c \in GetContract(d)
  /\ ~PendingDeleteFor(d, t)
  /\ Put(r, "active", NewLease(s, "CLIENT", d, t, p, c))
  /\ usage' = [usage EXCEPT ![c] = (@ + 1) % UsageMod]
  /\ UNCHANGED <<clockVars, sessVars, dstOf, pend, smContract, joined, net, faultVars>>

\* createLease of a client lease when no contract to d exists: one is requested;
\* the outcome of the request is ignored, the lease is in progress either way
AskContract(r, s, d, t, p) ==
  /\ ValidRequest(s, "CLIENT", t) /\ list[r] = "free"
  /\ GetContract(d) = {}
  /\ Put(r, "inProgress", NewLease(s, "CLIENT", d, t, p, 0))
  /\ RequestContract(d)
  /\ UNCHANGED <<clockVars, sessVars, dstOf, usage, smContract, joined, faultVars>>

\* ProcessUserRequest, period 0: delete the lease and, if it is the last one on
\* its contract, wait for the contract to go before confirming
DeleteLease(r) ==
  /\ list[r] \in {"active", "subscriber"} /\ ReqSessionIsValid(lease[r].sess)
  /\ RemoveLeases({r} \cap Active, {}, {r} \ Active)
  /\ UNCHANGED <<clockVars, sessVars, faultVars>>

\* renewLease: the period counts from the creation of the lease
RenewLease(r, p) ==
  /\ list[r] \in {"active", "subscriber"} /\ ReqSessionIsValid(lease[r].sess)
  /\ LET e == sessExp[lease[r].sess]
         x == lease[r].born + p
     IN lease' = [lease EXCEPT ![r].exp = IF e # 0 /\ e < x THEN e ELSE x]
  /\ UNCHANGED <<clockVars, sessVars, list, dmoVars, net, faultVars>>

-----------------------------------------------------------------------------
(* The one-second tasks, join state and the environment.                   *)

\* CheckExpireSessions, then CheckExpireLeases: an expired session takes its
\* leases with it (waiting for the contract notification), an expired lease does
\* not wait; requests that got no contract in time are dropped
OneSecondTasks ==
  /\ due = "expire" /\ due' = "none"
  /\ LET rest == Ref \ OfSession(ExpiredSessions)
     IN DropSessions(ExpiredSessions,
          {r \in Active \cap rest : ExpiredLease(r)},
          {r \in In("subscriber") \cap rest : ExpiredLease(r)}
            \cup {r \in In("inProgress") \cap rest : StaleRequest(r)})
  /\ UNCHANGED <<now, lastSess, gsap, faultVars>>

Tick ==
  /\ now < MaxTime
  /\ now' = now + 1 /\ due' = "maintain"
  /\ UNCHANGED <<sessVars, leaseVars, dmoVars, net, faultVars>>

\* DMAP_DLMO_ResetStack: DMO_Init empties the tables without notification, then
\* OnJoin(false) deletes the active leases; leases in progress or pending delete
\* stay.  What was in flight is protected by keys that are gone.
StackReset ==
  /\ joined /\ resets < MaxResets
  /\ joined' = FALSE /\ resets' = resets + 1
  /\ dstOf' = [c \in ContractId |-> NoDst] /\ usage' = [c \in ContractId |-> 0]
  /\ pend' = [d \in Dst |-> "idle"] /\ smContract' = 0 /\ net' = {}
  /\ list' = Relist({}, Active) /\ lease' = Cells(Active)
  /\ UNCHANGED <<clockVars, sessVars, losses>>

Join ==
  /\ ~joined /\ joined' = TRUE
  /\ UNCHANGED <<clockVars, sessVars, leaseVars, dstOf, usage, pend, smContract, net, faultVars>>

\* External: the System Manager answers a request, carries out a termination, or
\* deletes a contract by itself (its device has left)
SMAnswer(d, c) ==
  /\ Req(d) \in net
  /\ c = 0 \/ FreshId(c)
  /\ net' = (net \ {Req(d)}) \cup {Rsp(d, c)}
  /\ UNCHANGED <<clockVars, sessVars, leaseVars, dmoVars, faultVars>>

SMTerminate(c) ==
  /\ Term(c) \in net
  /\ net' = (net \ {Term(c)}) \cup {Del(c)}
  /\ UNCHANGED <<clockVars, sessVars, leaseVars, dmoVars, faultVars>>

SMRevoke(c) ==
  /\ c \in Table /\ Term(c) \notin net /\ Del(c) \notin net
  /\ net' = net \cup {Del(c)}
  /\ UNCHANGED <<clockVars, sessVars, leaseVars, dmoVars, faultVars>>

Lose(m) ==
  /\ losses < MaxLosses /\ losses' = losses + 1
  /\ net' = net \ {m}
  /\ UNCHANGED <<clockVars, sessVars, leaseVars, dmoVars, resets>>

-----------------------------------------------------------------------------

HostRequest ==
  \/ \E k \in Conn, p \in Periods \cup {0} : CreateSession(k, p)
  \/ \E s \in SessionId, p \in Periods : RenewSession(s, p)
  \/ \E s \in SessionId : DeleteSession(s)
  \/ \E k \in Conn : CloseConnection(k)
  \/ \E r \in Ref, s \in SessionId, kd \in {"SERVER", "SUBSCRIBER"}, d \in Dst,
        t \in Tsap, p \in Periods \cup {0} : CreatePlainLease(r, s, kd, d, t, p)
  \/ \E r \in Ref, s \in SessionId, d \in Dst, t \in Tsap, p \in Periods \cup {0},
        c \in ContractId : ReuseContract(r, s, d, t, p, c)
  \/ \E r \in Ref, s \in SessionId, d \in Dst, t \in Tsap, p \in Periods \cup {0} :
        AskContract(r, s, d, t, p)
  \/ \E r \in Ref : DeleteLease(r)
  \/ \E r \in Ref, p \in Periods : RenewLease(r, p)

Stack ==
  \/ \E d \in Dst : KeyAdded(d) \/ RequestTimeout(d)
  \/ \E d \in Dst, c \in ContractId \cup {0} : ContractResponse(d, c)
  \/ \E c \in ContractId, d \in Dst : SetContract(c, d)
  \/ \E c \in ContractId : DeleteContract(c)
  \/ MaintainSMContract
  \/ OneSecondTasks
  \/ Join

Environment ==
  \/ Tick
  \/ \E d \in Dst, c \in ContractId \cup {0} : SMAnswer(d, c)
  \/ \E c \in ContractId : SMTerminate(c) \/ SMRevoke(c)
  \/ \E m \in net : Lose(m)
  \/ StackReset

Next == HostRequest \/ Stack \/ Environment

Spec == Init /\ [][Next]_vars

-----------------------------------------------------------------------------
(* Properties.                                                             *)

\* The usage count of a contract is the number of active leases on it (modulo
\* its width): nothing that creates, activates, deletes or expires a lease, and
\* no notification, loses or double-counts one.
UsageMatches ==
  \A c \in Table : usage[c] = Cardinality(On(c, Active)) % UsageMod

\* A lease that is in progress, active or subscribed belongs to a session that
\* still exists: no path that ends a session forgets one of its lease lists.
LeaseHasSession ==
  \A r \in Ref : list[r] \in {"inProgress", "active", "subscriber"} =>
                   lease[r].sess \in live

\* A finite lease never outlives its finite session ("Renews a lease, within the
\* session time boundary"), whatever order the two are renewed in.
LeaseWithinSession ==
  \A r \in Ref : list[r] \in {"inProgress", "active", "subscriber"} =>
     LET e == sessExp[lease[r].sess]
     IN lease[r].exp # 0 /\ e # 0 => lease[r].exp <= e

\* An active client lease holds a contract that is in the DMO's table and leads
\* to the lease's own destination: deletion by the System Manager, stack reset
\* and re-use of a contract id leave no lease with a dangling contract.
ActiveLeaseHasContract ==
  \A r \in Active : lease[r].kind = "CLIENT" =>
     lease[r].contract \in Table /\ dstOf[lease[r].contract] = lease[r].dst

\* SMContractID() is a contract to the System Manager that is in the table.
SMContractLive == smContract # 0 => smContract \in Table /\ dstOf[smContract] = SMDst

\* A session ends with its connection: one that nobody can use or delete any more
\* does not occupy a slot of SessionArray.
SessionOwned == \A s \in live : \E k \in Conn : s \in gsap[k]

\* A lease pending delete, which has its device's requests refused, waits for a
\* contract that exists and whose end is on its way.  Only a lost message or a reset
\* of the stack strands one: the list has no timeout and nothing asks again.
PendingDeleteAwaited ==
  losses = 0 /\ resets = 0 =>
    \A r \in In("pendingDelete") :
      LET c == lease[r].contract IN c \in Table /\ (Term(c) \in net \/ Del(c) \in net)

\* deleteActiveLease asks for the termination of a contract only when "no other
\* leases use it" (LeaseMgmtSvc.cpp:577), and never for the GW->SM contract.
TerminateOnlyUnused ==
  [][\A c \in ContractId : Term(c) \in net' \ net =>
        /\ c # smContract
        /\ \A r \in Ref : list'[r] = "active" => lease'[r].contract # c]_vars

-----------------------------------------------------------------------------
(* Liveness.  CGwApp::Run calls the one-second tasks and MaintainSMContract *)
(* again and again; nothing is assumed of the hosts, of the network or of   *)
(* the System Manager.                                                      *)

FairSpec == Spec /\ WF_vars(MaintainSMContract) /\ WF_vars(OneSecondTasks)

\* A session past its expiration time is deleted and frees its slot.
ExpiredSessionEnds ==
  \A s \in SessionId : (s \in live /\ sessExp[s] # 0 /\ sessExp[s] < now) ~> s \notin live

\* A lease whose contract never came is given up PENDING_LEASE_TIMEOUT seconds
\* after it was asked for.
OverdueRequestEnds ==
  \A r \in Ref : (list[r] = "inProgress" /\ lease[r].born + PendingTimeout < now)
                   ~> list[r] # "inProgress"

-----------------------------------------------------------------------------
(* What comments of the code say and the code does not do.                 *)

\* "Refuse the request; the client should re-try few (10-20) seconds later"
\* (LeaseMgmtSvc.cpp:486): a lease pending delete is freed after a while, if the
\* System Manager carries out every termination it receives and the stack handles
\* every deletion it receives.  Not after a loss or a reset: nothing asks again.
SMFairSpec ==
  FairSpec /\ \A c \in ContractId : WF_vars(SMTerminate(c)) /\ WF_vars(DeleteContract(c))
PendingDeleteEnds == \A r \in Ref : list[r] = "pendingDelete" ~> list[r] # "pendingDelete"

\* "CANNOT re-use a contract pending delete" (LeaseMgmtSvc.cpp:486): no active
\* lease is on a contract whose termination has been requested.
NoLeaseOnTerminated == \A r \in Active : Term(lease[r].contract) \notin net

\* "supposedly all contract requests receive an answer from the stack, either
\* success of failure" (LeaseMgmtSvc.cpp:682): a lease stays in progress only
\* while the DMO has a request for its destination.
InProgressAwaited == \A r \in In("inProgress") : pend[lease[r].dst] # "idle"
=============================================================================
