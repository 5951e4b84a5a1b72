-------------------------- MODULE GwSessions_proofs --------------------------
(***************************************************************************)
(* Sessions and their leases: a lease in use belongs to a session that     *)
(* exists and does not outlive it, and a session belongs to a connection.  *)
(***************************************************************************)
EXTENDS GwLeases_proofs

InUse == {"inProgress", "active", "subscriber"}

\* Session ids are handed out in order and never twice.
SessionsCounted == live \subseteq 1..lastSess

\* The inductive invariant: SessionsCounted is what keeps a new session from
\* picking up the leases of an old one.
SessionInv == SessionsCounted /\ LeaseHasSession /\ LeaseWithinSession

\* A step that keeps the sessions, takes no new lease into use and changes
\* neither the session nor the end of one keeps the invariant.
LEMMA SessionInvKept ==
  ASSUME SessionInv, UNCHANGED <<live, sessExp, lastSess>>,
         \A r \in Ref : list'[r] \in InUse =>
            /\ list[r] \in InUse
            /\ lease'[r].sess = lease[r].sess /\ lease'[r].exp = lease[r].exp
  PROVE  SessionInv'
BY DEF SessionInv, SessionsCounted, LeaseHasSession, LeaseWithinSession, InUse

\* The leases that are in use after RemoveLeases were so before, unchanged, and
\* are not among those removed.
LEMMA RemoveRest ==
  ASSUME NEW K, NEW N, NEW F, RemoveLeases(K, N, F), NEW r \in Ref, list'[r] \in InUse
  PROVE  r \notin K \cup N \cup F /\ list'[r] = list[r] /\ lease'[r] = lease[r]
<1>1. PICK P \in SUBSET K :
         /\ list' = Relist(P, (K \ P) \cup N \cup F)
         /\ lease' = Cells((K \ P) \cup N \cup F)
  BY DEF RemoveLeases
<1>2. list'[r] = IF r \in P THEN "pendingDelete"
                 ELSE IF r \in (K \ P) \cup N \cup F THEN "free" ELSE list[r]
  BY <1>1 DEF Relist
<1>3. r \notin P /\ r \notin (K \ P) \cup N \cup F
  BY <1>2 DEF InUse
<1>4. QED
  BY <1>1, <1>2, <1>3 DEF Cells

\* Erasing leases keeps the rest as they are.
LEMMA EraseRest ==
  ASSUME NEW G, list' = Relist({}, G), lease' = Cells(G), NEW r \in Ref, list'[r] # "free"
  PROVE  r \notin G /\ list'[r] = list[r] /\ lease'[r] = lease[r]
BY DEF Relist, Cells

\* Activating the leases that waited for a contract changes neither their session
\* nor their end.
LEMMA AddRest ==
  ASSUME TypeOK, NEW c, NEW d, AddContract(c, d), NEW r \in Ref, list'[r] \in InUse
  PROVE  /\ list[r] \in InUse
         /\ lease'[r].sess = lease[r].sess /\ lease'[r].exp = lease[r].exp
<1>1. CASE r \in Clients(d)
  <2>1. list[r] = "inProgress" /\ lease[r] \in Lease
    BY <1>1, LeaseFields DEF Clients, In
  <2>2. lease'[r] = [lease[r] EXCEPT !.contract = c]
    BY <1>1 DEF AddContract
  <2>3. QED
    BY <2>1, <2>2 DEF InUse, Lease
<1>2. CASE r \notin Clients(d)
  BY <1>2 DEF AddContract
<1>3. QED
  BY <1>1, <1>2

\* Deleting sessions with everything that goes with them keeps the invariant.
LEMMA DropKeeps ==
  ASSUME TypeOK, SessionInv, NEW S, NEW N, NEW F, DropSessions(S, N, F), lastSess' = lastSess
  PROVE  SessionInv'
<1> DEFINE K == Active \cap OfSession(S)
           F2 == F \cup ((In("subscriber") \cup In("inProgress")) \cap OfSession(S))
<1>1. RemoveLeases(K, N, F2) /\ live' = live \ S
      /\ sessExp' = [s \in SessionId |-> IF s \in S THEN 0 ELSE sessExp[s]]
  BY DEF DropSessions
<1>2. ASSUME NEW r \in Ref, list'[r] \in InUse
      PROVE  /\ list[r] \in InUse /\ lease'[r] = lease[r] /\ lease[r] \in Lease
             /\ lease[r].sess \in live \ S
  <2>1. r \notin K \cup N \cup F2 /\ list'[r] = list[r] /\ lease'[r] = lease[r]
    <3> HIDE DEF K, F2
    <3>1. QED
      BY <1>1, <1>2, RemoveRest
  <2>2. lease[r] \in Lease
    BY <1>2, <2>1, LeaseFields DEF InUse
  <2>3. lease[r].sess \in live
    BY <1>2, <2>1 DEF SessionInv, LeaseHasSession, InUse
  <2>4. lease[r].sess \notin S
    BY <1>2, <2>1 DEF InUse, In, Active, OfSession
  <2>5. QED
    BY <1>2, <2>1, <2>2, <2>3, <2>4
<1>3. LeaseHasSession'
  BY <1>1, <1>2 DEF LeaseHasSession, InUse
<1>4. ASSUME NEW r \in Ref, list'[r] \in InUse
      PROVE  sessExp'[lease'[r].sess] = sessExp[lease[r].sess]
  <2>1. lease[r].sess \in SessionId \ S /\ lease'[r] = lease[r]
    BY <1>2, <1>4 DEF TypeOK
  <2>2. QED
    BY <1>1, <2>1
<1>5. LeaseWithinSession'
  BY <1>2, <1>4 DEF SessionInv, LeaseWithinSession, InUse
<1>6. SessionsCounted'
  BY <1>1 DEF SessionInv, SessionsCounted
<1>7. QED
  BY <1>3, <1>5, <1>6 DEF SessionInv

\* A lease that is created in a session that exists, ends with it and goes to a
\* free cell keeps the invariant.
LEMMA CreateKeeps ==
  ASSUME TypeOK, SessionInv, NEW r \in Ref, NEW s \in SessionId, NEW kd, NEW d, NEW t,
         NEW p \in Periods \cup {0}, NEW c, NEW l, ReqSessionIsValid(s),
         Put(r, l, NewLease(s, kd, d, t, p, c)), UNCHANGED sessVars
  PROVE  SessionInv'
<1>1. s \in live
  BY DEF ReqSessionIsValid, IsValidSession
<1>2. now \in Nat /\ sessExp[s] \in Nat /\ p \in Nat
  BY PeriodAssumption, BoundAssumption DEF TypeOK, Time
<1>3. LeaseExpiry(s, p) # 0 /\ sessExp[s] # 0 => LeaseExpiry(s, p) <= sessExp[s]
  BY <1>2 DEF LeaseExpiry
<1>4. ASSUME NEW x \in Ref, list'[x] \in InUse
      PROVE  /\ lease'[x].sess \in live
             /\ LET e == sessExp[lease'[x].sess]
                IN lease'[x].exp # 0 /\ e # 0 => lease'[x].exp <= e
  <2>1. CASE x = r
    <3>1. lease'[x] = NewLease(s, kd, d, t, p, c)
      BY <2>1 DEF Put, TypeOK
    <3>2. lease'[x].sess = s /\ lease'[x].exp = LeaseExpiry(s, p)
      BY <3>1 DEF NewLease
    <3>3. QED
      BY <1>1, <1>3, <3>2
  <2>2. CASE x # r
    BY <1>4, <2>2 DEF Put, TypeOK, SessionInv, LeaseHasSession, LeaseWithinSession, InUse
  <2>3. QED
    BY <2>1, <2>2
<1>5. QED
  BY <1>4 DEF sessVars, SessionInv, SessionsCounted, LeaseHasSession, LeaseWithinSession, InUse

\* One step keeps the invariant, by action.
LEMMA SessionStep ==
  ASSUME TypeOK, SessionInv, [Next]_vars
  PROVE  SessionInv'
<1> USE DEF clockVars, sessVars, leaseVars, dmoVars, faultVars
<1>1. ASSUME NEW k \in Conn, NEW p \in Periods \cup {0}, CreateSession(k, p)
      PROVE  SessionInv'
  <2>1. lastSess \in Nat /\ lastSess' = lastSess + 1 /\ lastSess' \notin live
    BY <1>1, BoundAssumption DEF CreateSession, TypeOK, SessionInv, SessionsCounted
  <2>2. SessionsCounted'
    BY <1>1, <2>1 DEF CreateSession, SessionInv, SessionsCounted
  <2>3. LeaseHasSession'
    BY <1>1 DEF CreateSession, SessionInv, LeaseHasSession
  <2>4. ASSUME NEW r \in Ref, list[r] \in InUse
        PROVE  sessExp'[lease[r].sess] = sessExp[lease[r].sess]
    <3>1. lease[r].sess \in live
      BY <2>4 DEF SessionInv, LeaseHasSession, InUse
    <3>2. lease[r].sess \in SessionId /\ lease[r].sess # lastSess'
      BY <2>1, <3>1 DEF TypeOK
    <3>3. QED
      BY <1>1, <3>2 DEF CreateSession, TypeOK
  <2>5. LeaseWithinSession'
    BY <1>1, <2>4 DEF CreateSession, SessionInv, LeaseWithinSession, InUse
  <2>6. QED
    BY <2>2, <2>3, <2>5 DEF SessionInv
<1>2. ASSUME NEW s \in SessionId, NEW p \in Periods, RenewSession(s, p)
      PROVE  SessionInv'
  <2>1. now + p \in Nat
    BY PeriodAssumption, BoundAssumption DEF TypeOK
  <2>2. ASSUME NEW r \in Ref, list'[r] \in InUse
        PROVE  /\ lease'[r].sess \in live'
               /\ LET e == sessExp'[lease'[r].sess]
                  IN lease'[r].exp # 0 /\ e # 0 => lease'[r].exp <= e
    <3>1. list[r] \in InUse /\ lease[r] \in Lease
      BY <1>2, <2>2, LeaseFields DEF RenewSession, CutLeases, InUse
    <3>2. lease[r].exp \in Nat /\ lease[r].sess \in SessionId
      BY <3>1 DEF Lease, Time
    <3>3. lease'[r] = IF lease[r].sess = s /\ lease[r].exp > now + p
                        THEN [lease[r] EXCEPT !.exp = now + p] ELSE lease[r]
      BY <1>2, <3>1 DEF RenewSession, CutLeases, InUse
    <3>4. lease'[r].sess = lease[r].sess
      BY <3>1, <3>3 DEF Lease
    <3>5. lease'[r].exp = IF lease[r].sess = s /\ lease[r].exp > now + p
                            THEN now + p ELSE lease[r].exp
      BY <3>1, <3>3 DEF Lease
    <3>6. lease[r].sess \in live /\ LET e == sessExp[lease[r].sess]
                                    IN lease[r].exp # 0 /\ e # 0 => lease[r].exp <= e
      BY <3>1 DEF SessionInv, LeaseHasSession, LeaseWithinSession, InUse
    <3>7. sessExp'[lease[r].sess] = IF lease[r].sess = s THEN now + p ELSE sessExp[lease[r].sess]
      BY <1>2, <3>2 DEF RenewSession, CutLeases, TypeOK
    <3>8. live' = live
      BY <1>2 DEF RenewSession, CutLeases
    <3>9. QED
      BY <2>1, <3>2, <3>4, <3>5, <3>6, <3>7, <3>8
  <2>3. SessionsCounted'
    BY <1>2 DEF RenewSession, CutLeases, SessionInv, SessionsCounted
  <2>4. QED
    BY <2>2, <2>3 DEF SessionInv, LeaseHasSession, LeaseWithinSession, InUse
<1>3. ASSUME NEW s \in SessionId, DeleteSession(s)
      PROVE  SessionInv'
  BY <1>3, DropKeeps DEF DeleteSession
<1>4. ASSUME NEW k \in Conn, CloseConnection(k)
      PROVE  SessionInv'
  BY <1>4, DropKeeps DEF CloseConnection
<1>5. ASSUME NEW r \in Ref, NEW s \in SessionId, NEW kd \in {"SERVER", "SUBSCRIBER"},
             NEW d \in Dst, NEW t \in Tsap, NEW p \in Periods \cup {0},
             CreatePlainLease(r, s, kd, d, t, p)
      PROVE  SessionInv'
  BY <1>5, CreateKeeps DEF CreatePlainLease, ValidRequest
<1>6. ASSUME NEW r \in Ref, NEW s \in SessionId, NEW d \in Dst, NEW t \in Tsap,
             NEW p \in Periods \cup {0}, NEW c \in ContractId, ReuseContract(r, s, d, t, p, c)
      PROVE  SessionInv'
  BY <1>6, CreateKeeps DEF ReuseContract, ValidRequest
<1>7. ASSUME NEW r \in Ref, NEW s \in SessionId, NEW d \in Dst, NEW t \in Tsap,
             NEW p \in Periods \cup {0}, AskContract(r, s, d, t, p)
      PROVE  SessionInv'
  BY <1>7, CreateKeeps DEF AskContract, ValidRequest
<1>8. ASSUME NEW r \in Ref, DeleteLease(r)
      PROVE  SessionInv'
  <2>1. RemoveLeases({r} \cap Active, {}, {r} \ Active) /\ UNCHANGED <<live, sessExp, lastSess>>
    BY <1>8 DEF DeleteLease
  <2>2. QED
    BY <2>1, RemoveRest, SessionInvKept
<1>9. ASSUME NEW r \in Ref, NEW p \in Periods, RenewLease(r, p)
      PROVE  SessionInv'
  <2>1. lease[r] \in Lease /\ list[r] \in InUse
    BY <1>9, LeaseFields DEF RenewLease, InUse
  <2>2. lease[r].born + p \in Nat /\ sessExp[lease[r].sess] \in Nat
    BY <2>1, PeriodAssumption DEF TypeOK, Lease, Time
  <2> DEFINE e == sessExp[lease[r].sess]
             y == lease[r].born + p
             x == IF e # 0 /\ e < y THEN e ELSE y
  <2>3. /\ lease' = [lease EXCEPT ![r].exp = x]
        /\ sessExp[lease[r].sess] # 0 => x <= sessExp[lease[r].sess]
    BY <1>9, <2>2 DEF RenewLease
  <2> HIDE DEF x
  <2>4. lease'[r].exp = x /\ lease'[r].sess = lease[r].sess
    BY <2>1, <2>3 DEF Lease, TypeOK
  <2>5. \A q \in Ref \ {r} : lease'[q] = lease[q]
    BY <2>3 DEF TypeOK
  <2>6. UNCHANGED <<live, sessExp, lastSess, list>>
    BY <1>9 DEF RenewLease
  <2>7. LeaseHasSession'
    BY <2>4, <2>5, <2>6 DEF SessionInv, LeaseHasSession
  <2>8. LeaseWithinSession'
    BY <2>3, <2>4, <2>5, <2>6 DEF SessionInv, LeaseWithinSession
  <2>9. QED
    BY <2>6, <2>7, <2>8 DEF SessionInv, SessionsCounted
<1>10. ASSUME NEW c, NEW d, AddContract(c, d), UNCHANGED <<live, sessExp, lastSess>>
       PROVE  SessionInv'
  BY <1>10, AddRest, SessionInvKept
<1>11. ASSUME UNCHANGED <<live, sessExp, lastSess, list, lease>>
       PROVE  SessionInv'
  BY <1>11, SessionInvKept
<1>12. ASSUME NEW d \in Dst, KeyAdded(d) \/ RequestTimeout(d)
       PROVE  SessionInv'
  BY <1>11, <1>12 DEF KeyAdded, RequestTimeout
<1>13. ASSUME NEW d \in Dst, NEW c \in ContractId \cup {0}, ContractResponse(d, c)
       PROVE  SessionInv'
  BY <1>10, <1>11, <1>13 DEF ContractResponse
<1>14. ASSUME NEW c \in ContractId, NEW d \in Dst, SetContract(c, d)
       PROVE  SessionInv'
  BY <1>10, <1>14 DEF SetContract
<1>15. ASSUME NEW G, list' = Relist({}, G), lease' = Cells(G),
              UNCHANGED <<live, sessExp, lastSess>>
       PROVE  SessionInv'
  BY <1>15, EraseRest, SessionInvKept DEF InUse
<1>16. ASSUME NEW c \in ContractId, DeleteContract(c)
       PROVE  SessionInv'
  BY <1>11, <1>15, <1>16 DEF DeleteContract
<1>17. CASE MaintainSMContract
  BY <1>10, <1>11, <1>17 DEF MaintainSMContract
<1>18. CASE OneSecondTasks
  BY <1>18, DropKeeps DEF OneSecondTasks
<1>19. CASE Join \/ Tick \/ UNCHANGED vars
  BY <1>11, <1>19 DEF Join, Tick, vars
<1>20. ASSUME NEW d \in Dst, NEW c \in ContractId \cup {0}, SMAnswer(d, c)
       PROVE  SessionInv'
  BY <1>11, <1>20 DEF SMAnswer
<1>21. ASSUME NEW c \in ContractId, SMTerminate(c) \/ SMRevoke(c)
       PROVE  SessionInv'
  BY <1>11, <1>21 DEF SMTerminate, SMRevoke
<1>22. ASSUME NEW m \in net, Lose(m)
       PROVE  SessionInv'
  BY <1>11, <1>22 DEF Lose
<1>23. CASE StackReset
  BY <1>15, <1>23 DEF StackReset
<1>24. QED
  BY <1>1, <1>2, <1>3, <1>4, <1>5, <1>6, <1>7, <1>8, <1>9, <1>12, <1>13, <1>14,
     <1>16, <1>17, <1>18, <1>19, <1>20, <1>21, <1>22, <1>23
  DEF Next, HostRequest, Stack, Environment

\* Every session is owned by a connection: one step, by what it does to sessions.
LEMMA OwnedStep ==
  ASSUME TypeOK, SessionOwned, [Next]_vars
  PROVE  SessionOwned'
<1> USE DEF clockVars, sessVars, leaseVars, dmoVars, faultVars
<1>1. ASSUME NEW S, live' = live \ S, gsap' = gsap
      PROVE  SessionOwned'
  BY <1>1 DEF SessionOwned
<1>2. ASSUME UNCHANGED <<live, gsap>>
      PROVE  SessionOwned'
  BY <1>2 DEF SessionOwned
<1>3. ASSUME NEW k \in Conn, NEW p \in Periods \cup {0}, CreateSession(k, p)
      PROVE  SessionOwned'
  <2>1. /\ gsap'[k] = gsap[k] \cup {lastSess'} /\ live' = live \cup {lastSess'}
        /\ \A x \in Conn \ {k} : gsap'[x] = gsap[x]
    BY <1>3 DEF CreateSession, TypeOK
  <2>2. QED
    BY <2>1 DEF SessionOwned
<1>4. ASSUME NEW k \in Conn, CloseConnection(k)
      PROVE  SessionOwned'
  <2>1. /\ live' = live \ (gsap[k] \cap live)
        /\ \A x \in Conn \ {k} : gsap'[x] = gsap[x]
    BY <1>4 DEF CloseConnection, DropSessions, TypeOK
  <2>2. QED
    BY <2>1 DEF SessionOwned
<1>5. CASE OneSecondTasks
  BY <1>1, <1>5 DEF OneSecondTasks, DropSessions
<1>6. CASE \E s \in SessionId : DeleteSession(s)
  BY <1>1, <1>6 DEF DeleteSession, DropSessions
<1>7. CASE Stack /\ ~OneSecondTasks
  BY <1>2, <1>7 DEF Stack, KeyAdded, RequestTimeout, ContractResponse, SetContract,
                    DeleteContract, MaintainSMContract, Join
<1>8. CASE Environment \/ UNCHANGED vars
  BY <1>2, <1>8 DEF Environment, Tick, SMAnswer, SMTerminate, SMRevoke, Lose, StackReset, vars
<1>9. CASE HostRequest
  <2>1. CASE UNCHANGED <<live, gsap>>
    BY <1>2, <2>1
  <2>2. CASE ~UNCHANGED <<live, gsap>>
    BY <1>3, <1>4, <1>6, <1>9, <2>2, ZenonT(60) DEF HostRequest, RenewSession, CutLeases,
       CreatePlainLease, ReuseContract, AskContract, DeleteLease, RenewLease
  <2>3. QED
    BY <2>1, <2>2
<1>10. QED
  BY <1>5, <1>7, <1>8, <1>9 DEF Next

\* A lease in progress, active or subscribed belongs to a session that exists,
\* for any number of sessions, leases, devices and connections: every path that
\* ends a session (deletion, expiry, a closed connection) finds all its leases.
THEOREM LeasesHaveSessions == Spec => []LeaseHasSession
<1>1. Init => SessionInv
  BY DEF Init, SessionInv, SessionsCounted, LeaseHasSession, LeaseWithinSession
<1>2. TypeOK /\ SessionInv /\ [Next]_vars => SessionInv'
  BY SessionStep
<1>3. SessionInv => LeaseHasSession
  BY DEF SessionInv
<1>4. QED
  BY <1>1, <1>2, <1>3, LeasesTypeCorrect, PTL DEF Spec

\* A finite lease ends no later than its finite session, whatever order creation
\* and renewal of the two happen in.
THEOREM LeasesEndWithSessions == Spec => []LeaseWithinSession
<1>1. Init => SessionInv
  BY DEF Init, SessionInv, SessionsCounted, LeaseHasSession, LeaseWithinSession
<1>2. TypeOK /\ SessionInv /\ [Next]_vars => SessionInv'
  BY SessionStep
<1>3. SessionInv => LeaseWithinSession
  BY DEF SessionInv
<1>4. QED
  BY <1>1, <1>2, <1>3, LeasesTypeCorrect, PTL DEF Spec

\* A session that exists is in the list of some connection, so that closing the
\* connection deletes it.
THEOREM SessionsOwned == Spec => []SessionOwned
<1>1. Init => SessionOwned
  BY DEF Init, SessionOwned
<1>2. TypeOK /\ SessionOwned /\ [Next]_vars => SessionOwned'
  BY OwnedStep
<1>3. QED
  BY <1>1, <1>2, LeasesTypeCorrect, PTL DEF Spec
=============================================================================
