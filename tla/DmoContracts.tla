---------------------------- MODULE DmoContracts ----------------------------
(***************************************************************************)
(* The contract requests of the DMO (AccessNode/IsaGw/ISA100/dmap_dmo.cpp, *)
(* MULTICONTRACTS): g_oPendingContractRspMap, keyed by a uint8 request id, *)
(* the counter g_ucContractRspPending and the static s_ucContractReqID.    *)
(*                                                                         *)
(* pend[i] is the entry of request id i; left is the number of seconds to  *)
(* its deadline (m_ulActivationTAI).  A destination stands for an address, *)
(* a pair of ports and a service type.  The System Manager and the network *)
(* are external: net is the set of messages in flight.  A request carries  *)
(* its destination, an answer only the request id: peer, the destination   *)
(* the System Manager answered for, is not visible to the DMO.             *)
(***************************************************************************)
EXTENDS Integers, FiniteSets

CONSTANTS Dst,          \* contract destinations
          IdMod,        \* 2^8: request ids are uint8
          CountMod,     \* 2^8: g_ucContractRspPending is a uint8
          Timeout,      \* m_unContractReqTimeout, in seconds
          MaxContracts, \* MAX_CONTRACT_NO
          MaxInFlight   \* what the application sub-layer's queue takes

ASSUME DstFinite == IsFiniteSet(Dst)
ASSUME ByteAssumption == IdMod \in Nat \ {0} /\ CountMod \in Nat \ {0}
ASSUME LimitAssumption == Timeout \in Nat /\ MaxContracts \in Nat /\ MaxInFlight \in Nat

VARIABLES pend,         \* g_oPendingContractRspMap
          rspPending,   \* g_ucContractRspPending
          nextId,       \* s_ucContractReqID
          table,        \* g_oDmoContractsMap
          joined,       \* g_ucJoinStatus = DEVICE_JOINED
          net,          \* messages between the DMO and the System Manager
          asked         \* history: accepted requests without a notification yet

vars == <<pend, rspPending, nextId, table, joined, net, asked>>

ReqId == 0..(IdMod - 1)

None == [status |-> "none"]
Entry(d, st, l) == [dst |-> d, status |-> st, left |-> l]
Entries == [dst : Dst, status : {"PENDING", "NO_KEY", "FAILED"}, left : 0..Timeout]

Req(i, d) == [type |-> "req", id |-> i, peer |-> d]
\* ok: CONTRACT_RSP_OK; refused: another response code; sfc: an SFC error
Rsp(i, d, r) == [type |-> r, id |-> i, peer |-> d]
Message == [type : {"req", "ok", "refused", "sfc"}, id : ReqId, peer : Dst]

\* A contract in the table: its destination, and the one it was set up for
Contract == [dst : Dst, peer : Dst]

TypeOK ==
  /\ pend \in [ReqId -> Entries \cup {None}]
  /\ rspPending \in 0..(CountMod - 1)
  /\ nextId \in ReqId
  /\ table \subseteq Contract
  /\ joined \in BOOLEAN
  /\ net \subseteq Message
  /\ asked \subseteq Dst

Init ==
  /\ pend = [i \in ReqId |-> None] /\ rspPending = 0 /\ nextId = 1 % IdMod
  /\ table = {} /\ joined = TRUE /\ net = {} /\ asked = {}

-----------------------------------------------------------------------------
(* Searches.                                                               *)

Used == {i \in ReqId : pend[i] # None}
Waiting(i) == pend[i].status \in {"PENDING", "NO_KEY"}
Failed == {i \in Used : pend[i].status = "FAILED"}

\* Mutant of EntryOf: failed requests are not found
EntryOfWaiting(d) == {i \in Used : pend[i].dst = d /\ Waiting(i)}

\* The entry of a destination, in any state
EntryOf(d) == {i \in Used : pend[i].dst = d}

\* Mutant of HasContract: the contract table is not searched before a request
HasContractNever(d) == FALSE

HasContract(d) == \E x \in table : x.dst = d
TableFull == Cardinality(table) >= MaxContracts

Least(S) == {i \in S : \A j \in S : i <= j}
AtLeast(S, n) == {i \in S : i >= n}

Free == ReqId \ Used

\* Mutant of FreeIds: the next id is taken without looking at the map
FreeIdsNext == {nextId}

\* DMO_IsPendingContractRequest: the id for a new request is the first free one
\* from nextId on (ucTentativeReqID), or from 0 on (ucTentativeReqIDWrapped).
\* With every id in use and nextId = 0 the tentative id wraps to 0 and is taken.
FreeIds ==
  IF AtLeast(Free, nextId) # {} THEN Least(AtLeast(Free, nextId))
  ELSE IF nextId = 0 THEN {0} ELSE Least(Free)

\* ... or, with every id in use, that of a failed request, or just any
ReclaimIds ==
  IF AtLeast(Failed, nextId) # {} THEN Least(AtLeast(Failed, nextId))
  ELSE IF Failed # {} THEN Least(Failed) ELSE ReqId

\* Mutant of Count: the counter does not wrap
CountUnbounded(n) == n

\* uint8 arithmetic
Count(n) == n % CountMod

-----------------------------------------------------------------------------
(* DMO_RequestNewContract.                                                 *)

\* DMO_sendContractRequest of entry i: the application sub-layer takes it, and it
\* is counted (from n) and given a new deadline ...
Sent(p, i, d, n) ==
  /\ pend' = [p EXCEPT ![i] = Entry(d, "PENDING", Timeout)]
  /\ rspPending' = Count(n + 1)
  /\ net' = net \cup {Req(i, d)} /\ Cardinality(net') <= MaxInFlight

\* ... or the request is not taken: the entry stays as it is, not counted
NotSent(p, n) == pend' = p /\ rspPending' = n /\ UNCHANGED net

\* A request id has been found; n is the counter, p the table, a the unanswered
\* requests so far.  The request is refused (not joined, contract table full, or
\* no key could be requested), waits for its key, is sent, or could not be sent.
Proceed(i, d, p, n, a) ==
  \/ NotSent(p, n) /\ asked' = a
  \/ /\ joined /\ ~TableFull
     /\ pend' = [p EXCEPT ![i] = Entry(d, "NO_KEY", Timeout)]
     /\ rspPending' = Count(n + 1) /\ asked' = a \cup {d} /\ UNCHANGED net
  \/ /\ joined /\ ~TableFull
     /\ Sent(p, i, d, n) /\ asked' = a \cup {d}
  \/ /\ joined /\ ~TableFull
     /\ NotSent([p EXCEPT ![i] = Entry(d, "PENDING", Timeout)], n) /\ asked' = a

\* A contract exists, or a request is outstanding: SFC_DUPLICATE; an existing
\* contract is notified again
RequestDuplicate(d) ==
  /\ HasContract(d) /\ asked' = asked \ {d}
  /\ UNCHANGED <<pend, rspPending, nextId, table, joined, net>>

\* The last request for d failed: its entry and id are used again
RequestAgain(d) ==
  /\ ~HasContract(d)
  /\ \E i \in EntryOf(d) \cap Failed : Proceed(i, d, pend, rspPending, asked)
  /\ UNCHANGED <<nextId, table, joined>>

\* Assumed, not tested by the code: ASLDE forgets a request at the end of its
\* lifetime, so that no answer finds it any more, before the ids have come round and
\* its id is free and due again
Settled(i) == i \in Free => \A m \in net : m.id # i

\* A new id is allocated (before any other check)
RequestNew(d) ==
  /\ ~HasContract(d) /\ EntryOf(d) = {}
  /\ \E i \in FreeIds :
       /\ Settled(i)
       /\ Proceed(i, d, pend, rspPending, asked)
       /\ nextId' = (i + 1) % IdMod
  /\ UNCHANGED <<table, joined>>

\* No id is free: a failed request, or any, is failed (again) and replaced
RequestReclaim(d) ==
  /\ ~HasContract(d) /\ EntryOf(d) = {} /\ FreeIds = {}
  /\ \E i \in ReclaimIds :
       /\ Proceed(i, d, [pend EXCEPT ![i].status = "FAILED"], Count(rspPending - 1),
                  asked \ {pend[i].dst})
       /\ nextId' = (i + 1) % IdMod
  /\ UNCHANGED <<table, joined>>

-----------------------------------------------------------------------------
(* Keys, answers and timeouts.                                             *)

\* DMO_NotifyNewKeyAdded: "nothing to do" when no response is pending
KeyAdded(d) ==
  /\ IF rspPending = 0
       THEN UNCHANGED <<pend, rspPending, net>>
       ELSE \E i \in EntryOf(d) :
              /\ pend[i].status = "NO_KEY"
              /\ \/ Sent(pend, i, d, Count(rspPending - 1))
                 \/ NotSent([pend EXCEPT ![i].status = "PENDING"], Count(rspPending - 1))
  /\ UNCHANGED <<nextId, table, joined, asked>>

\* DMO_ProcessContractResponse with an SFC error: the entry of the original
\* request fails; the counter is left alone
ResponseError(m) ==
  /\ m \in net /\ m.type = "sfc" /\ net' = net \ {m}
  /\ IF m.id \in Used
       THEN /\ pend' = [pend EXCEPT ![m.id] = Entry(@.dst, "FAILED", 0)]
            /\ asked' = asked \ {pend[m.id].dst}
       ELSE UNCHANGED <<pend, asked>>
  /\ UNCHANGED <<rspPending, nextId, table, joined>>

\* The answer to a request that is still waiting
Accepted(m) == m.id \in Used /\ Waiting(m.id)

\* The entry of an answered request is erased, failed or not
Answered(i) == [pend EXCEPT ![i] = None]

\* DMO_ProcessContractResponse: an answer to an unknown request is ignored, one
\* to a failed request only erases it; a grant puts the contract in the table
\* unless that is full.  Contract or failure, the services are notified.
ContractResponse(m) ==
  /\ m \in net /\ m.type \in {"ok", "refused"} /\ net' = net \ {m}
  /\ pend' = Answered(m.id)
  /\ IF Accepted(m)
       THEN /\ rspPending' = Count(rspPending - 1)
            /\ table' = IF m.type = "ok" /\ ~TableFull
                          THEN table \cup {[dst |-> pend[m.id].dst, peer |-> m.peer]}
                          ELSE table
            /\ asked' = asked \ {pend[m.id].dst}
       ELSE UNCHANGED <<rspPending, table, asked>>
  /\ UNCHANGED <<nextId, joined>>

\* Mutant of Overdue: entries that wait for a key do not time out
OverdueSent == {i \in Used : pend[i].status = "PENDING" /\ pend[i].left = 0}

\* DMO_TimeoutContractReqs: the entries whose deadline this second passes
Overdue == {i \in Used : Waiting(i) /\ pend[i].left = 0}

\* A second passes: DMO_PerformOneSecondTasks
Tick ==
  /\ \E i \in Used : Waiting(i)
  /\ pend' = [i \in ReqId |->
                IF i \in Overdue THEN [pend[i] EXCEPT !.status = "FAILED"]
                ELSE IF i \in Used /\ pend[i].left > 0
                       THEN [pend[i] EXCEPT !.left = @ - 1] ELSE pend[i]]
  /\ rspPending' = Count(rspPending - Cardinality(Overdue))
  /\ asked' = asked \ {pend[i].dst : i \in Overdue}
  /\ UNCHANGED <<nextId, table, joined, net>>

-----------------------------------------------------------------------------
(* The contract table and the environment.                                 *)

\* DMO_setContract, by the System Manager (a write to a known contract is no step)
SetContract(d) ==
  /\ joined /\ ~TableFull
  /\ table' = table \cup {[dst |-> d, peer |-> d]} /\ asked' = asked \ {d}
  /\ UNCHANGED <<pend, rspPending, nextId, joined, net>>

\* DMO_deleteContract
DeleteContract(x) ==
  /\ x \in table /\ table' = table \ {x}
  /\ UNCHANGED <<pend, rspPending, nextId, joined, net, asked>>

\* DMO_Init, from DMAP_DLMO_ResetStack: s_ucContractReqID is not reset.  The
\* services learn of the reset itself (OnJoin); what was in flight is lost with
\* the keys.
StackReset ==
  /\ joined /\ joined' = FALSE
  /\ pend' = [i \in ReqId |-> None] /\ rspPending' = 0
  /\ table' = {} /\ net' = {} /\ asked' = {}
  /\ UNCHANGED nextId

Join == ~joined /\ joined' = TRUE
        /\ UNCHANGED <<pend, rspPending, nextId, table, net, asked>>

\* External: the System Manager answers; the network loses a message
SMAnswer(m, r) ==
  /\ m \in net /\ m.type = "req"
  /\ net' = (net \ {m}) \cup {Rsp(m.id, m.peer, r)}
  /\ UNCHANGED <<pend, rspPending, nextId, table, joined, asked>>

Lose(m) ==
  /\ m \in net /\ net' = net \ {m}
  /\ UNCHANGED <<pend, rspPending, nextId, table, joined, asked>>

Next ==
  \/ \E d \in Dst : \/ RequestDuplicate(d) \/ RequestAgain(d)
                    \/ RequestNew(d) \/ RequestReclaim(d)
                    \/ KeyAdded(d) \/ SetContract(d)
  \/ \E m \in net : \/ ResponseError(m) \/ ContractResponse(m) \/ Lose(m)
                    \/ \E r \in {"ok", "refused", "sfc"} : SMAnswer(m, r)
  \/ \E x \in table : DeleteContract(x)
  \/ Tick \/ StackReset \/ Join

Spec == Init /\ [][Next]_vars

\* The one-second task runs
FairSpec == Spec /\ WF_vars(Tick)

-----------------------------------------------------------------------------
(* Properties.                                                             *)

\* A destination has one entry in the request table: DMO_RequestNewContract finds
\* the entry of an earlier request, whatever its state, before it makes another.
UniqueDst ==
  \A i, j \in Used : pend[i].dst = pend[j].dst => i = j

\* "supposedly all contract requests receive an answer from the stack, either
\* success of failure" (LeaseMgmtSvc.cpp:682): a request that was accepted and
\* not answered is still in the table, where a timeout will answer it; no other
\* request takes its id.
Answerable == \A d \in asked : \E i \in EntryOf(d) : Waiting(i)

\* An answer names its request only by the uint8 id: a contract nevertheless ends
\* up in the table with the destination the System Manager set it up for, however
\* late the answer and however often ids were used again.
ContractMatches == \A x \in table : x.dst = x.peer

\* An accepted request is answered, by a contract, a failure or a reset, even if
\* its key never comes or every message is lost.
RequestAnswered == \A d \in Dst : d \in asked ~> d \notin asked

\* With g_ucContractRspPending = 0 there are "no contracts pending!" and a new key
\* leaves "nothing to do" (dmap_dmo.cpp:911-912): no request waits for its key then.
KeyAwaited ==
  (\E i \in Used : pend[i].status = "NO_KEY") => rspPending # 0

\* The DMO implements the contract service GwLeases is written against: a failed
\* entry is an idle destination, and every handler is one step of the service.
Service ==
  INSTANCE ContractService WITH
    phase <- [d \in Dst |->
                IF \E i \in EntryOf(d) : pend[i].status = "NO_KEY" THEN "noKey"
                ELSE IF \E i \in EntryOf(d) : pend[i].status = "PENDING" THEN "waiting"
                ELSE "idle"],
    held <- {x.dst : x \in table}

ImplementsService == Service!SvcSpec
=============================================================================
