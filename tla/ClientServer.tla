---------------------------- MODULE ClientServer ----------------------------
(***************************************************************************)
(* CClientServerService (Gateway/ClientServerSvc.{h,cpp}): hosts read and   *)
(* write attributes of devices, from a cache or through the ISA100 stack.  *)
(*                                                                         *)
(* The module composes three parts: the service's own maps of pending      *)
(* requests and cached answers; the message tracker, by the actions of     *)
(* MsgTracker; and the stack, by the actions of AslService, which AslTx    *)
(* implements.  Leases and contracts appear as GwLeases leaves them: a     *)
(* session has at most one lease here, and the usage count of a contract   *)
(* is the number of its leases.                                            *)
(*                                                                         *)
(* A session has a host that does not use a transaction id again while it  *)
(* waits for its confirm.  The confirm's data is abstracted to the         *)
(* incarnation of the contract that it came from.                          *)
(***************************************************************************)
EXTENDS Integers, FiniteSets, Sequences

CONSTANTS
    Contract,       \* contract ids
    SMContract,     \* the contract of the gateway to the System Manager
    Leased,         \* bound: the contracts that hosts have leases on
    Attr,           \* request data: type, object, attribute, indexes
    List,           \* the request data of getContractsAndRoutes
    Session,        \* session ids of the hosts; 0 is the gateway itself
    Txn,            \* transaction ids of the hosts
    MaxHandle,      \* bound: requests ever given to the stack
    Capacity,       \* entries of the tracker
    MaxAge,         \* m_MaxAge of the tracker
    MaxTime,        \* bound: the clock
    StackLife,      \* seconds that the stack keeps a request
    CacheLife,      \* m_nClientServerCacheTimeout
    MaxGen,         \* bound: incarnations of a contract id
    Revokes,        \* BOOLEAN: does the System Manager delete contracts in use
    Discards        \* BOOLEAN: does the stack drop requests in silence

ASSUME ParametersOK ==
    /\ SMContract \in Contract /\ Leased \subseteq Contract /\ List \in Attr
    /\ 0 \notin Session /\ 0 \notin Txn
    /\ {MaxHandle, MaxTime, CacheLife} \subseteq Nat /\ MaxGen \in Nat \ {0}
    /\ StackLife \in Nat /\ MaxAge \in Nat /\ StackLife <= MaxAge
    /\ Capacity \in Nat \ {0}
    /\ Revokes \in BOOLEAN /\ Discards \in BOOLEAN

Handle == 1..MaxHandle
Key == Contract \X Attr
ListKey == <<SMContract, List>>
NoKey == << >>
NoContract == 0

VARIABLES
    app,        \* m_ushAppHandle
    pending,    \* m_mapPendingReq
    cache,      \* m_mapCache: time and incarnation of each cached answer
    msgs, now,  \* the tracker and the clock
    asl,        \* the fate of each request in the stack
    on,         \* the contract incarnation a request was sent on
    valid,      \* the sessions that exist
    lease,      \* the contract of the session's lease
    live, gen,  \* the contract table: ids in use, their incarnation
    wait,       \* history: the request that a host's transaction waits for
    refused     \* history: the requests that the full tracker did not take

own == <<app, pending, cache>>
table == <<valid, lease, live, gen>>
history == <<wait, refused>>
vars == <<own, msgs, now, asl, on, table, history>>

Tracker == INSTANCE MsgTracker WITH Session <- Session \cup {0}, Txn <- Txn \cup {0}
Asl == INSTANCE AslService

NotCached == [rx |-> -1]

\* CSData::IsValid
IsValid(k) == cache[k] # NotCached /\ now - cache[k].rx <= CacheLife

\* m_nUsageCount of a contract counts these.
Users(c) == {s \in Session : lease[s] = c}

-----------------------------------------------------------------------------
Init ==
    /\ app = 0
    /\ pending = [h \in Handle |-> NoKey]
    /\ cache = [k \in Key |-> NotCached]
    /\ Tracker!Init
    /\ Asl!Init
    /\ on = [h \in Handle |-> << >>]
    /\ valid = Session
    /\ lease = [s \in Session |-> NoContract]
    /\ live = Contract
    /\ gen = [c \in Contract |-> 1]
    /\ wait = [s \in Session |-> [t \in Txn |-> 0]]
    /\ refused = {}

(***************************************************************************)
(* From the host to the device                                             *)
(***************************************************************************)

\* CGwUAP::SendRequestToASL: the request goes to the stack; whether the
\* tracker has room for it is only logged.
SendRequestToASL(k, s, t) ==
    LET h == app + 1 IN
    /\ app < MaxHandle
    /\ k[1] \in live
    /\ Asl!Submit(h)
    /\ Tracker!AddMessage(h, s, t)
    /\ app' = h
    /\ pending' = [pending EXCEPT ![h] = k]
    /\ on' = [on EXCEPT ![h] = <<k[1], gen[k[1]]>>]
    /\ refused' = IF Tracker!Full(msgs) THEN refused \cup {h} ELSE refused

\* ProcessUserRequest of a buffered request with a fresh answer in the cache:
\* the host is confirmed at once and nothing else changes, as for a request
\* without a lease.
FromCache(s, a) ==
    /\ s \in valid
    /\ lease[s] # NoContract
    /\ IsValid(<<lease[s], a>>)

\* ProcessUserRequest that has to ask the device
AskDevice(s, t, a, buffered) ==
    /\ s \in valid
    /\ lease[s] # NoContract
    /\ wait[s][t] = 0
    /\ buffered => ~FromCache(s, a)
    /\ SendRequestToASL(<<lease[s], a>>, s, t)
    /\ wait' = [wait EXCEPT ![s][t] = app']
    /\ UNCHANGED <<cache, table>>

\* The gateway asks the System Manager for the list of contracts, unless it
\* or a host has already asked.
RequestContractList ==
    /\ \A h \in Handle : pending[h] # ListKey
    /\ SendRequestToASL(ListKey, 0, 0)
    /\ UNCHANGED <<cache, table, wait>>

(***************************************************************************)
(* From the device to the host                                             *)
(***************************************************************************)

Tracked(h) == Tracker!First(Tracker!OfHandle(msgs, h))

\* Mutant: the oldest entry of the tracker is removed.
SendConfirmOldest(i) ==
    /\ msgs[i].sess \in valid
    /\ msgs' = Tail(msgs)
    /\ wait' = [wait EXCEPT ![msgs[i].sess][msgs[i].txn] = 0]
    /\ UNCHANGED now

\* CGwUAP::SendConfirm and CGSAP::SendConfirm for the tracker's entry i: the
\* entry is removed by its session and transaction.
SendConfirm(i) ==
    /\ msgs[i].sess \in valid
    /\ Tracker!RemoveTxn(msgs[i].sess, msgs[i].txn)
    /\ wait' = [wait EXCEPT ![msgs[i].sess][msgs[i].txn] = 0]

\* clientServerConfirm( p_unAppHandle, ... )
clientServerConfirm(h) ==
    \/ \E i \in Tracked(h) : SendConfirm(i)
    \/ \E i \in Tracked(h) : /\ msgs[i].sess = 0
                             /\ Tracker!RemoveHandle(h)
                             /\ UNCHANGED wait
    \/ /\ Tracked(h) = {}
       /\ UNCHANGED <<msgs, now, wait>>

\* The response of the device.  A request whose contract is gone does not
\* match one any more (ASLDE_SearchOriginalRequest).
ProcessAPDU(h) ==
    /\ Asl!Answer(h)
    /\ on[h][1] \in live /\ on[h][2] = gen[on[h][1]]
    /\ IF pending[h] = NoKey
       THEN UNCHANGED <<pending, cache>>
       ELSE /\ cache' = [cache EXCEPT ![pending[h]] = [rx |-> now, gen |-> on[h][2]]]
            /\ pending' = [pending EXCEPT ![h] = NoKey]
    /\ clientServerConfirm(h)
    /\ UNCHANGED <<app, on, table, refused>>

\* Mutants: the request stays in the map; the host is not told.
ProcessISATimeoutKeeps(h) ==
    /\ Asl!Resolve({h}, {})
    /\ \/ \E i \in Tracked(h) : SendConfirm(i)
       \/ /\ \A i \in Tracked(h) : msgs[i].sess \notin valid
          /\ UNCHANGED <<msgs, now, wait>>
    /\ UNCHANGED <<own, on, table, refused>>
ProcessISATimeoutSilent(h) ==
    /\ Asl!Resolve({h}, {})
    /\ pending' = [pending EXCEPT ![h] = NoKey]
    /\ UNCHANGED <<app, cache, msgs, now, on, table, history>>

\* The stack gives up.  The gateway itself is no host: its entry stays in the
\* tracker until it expires.
ProcessISATimeout(h) ==
    /\ Asl!Resolve({h}, {})
    /\ pending' = [pending EXCEPT ![h] = NoKey]
    /\ \/ \E i \in Tracked(h) : SendConfirm(i)
       \/ /\ \A i \in Tracked(h) : msgs[i].sess \notin valid
          /\ UNCHANGED <<msgs, now, wait>>
    /\ UNCHANGED <<app, cache, on, table, refused>>

\* The stack drops a request without a timeout.
StackDiscards(h) ==
    /\ Discards
    /\ Asl!Resolve({}, {h})
    /\ UNCHANGED <<own, msgs, now, on, table, history>>

(***************************************************************************)
(* Leases, sessions and contracts                                          *)
(***************************************************************************)

\* Mutant: what is pending on the contract is not forgotten.
PurgeCache(c) ==
    /\ cache' = [k \in Key |-> IF k[1] = c THEN NotCached ELSE cache[k]]
    /\ UNCHANGED pending

Purge(c) ==
    /\ cache' = [k \in Key |-> IF k[1] = c THEN NotCached ELSE cache[k]]
    /\ pending' = [h \in Handle |-> IF pending[h] # NoKey /\ pending[h][1] = c
                                    THEN NoKey ELSE pending[h]]

\* OnLeaseDelete of the lease of s: the contract is in the table and nobody
\* else uses it.
OnLeaseDelete(s) ==
    IF lease[s] \in live /\ Users(lease[s]) = {s}
    THEN Purge(lease[s])
    ELSE UNCHANGED <<cache, pending>>

CreateLease(s, c) ==
    /\ s \in valid
    /\ lease[s] = NoContract
    /\ c \in live
    /\ lease' = [lease EXCEPT ![s] = c]
    /\ UNCHANGED <<own, msgs, now, asl, on, valid, live, gen, history>>

DeleteLease(s) ==
    /\ lease[s] # NoContract
    /\ OnLeaseDelete(s)
    /\ lease' = [lease EXCEPT ![s] = NoContract]
    /\ UNCHANGED <<app, msgs, now, asl, on, valid, live, gen, history>>

\* DispatchSessionDelete: first the leases, then the tracker.
DeleteSession(s) ==
    /\ s \in valid
    /\ OnLeaseDelete(s)
    /\ Tracker!ProcessSessionDelete(s)
    /\ lease' = [lease EXCEPT ![s] = NoContract]
    /\ valid' = valid \ {s}
    /\ wait' = [wait EXCEPT ![s] = [t \in Txn |-> 0]]
    /\ UNCHANGED <<app, asl, on, live, gen, refused>>

\* DMO_deleteContract erases the contract before the leases are told, so that
\* OnLeaseDelete does not find it and keeps what belongs to it.
DeleteContract(c) ==
    /\ c \in live
    /\ gen[c] < MaxGen
    /\ Revokes \/ (c # SMContract /\ Users(c) = {})
    /\ live' = live \ {c}
    /\ lease' = [s \in Session |-> IF lease[s] = c THEN NoContract ELSE lease[s]]
    /\ UNCHANGED <<own, msgs, now, asl, on, valid, gen, history>>

\* The System Manager gives the id out again, perhaps for another device.
AddContract(c) ==
    /\ c \notin live
    /\ live' = live \cup {c}
    /\ gen' = [gen EXCEPT ![c] = @ + 1]
    /\ UNCHANGED <<own, msgs, now, asl, on, valid, lease, history>>

\* The one-second pass of the stack keeps up with the clock.
Tick ==
    /\ \A i \in DOMAIN msgs :
          asl[msgs[i].handle] = "pending" => now - msgs[i].time < StackLife
    /\ Tracker!Tick
    /\ UNCHANGED <<own, asl, on, table, history>>

DropExpired ==
    /\ 0 \notin Tracker!DropCount(msgs, now)
    /\ Tracker!DropExpired
    /\ UNCHANGED <<own, asl, on, table, history>>

Next ==
    \/ \E s \in Session : DeleteLease(s) \/ DeleteSession(s)
    \/ \E s \in Session, t \in Txn, a \in Attr, b \in BOOLEAN : AskDevice(s, t, a, b)
    \/ RequestContractList
    \/ \E h \in Handle : ProcessAPDU(h) \/ ProcessISATimeout(h) \/ StackDiscards(h)
    \/ \E s \in Session, c \in Leased : CreateLease(s, c)
    \/ \E c \in Contract : DeleteContract(c) \/ AddContract(c)
    \/ Tick
    \/ DropExpired

Spec == Init /\ [][Next]_vars

(***************************************************************************)
(* The stack answers or gives up every request that it does not discard:   *)
(* RequestResolved of AslTx.                                               *)
(***************************************************************************)
FairSpec == Spec /\ \A h \in Handle : WF_vars(ProcessISATimeout(h))

-----------------------------------------------------------------------------
\* Type correctness: handles are given out in order, the tracker does not
\* exceed its capacity, and leases are on contracts of the table.
TypeOK ==
    /\ app \in 0..MaxHandle
    /\ pending \in [Handle -> Key \cup {NoKey}]
    /\ cache \in [Key -> [rx : 0..MaxTime, gen : 1..MaxGen] \cup {NotCached}]
    /\ Tracker!TypeOK
    /\ asl \in [Handle -> Asl!Fate]
    /\ \A h \in Handle : asl[h] = "idle" <=> h > app
    /\ on \in [Handle -> (Contract \X (1..MaxGen)) \cup {<< >>}]
    /\ valid \subseteq Session
    /\ lease \in [Session -> live \cup {NoContract}]
    /\ live \subseteq Contract
    /\ gen \in [Contract -> 1..MaxGen]
    /\ wait \in [Session -> [Txn -> Handle \cup {0}]]
    /\ refused \subseteq 1..app

\* Every end of a request takes its key out of m_mapPendingReq; only a request
\* that the stack discards in silence leaves it there.
PendingAsked ==
    \A h \in Handle : pending[h] # NoKey => asl[h] \in {"pending", "discarded"}

\* While a host waits for a request that the tracker took, the stack has not
\* resolved it and the tracker knows who asked: no confirm is lost to expiry,
\* to another host's confirm or to a deleted lease.
NoConfirmLost ==
    \A s \in Session, t \in Txn :
        LET h == wait[s][t] IN
        h # 0 /\ h \notin refused =>
            /\ asl[h] \in {"pending", "discarded"}
            /\ asl[h] = "pending" =>
                 \E i \in Tracked(h) : msgs[i].sess = s /\ msgs[i].txn = t

\* What a host is answered from the cache is an answer of the contract that its
\* lease is on, not of one that had the same id before (ClientServerSvc.h:134:
\* "Destination Addr:TSAPID identified by contract ID").  It needs contracts to
\* be deleted only after their leases (Revokes is FALSE).
CacheOwn ==
    \A s \in Session, a \in Attr :
        FromCache(s, a) => cache[<<lease[s], a>>].gen = gen[lease[s]]

\* A host is told the end of its request, unless the tracker was full or the
\* stack discarded it: "The stack guarantees to generate timeout
\* notification, CONFIRM's will be sent then" (MsgTracker.cpp:233).
HostConfirmed ==
    \A s \in Session, t \in Txn :
        (wait[s][t] # 0 /\ wait[s][t] \notin refused)
            ~> (wait[s][t] = 0 \/ asl[wait[s][t]] = "discarded")
=============================================================================
