# A TLA+ model of the ISA100.11a gateway

This directory specifies, model-checks (TLC) and proves (TLAPS) the part of the
ISA100.11a gateway (`AccessNode/IsaGw`) in which several parties share state
over time: host sessions, the leases they hold, the wireless contracts those
leases share, the requests for contracts that are outstanding with the System
Manager, the requests of hosts on their way through the Client/Server and bulk
transfer services, the tracker of messages that wait for an answer, and the
transmit queue of the application sub-layer below them.

Paths below are relative to `src/AccessNode/IsaGw/`.

## 1. Inventory of the system

The gateway is one single-threaded process with a main loop: it reads host
requests from TCP connections, APDUs from the ISA100 stack, and runs tasks once
per second (`Gateway/GwUAP.cpp:138-161`). There are no threads and no locks; the
difficulty is the order in which requests, answers, notifications, timeouts and
resets meet the shared tables.

| Component | State | Operations | Hard part |
|---|---|---|---|
| GSAP connections (`GSAP`, `GSAPList`, `TcpGSAP`) | sessions of a connection | parse, dispatch, confirm, close | a connection that closes takes its sessions with it |
| Sessions (`SessionMgmtSvc`) | `SessionArray[MAX_SESSIONS]` | create, renew, delete, expire | expiry against the validity test; leases of the session |
| Leases (`LeaseMgmtSvc`) | lists active, subscriber, in progress, pending delete | create, renew, delete, expire, contract notifications, unjoin | sharing of contracts, usage counts, pending deletes |
| DMO contracts (`ISA100/dmap_dmo`) | contract table, request table keyed by a byte, counter, next id | request, key added, answer, timeout, set, delete, reset | ids used again, late answers, counters that wrap |
| Gateway UAP (`GwUAP`) | GW->SM contract, join state | one-second tasks, notifications | the contract is shared with host leases |
| Message tracker (`MsgTracker`) | time-ordered array | add, find, renew, remove, expire | the early exit of the expiry scan |
| Client/Server (`ClientServerSvc`) | response cache, pending requests | request, answer, timeout, lease delete | cache entries shared by several hosts |
| Bulk transfer (`BulkTransferSvc`) | `RemUDOList`, a state machine per lease | open, transfer, close, answer, timeout, lease delete | answers after an abort; recovery in the gateway's own name |
| Publish/Subscribe, Alert, System report | caches, subscriber and alert lists | publish, watchdog, subscribe, report | lists that point to leases |
| Time, GwMgmt, Server, Tunnel, YDevList, InterfaceObjMgr | small tables | lookups, conversions | - |
| Application sub-layer (`aslde`, `aslsrvc`) | transmit queue, a sliding window per contract | send, concatenate, confirm, retry, time out, match a response | retries racing answers; windows that close; contracts replaced under the queue |
| Transport, network, security (`tlde`, `nlme`, `slme`) | key and route tables | protect, route, key update | key lifetimes |
| DMAP, ARMO, DPO | join state, alarm queues | join, alarms, provisioning | join retries |
| BackBone router | message, fragment and waiting queues | queue, match, reassemble | timeouts of fragments |
| Monitor host, translator, CGI, watchdog, schedulers, Shared | databases, files, sockets | - | separate processes, I/O |
| System Manager, Network Engine, web site | - | - | separate programs |
| `cpplib`, `AuxLibs` | - | - | vendored |

How they interact: a host request goes from `CGSAP` (which checks the session)
to a service of `CGwUAP`. `CLeaseMgmtService` reads and requests contracts by
calling the DMO; the DMO calls back (`UAP_NotifyAddContract`,
`UAP_NotifyContractFailure`, `UAP_NotifyContractDeletion` ->
`ContractNotification`), possibly in the middle of a request. Ending a session
calls the lease service and the tracker; renewing one cuts its leases. A reset
of the stack empties the DMO's tables and then calls `OnJoin(false)`.
A request to a device goes from a service through `CGwUAP::SendRequestToASL` to
the transmit queue and, with the host's session and transaction, into the
tracker; the answer (`ProcessAPDU`) or the timeout (`UAP_DataTimeout` ->
`ProcessISATimeout`) comes back with the handle, by which the service finds its
own record and the tracker the host. Deleting a lease tells the services
(`OnLeaseDelete`), which purge a cache or start a recovery.

What makes these parts correct: the usage count of a contract is the number of
its leases; a contract in use is not terminated; an active lease has a live
contract to its own device; no lease outlives its session, no session its
connection; every accepted request is answered; an answer is never attributed
to another request; a request given to the stack comes to one end, and the
host that asked is told of it, once and as the service it asked for; a window
closed by a timeout opens again; nothing waits for ever.

## 2. Modules

| Module | Models |
|---|---|
| `GwLeases` | sessions, leases, the GW->SM contract and their use of the DMO, composed: sessions, leases and contracts are one state because one handler changes all three |
| `MCGwLeases` | its TLC instance (symmetry of lease objects) |
| `ContractService` | abstract: what the DMO promises its users about contract requests |
| `DmoContracts` | detailed: the DMO's request table, ids and counters; implements `ContractService` |
| `MCDmoContracts` | its TLC instance (symmetry of destinations) |
| `MsgTracker` | the message tracker (also its own run module) |
| `AslService` | abstract: what the application sub-layer promises about a request |
| `AslTx` | detailed: the transmit queue with retries, timeouts and sliding windows; implements `AslService` |
| `ClientServer` | the Client/Server service, composed with the actions of `MsgTracker` and `AslService` |
| `BulkTransfer` | the bulk transfer service, over a stack that behaves as `AslService` |
| `MsgTracker_proofs` | theorems on the tracker |
| `GwLeases_proofs`, `GwSessions_proofs`, `GwContracts_proofs` | theorems on `GwLeases`: types; sessions; contracts |
| `DmoContracts_proofs`, `AslTx_proofs`, `ClientServer_proofs`, `BulkTransfer_proofs` | theorems on these modules, with the refinements of `ContractService` and `AslService` |

### GwLeases

A lease is a heap cell `r`; `list[r]` says which of the four `LeaseList`s of
`CLeaseMgmtService` holds it (`free`: none) and `lease[r]` its fields. `live`,
`sessExp`, `lastSess` are `SessionArray` and `m_nSessionIndTop`, `gsap` the
session lists of the connections. `dstOf` and `usage` are the DMO's contract
table with `m_nUsageCount`; `pend` its request table, reduced to one entry per
destination as `ContractService` allows; `smContract` is `SMContractID()`.
`net` holds the messages between the DMO and the System Manager, delivered in
any order.

One action is one handler of the main loop, all calls included: for instance
`OneSecondTasks` is `CheckExpireSessions` (with `ProcessSessionDelete` for every
expired session) followed by `CheckExpireLeases` on what is left. The one-second
tasks are two actions (`MaintainSMContract`, then `OneSecondTasks`) because
`due` lets messages in between: that only adds behaviours. `RemoveLeases`
computes what a whole pass of `deleteActiveLease` calls does: a set of leases
goes, the counts are lowered, and a termination is requested for each contract
whose count passes through 0 during the pass. Which lease of a contract is the
last, hence kept pending, is the only thing that depends on the order of the
list, and is a choice.

The System Manager (`SMAnswer`, `SMTerminate`, `SMRevoke`) is what its own sources do
to a gateway's contracts (`SCO.cpp`, `NetworkEngine.cpp`): it grants or refuses,
deletes a contract whose termination it received, and deletes one by itself when
the device has left or the contract has expired. It may also never do any of it: no
run or proof assumes that it answers or terminates. `DMO_setContract` would overwrite
a known contract with any destination (`dmap_dmo.cpp:382-400`); `SetContract` assumes
that the System Manager rewrites a contract only to the same one.

Abstracted: lease kinds to CLIENT (with BULK_CLIENT), SERVER (with ALERT) and
SUBSCRIBER (periodic); addresses and TSAPs to a destination; a destination is
that of an aperiodic contract from the gateway's port. Requests that fail
validation change nothing and are no step. Transaction ids, confirmations and
tunnel objects are left out.

### DmoContracts and ContractService

`pend` is `g_oPendingContractRspMap`, `rspPending` the byte
`g_ucContractRspPending`, `nextId` the static `s_ucContractReqID`; `asked` is a
history variable, the accepted requests that have not been answered. The
allocation of an id, with its wrap-around and reclaiming, is taken over in full.
`Settled` is a guard that the code does not have: the application sub-layer forgets
a request at the end of its lifetime (`aslde.cpp:452-462`), after which no answer is
dispatched to it, and it is assumed that the DMO's ids take longer to come round.
Without it an answer that is 256 requests late could be taken for another's
(`dmap_dmo.cpp:1038`).
`ContractService` has per destination a phase (idle, waiting for a key, waiting
for the System Manager) and the set of destinations with a contract; the
refinement mapping reads a failed entry as idle. `GwLeases` uses the DMO in
the form of this service.

### MsgTracker

`msgs` is `m_MessageList`. A renewal in a full array changes only the handle
(`RenewMessage`, "renew was partial"); otherwise the entry goes to the end.

### AslTx and AslService

`msg` is `g_oAslMsgListTx`, `contract` the contract objects of `nlme.cpp` with
their window (`crt` is `m_nCrtWndSize`, `inUse` `m_nInUseWndSize`, `succ` the
transactions since it last grew); `gen` tells two contract objects under one id
apart, as the `weak_ptr` of a message does. `conf` is the confirm that waits in
`g_astAPDUConf`. `ASLTask` is one turn of `ASLDE_ASLTask`: the confirm, then
`searchHighestPriority`, `concatenateAPDUs` and one packet, including the
messages without a contract that are given up on the way. The one-second pass
is one action per message with everything else waiting, because the window
changes from message to message. `sent` and `told` are history. The bandwidth
limit is an arbitrary set of delayed messages, the round-trip estimate an
arbitrary timeout of `RTOs`; confirms of the transport layer come within the
call that sends, as they do in this build. A response may come late and any
number of times. `Init` starts with a queue that is empty and windows that
earlier successes may have widened.

Left out of `AslTx`: the replacement of a queued message on a periodic contract
(`ASLDE_DiscardAPDU`, `aslsrvc.cpp:293-301`), since the gateway's requests go out on
aperiodic contracts; the update of a contract that exists by `NLME_AddDmoContract`
(`nlme.cpp:925-937`), which changes its parameters but not its window, while the
replacement of one by `NLME_setContract` is modelled (`Rewrites`); and the confirm
with `SFC_NO_CONTRACT` (`aslde.cpp:711-725`), which no layer of this build gives.

`AslService` has a fate per handle: a request is answered, fails with a
timeout, or is discarded in silence, at most one of these. The refinement
mapping of `AslTx` reads it off the queue and the history. Discarding is a
promise the code does not keep perfectly: see the limits below.

### ClientServer

`pending` and `cache` are `m_mapPendingReq` and `m_mapCache`; `msgs` is the
tracker and `asl` the stack, both changed only through the actions of their
modules (`INSTANCE`), so that `SendRequestToASL` is `Submit` and `AddMessage` at
once and its ignored refusal by a full tracker is visible (`refused`). A cache
key is a contract id and the request data; the cached data is abstracted to the
incarnation (`gen`) of the contract it came from, which is what tells the right
answer from another device's. `wait` is history: what each host's transaction
waits for. Requests that are refused or answered from the cache change nothing;
`FromCache` says when the latter happens. Tunnel requests are left out.

### BulkTransfer

`udo` is `RemUDOList`, one transfer per lease, with the state of the remote
object as the gateway knows it, the outstanding handle (`h`, 0 for none, `Lost` for
one whose request the stack dropped) and the number of blocks sent, up to `Blocks`.
`req` has the requests in the stack with their owner in the tracker: the host's
service, `gw` for the entries with session 0, `none` after a refusal by a full
tracker. There is one definition per `processState...` function, with one disjunct
per branch; branches for answers that no request of the state asks for are left
out, and `TypeOK` with TLC's deadlock check show that none is missed. The device may
answer anything its kind of request allows; data of a failed read, which
`processStateDLError` takes for a state, may be any state.

The stack is that of `AslService`: a request is answered (`ProcessAPDU`), times out
(`ProcessISATimeout`) or is dropped without a word (`StackDiscards`), because its
message fits no packet (`aslde.cpp:900-909`) or its answer has the wrong type
(`GwUAP.cpp:316-323`). A block or a close that names a lease of another session, or one
that has ended, erases the transfer (`requestNotOwner`): `FindLease` finds no lease
for that session (`BulkTransferSvc.cpp:256-265`, `:306-314`). `robbed` is history: the
live leases to which that happened.

A send fails only when the contract is gone: after the end of the lease
(`Recover`) or after a stack reset (`DeleteLease` with `up` false). While the lease
lives its contract does too (`ActiveLeaseHasContract`), and `ASLSRVC_AddGenericObject`
refuses for want of space only what exceeds its buffer of 65535 bytes
(`ISA100/config.h:52`, `aslsrvc.cpp:406`). The requests of a chain have a few bytes, at
most a file name of 255, so `SendNext` has no failing branch. Only a block of the host
can be too large; it is refused at once, before the transfer advances, and is no step.

## 3. Runs

Passing runs:

| Run | Question | Bounds |
|---|---|---|
| `MsgTracker` | Is the array in time order, and does `DropExpired` drop exactly the expired entries? | 3 slots, so that there is a middle, and a full array; clock to 3, age 1 |
| `LeasesSharing` | Do shared contracts keep their counts and leases under sharing, closing, revocation and reset, and is every lease pending delete waited for? | 3 leases, 2 sessions, 2 contract ids, 1 reset |
| `LeasesExpiry` | Do renewals and expiry in any order keep leases within sessions, and do expired sessions and overdue requests end? | 1 lease of any kind, periods 1 and 2, clock to 3, 1 loss, 1 reset |
| `LeasesSMContract` | Is the GW->SM contract id always good, whatever host leases share its contract? | 2 leases to the SM, 2 contract ids, 1 loss, 1 reset |
| `DmoRequests` | Are requests always answered and for the right device, and is the service implemented? | 2 destinations, 2 ids, 2 contracts, 2 messages in flight |
| `DmoReclaim` | Is a destination's entry unique when ids are reclaimed? | 3 destinations, 2 ids, table of 1 |
| `AslRequests` | Is the window's count exact, does a closed window open again, is each request told one end exactly once, and is `AslService` implemented? | 2 requests, window 2, 1 retry, lifetime 5, a contract with and one without a window |
| `AslContracts` | Is a place of the window lost, or a request told twice, under contracts deleted, made again and rewritten, and messages that expect no response or do not fit? | 2 messages, 2 incarnations, lifetime 4 |
| `AslIds` | Whose answer can a request be given, when ids come round and contracts are made again? | 3 requests, 2 request ids, 2 incarnations, late and repeated answers |
| `ClientServer` | Between service, tracker and stack, is any confirm lost or any cached answer foreign? | 2 hosts on one device, the gateway's polling, 3 requests, a tracker of 2, 2 incarnations |
| `BulkTransfer` | What can leave a transfer stuck, and is a host ever told of another service than it asked for? | 1 lease at a time, 3 requests in the stack, 2 blocks |

Three leases on one contract are the least with a last, a last-but-one and
another; two ids let an id be used again with another outstanding; a table of
one contract makes it full. Ids and session numbers only ever grow or are
compared, so more of them add no new case. Two messages are the least with one
that closes the window and one that waits behind it, and a retry, a failed send
and the lifetime can each end one of them first. A tracker of two entries is
full while a third request is on its way. Three handles let the answers to a
block and to a close be outstanding when the end of the lease starts a
recovery; transfers of different leases share nothing but the tracker, which
`TrackerFull` stands for. Leases do not meet in the question of `LeasesExpiry`, so one
of each kind is enough, with a clock that lets its period be renewed, cut and passed.
Three requests on two ids are the least with an id that comes round while the answer
to its first request is late. Deadlock is checked in the runs of `GwLeases`,
`DmoContracts`, `MsgTracker` and `BulkTransfer`; the other models stop when their
bounds on messages, handles and time are used up.

Fairness. `LeasesExpiry` assumes that the main loop runs the one-second tasks, and
nothing of the System Manager or the network.
`DmoRequests` assumes only the one-second task.
`AslRequests` assumes that the main loop (`GwApp.cpp:312-352`) keeps calling
`ASLDE_ASLTask` and the one-second pass, and nothing of the devices.
`ClientServer` and `BulkTransfer` assume that the stack resolves every request it
does not discard, which is `RequestResolved` of `AslRequests`. What they claim of a
host's confirm is claimed for requests that are not discarded.

### Disagreements between comments and code

`BulkRecovery` checks one property taken from a comment, and TLC shows a behaviour
of the code that breaks it: "If we are in recovery, p_pMSG == NULL"
(`BulkTransferSvc.cpp:806`), whereupon the recovery is to give up when the device
refuses. But `SendRequestToASL` enters the recovery's own requests into the
tracker as session 0, so the message is never NULL, the failing branch asks for
the state again, and with a device that keeps refusing it never ends.

The following have been checked in the same way. Each names the property, and
what to change in the configuration of a run to see it fail.

| Property | Configuration | The comment | What happens |
|---|---|---|---|
| `NoLeaseOnTerminated` | `LeasesExpiry` with `ContractId = {1}`, kinds CLIENT only | "CANNOT re-use a contract pending delete" (`LeaseMgmtSvc.cpp:486`) | an *expired* lease requests the termination without staying pending (`:658`): the next lease gets the dying contract |
| `InProgressAwaited` | `LeasesSharing` with `ContractId = {1}` | "all contract requests receive an answer" (`LeaseMgmtSvc.cpp:682`) | failures are dropped by `ContractNotification` (it tests the id before the branch at `:91`), refusals by `createLease` (`:541`): the lease waits for its 300 s timeout |
| `PendingDeleteEnds` | `LeasesExpiry` with `SMFairSpec`, kinds CLIENT, `Periods = {1}`, `MaxTime = 1` and `MaxLosses = 0` | a refused request "should re-try few (10-20) seconds later" (`LeaseMgmtSvc.cpp:486`), pending leases "will expire anyway" (`:1036`) | after a reset (or the loss of the termination) a lease pending delete stays for ever and has its device's requests refused, even if the System Manager carries out every termination it receives: the list has no timeout and nothing asks again. `PendingDeleteAwaited` says that only these strand one |
| `TerminateOnlyUnused` | `LeasesSharing` with `UsageMod = 2` | "no other leases use it" (`LeaseMgmtSvc.cpp:577`) | the count is a byte (`dmap_dmo.h:216`): beyond its width a contract in use is terminated |
| `KeyAwaited` | `DmoRequests` with `IdMod = CountMod = 256` | "no contracts pending!", "nothing to do" (`dmap_dmo.cpp:911-912`) | the counter drifts to 0 while a request waits for its key, which is then ignored |
| `WindowReopens` | `AslRequests` with `Kinds = {"req", "norsp"}` | "we have just cleared the pipe after a timeout" (`aslde.cpp:1279`) | a failed message that holds no place closes the window (`:548-551`) when nothing is outstanding to open it: requests on the contract wait for their lifetime |
| `CacheOwn` | `ClientServer` with `Revokes = TRUE` | "Destination Addr:TSAPID identified by contract ID" (`ClientServerSvc.h:134`) | `DMO_deleteContract` erases the contract before it notifies the leases (`dmap_dmo.cpp:442`), so `OnLeaseDelete` reads a usage of -1 and keeps the cache: when the id is given to another device within the cache timeout, a host gets the old device's answer |
| `HostConfirmed` without its clause on `robbed` | `BulkTransfer` | an orphan answer "isn't a problem": the lease was deleted "or the user himself requested a bulk abort" (`BulkTransferSvc.cpp:450-452`) | a request of another session that names the lease erases the transfer; the owner waits for a confirm that never comes |
| no transfer has `h = Lost`, the exception of `StuckOnlyByDiscard` | `BulkTransfer` | "The stack guarantees to generate timeout notification" (`MsgTracker.cpp:233`) | a request that the stack discards leaves its transfer behind, which refuses every open of the lease until a close from its host, or the end of the lease |

Smaller ones that the models show without a run of their own:

* the test for a lease pending delete also compares the local TSAP
  (`LeaseMgmtSvc.cpp:489`), which contracts do not depend on, so a lease from
  another TSAP gets the dying contract (`PendingDeleteFor`);
* a contract that outlived its leases, or that the System Manager wrote by
  itself, is re-used with a count of 0, which the log calls an inconsistency
  (`LeaseMgmtSvc.cpp:505`; `ReuseContract`);
* `renewLease` counts the new period from the creation of the lease and yet
  confirms it in full (`LeaseMgmtSvc.cpp:637`; `RenewLease`);
* `IsValidSession` meets expired sessions, because the call its comment relies on
  is commented out (`SessionMgmtSvc.cpp:125`, `:131`; `IsValidSession`);
* with every request id outstanding and the next id 0, a new request takes id 0
  without a failure notification for the old one (`dmap_dmo.cpp:1563`; `FreeIds`),
  which is why `Answerable` is claimed for no more destinations than ids;
* an APDU too large for a packet is cleared without a timeout
  (`aslde.cpp:900-909`), as is one whose answer has the wrong type
  (`GwUAP.cpp:316-323`): with `Fits = {TRUE, FALSE}` `RequestResolved` fails and the
  host is never confirmed; hence "discarded" in `AslService`;
* `concatenateAPDUs` compares contract ids, not contracts (`aslde.cpp:853`): with
  two priorities and a second contract a message of a deleted contract takes a
  place in the window of its successor that nobody frees (`NoSlotLeaked` with
  `Prios = {0, 1}`, `MaxMsg = 3` and two contracts);
* a request can be given the late answer to another: one that was asked on the same
  contract a multiple of 256 ids before or after, or on a contract that was made
  again since, whose ids start at random (`nlme.cpp:972`). `AnswersOwn` says that there
  is no other way; the code's check of type and object (`GwUAP.cpp:319-323`) catches
  some of these;
* "Should NEVER happen" (`ClientServerSvc.cpp:511`) and "should ALWAYS be in the
  map" (`:622`) do happen, after a lease deletion has purged the request;
* a request that a full tracker refuses is answered by the device but never
  confirmed to the host (`refused`), and the entries of the gateway's own
  requests stay in the tracker after a timeout until they expire;
* the tracker's age limit equals the lifetime of a request in the stack (300 s):
  `NoConfirmLost` needs the one-second pass to keep up with the clock;
* `requestBulkTransfer` and `requestBulkClose` on a lease that has ended erase the
  transfer that the gateway is recovering (`requestNotOwner`);
* the number of blocks is `m_unBulkSize / m_unBlockSize + 1`
  (`BulkTransferSvc.cpp:316`): a complete transfer of an exact multiple is closed
  as aborted, and a block that is sent again counts twice;
* a host that sends a second request before the confirm of the first loses that
  confirm (its answer is an orphan), which the comment at
  `BulkTransferSvc.cpp:450-452` does not expect; the model's hosts wait, except that
  they may close a transfer at any time and give up a confirm that cannot come.

## 4. Proofs

All theorems hold for every value of the constants that satisfies the
assumptions of the modules: numbers are naturals, the set of lease objects is
finite, the contract id 0 of `GwLeases` is not an id. What a theorem needs beyond
that is a named hypothesis of it.

* `MsgTracker_proofs`: `TrackerTypeCorrect`, `TrackerTimeOrdered` (order is
  inductive together with the type and "no entry is from the future"), and from
  them the action property `TrackerDropsExactlyExpired`.
* `GwLeases_proofs`: `LeasesTypeCorrect`, one step per action.
* `GwSessions_proofs`: `LeasesHaveSessions`, `LeasesEndWithSessions` and
  `SessionsOwned`, from `SessionInv`: the sessions in use are numbers already
  given out (without it a new session could inherit a lease with an old expiry),
  every lease has a session, and no lease outlives it.
* `GwContracts_proofs`: `ActiveLeasesHaveContracts` and `SMContractIsLive` from
  `ContractInv`, whose strengthening says that an answer in flight names no
  contract of the table and no two answers the same one (otherwise an answer
  could redirect a contract in use). `UsageCountsLeases` from `UsageInv`: a
  contract outside the table has no count and no lease but a client holds a
  contract; the count is the number of leases *modulo its width*.
  `OnlyUnusedTerminated` turns that into "no contract in use is terminated"
  under the hypothesis `Cardinality(Ref) < UsageMod`, which is needed (see the
  table of disagreements). `PendingDeletesAwaited` from `PendingInv`, which adds that
  the gateway is joined until the first reset: otherwise the termination that puts a
  lease on the list would not be sent.
* `DmoContracts_proofs`: `DmoTypeCorrect` and `DmoUniqueDst` from `TableInv`, for
  any constants. `DmoAnswerable`, `DmoContractMatches` and the refinement
  `DmoImplementsService` from `AnswerInv`, which adds that the entry an answer in
  flight names is for the destination it was asked for. They need `EnoughIds`, at
  most as many destinations as request ids: with every id in use and the next id
  0, a request takes id 0 without failing the request that had it (`FreeIds`).
  The searches for an id are shown to find one by the well-ordering of the
  naturals.
* `AslTx_proofs`: every step of the queue is brought to one of a few shapes
  (`TaskStep`, `MsgStep`, `ContractStep`, put together in `StepShape`), from which
  the invariants follow without the details of the handlers. `AslToldOnce` and
  the refinement `AslImplementsService` come from `ToldInv` (what is queued has not
  been told of) and hold for any constants. The windows need `QueueInv` (which
  messages hold a place, and that a message knows no contract later than the
  present one) and `WindowInv` (no place leaks, the count is the number of
  outstanding requests, a closed window has one). `AslNoSlotLeaked` has the hypothesis `NoStaleSend`:
  one priority, or no contract made again, because `concatenateAPDUs` compares
  only contract ids (`aslde.cpp:853`, see above). `AslSlotsAccounted` also excludes
  the rewriting of a contract in use, which resets the count, and
  `AslWindowReopens` messages without a response, whose retry closes the window
  with nothing outstanding. `AslAnswersOwn` has no hypothesis. It
  rests on `IdInv`: the id of a request is the one before it on the same contract
  object plus the number of requests between the two, modulo the number of ids, and
  the contract's next id follows in the same way; so two requests of one incarnation
  have the same id only if a multiple of that number was asked between them.
* `ClientServer_proofs`: `ConfirmInv` relates the three parts of the composition.
  The tracker has one entry per handle; the entry of a host is for the request
  that its transaction waits for, so that the entry which `SendConfirm` removes by
  session and transaction is the one found by handle; an entry whose request is
  in the stack is no older than the stack keeps requests, so that `DropExpired`
  leaves it; and a transaction that waits has its entry. `Kept` describes all
  removals from the array at once. It gives `CSTypeCorrect` and `CSNoConfirmLost`
  with no hypothesis but that of the module that the stack's lifetime does not
  exceed the tracker's age limit (`ParametersOK`), and `CSPendingAsked`.
  `CSCacheOwn` adds `CacheInv`: what is cached or pending belongs to the present
  incarnation of a contract with a lease, or of the one to the System Manager. It
  needs `Revokes` to be FALSE (see the table of disagreements).
* `BulkTransfer_proofs`: `BulkTypeCorrect`, `BulkStuckOnlyByDiscard`,
  `BulkConfirmMatches` and `BulkOrphanRecovers` from `BulkInv`, for any constants:
  no two transfers have the same request, a host owns the request of a transfer
  only while its lease exists and only for the service that the state stands for,
  and while a transfer is idle or downloading the gateway asks for nothing but its
  state.

With these, every safety property that a passing run checks, invariants, action
properties and the two refinements, is a theorem; the inductive invariants were
first checked by TLC on the instances of the runs. Where a theorem has a
hypothesis, the configuration of the run that checks its property satisfies it.

Model-checked only: the liveness properties `ExpiredSessionEnds`, `OverdueRequestEnds`, `RequestAnswered`, `RequestResolved`,
`WindowRecovers` and `HostConfirmed`, because TLAPS has no support for fairness
and ENABLED here, and the disagreements of section 3, which are counterexamples.

## 5. Not modelled, and why

Publish/Subscribe, alerts, system reports and the BackBone queues are left for
later (below). Encodings, cryptography, configuration, logging and
sockets have no state that the properties speak of. The System Manager is a
separate program and appears as an environment that may answer, refuse, terminate,
revoke or say nothing; so do the devices. `ProcessUserRequest` writes a transaction id
through an iterator that `deleteActiveLease` has erased (`LeaseMgmtSvc.cpp:987`),
and `apply` a state through one that `cleanupUDO` has erased
(`BulkTransferSvc.cpp:428`): undefined behaviour on freed list memory that the
models do not show; both are listed under `hazards`. The first needs transaction ids.
The second needs a request of one byte to be refused on a live contract, which the
stack does not do (see `BulkTransfer`). Handles are a
uint16 in the code and do not wrap in the models: the stale handle of a transfer
whose request was discarded, met by a new request with the same handle 65535 requests
later, is not covered (`BulkTransfer` gives it the value `Lost`). Callbacks of the stack that
queue new messages in the middle of its own pass are not modelled.

## 6. Plan

Done: sessions, leases and contracts; the DMO's request table and its abstract
service; the message tracker; the transmit queue and its abstract service;
Client/Server over tracker and stack; bulk transfers; all the safety properties
of these modules proved.

1. `PublishSubscribe` and `Alert`: subscriber lists that point to lease objects.
2. BackBone message queue and fragment table; the join state machine of the DMAP.
