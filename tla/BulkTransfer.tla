---------------------------- MODULE BulkTransfer ----------------------------
(***************************************************************************)
(* CBulkTransferService (Gateway/BulkTransferSvc.{h,cpp}): a host downloads *)
(* a bulk item into an upload/download object (UDO) of a device.  A        *)
(* request of the host (open, transfer, close) is a chain of requests to   *)
(* the device; after a failure the gateway asks the object for its state   *)
(* and resets it on its own account.                                       *)
(*                                                                         *)
(* The stack ends every request as AslService has it: with an answer, with *)
(* a timeout, or by dropping it without a word.  The tracker is reduced to *)
(* the owner of each request: the host's service, "gw" for the entry with  *)
(* session 0 and transaction 0, or "none" when the tracker was full.  The  *)
(* handle of a request that has ended is used again at once.               *)
(*                                                                         *)
(* A host waits for its confirm before its next request, except that it    *)
(* may close a transfer at any time and gives up waiting for a confirm     *)
(* that can no longer come; after a transfer was aborted it only closes.   *)
(* Requests that are refused and change nothing are no steps.              *)
(***************************************************************************)
EXTENDS Integers, FiniteSets

CONSTANTS
    Lease,          \* lease ids; a device object has a lease of its own
    MaxHandle,      \* bound: requests in the stack at a time
    Blocks,         \* m_unBulkSize / m_unBlockSize + 1
    TrackerFull     \* BOOLEAN: may the tracker refuse a message

ASSUME BulkConstants ==
    MaxHandle \in Nat /\ Blocks \in Nat \ {0} /\ TrackerFull \in BOOLEAN

Handle == 1..MaxHandle
Lost == MaxHandle + 1       \* m_unAppHandle of a request that was dropped
Svc == {"open", "transfer", "close"}
Read == {"maxBlock", "maxSize", "state"}
Exec == {"setFile", "start", "data", "end", "abort"}
Write == {"apply", "reset"}

\* E_UDO_STATE, and the states that a transfer is kept in
UdoState == {"idle", "downloading", "uploading", "applying", "dlComplete",
             "ulComplete", "dlError", "ulError"}
KeptState == {"idle", "downloading", "applying", "dlComplete", "dlError"}

NoReq == [kind |-> "none"]
NoUdo == [st |-> "none"]
NotTold == [svc |-> "none", as |-> "none"]

VARIABLES
    udo,        \* RemUDOList: the transfer of each lease
    req,        \* the requests in the stack and their owners in the tracker
    leased,     \* the leases that exist
    wait,       \* the service whose confirm the host of the lease waits for
    opened,     \* the leases whose host may send the next block
    told,       \* the last confirm: the service asked for and the one confirmed
    robbed      \* the leases whose transfer another session had erased

vars == <<udo, req, leased, wait, opened, told, robbed>>
host == <<wait, opened, told>>

Current(h) == {l \in Lease : udo[l] # NoUdo /\ udo[l].h = h}
Free == {h \in Handle : req[h] = NoReq}
Least(S) == CHOOSE h \in S : \A k \in S : h <= k

\* AddMessage for o
Tracked(o) == IF TrackerFull THEN {o, "none"} ELSE {o}

\* FindMessage finds the request: p_pMSG # NULL.
HasMsg(h) == req[h].own # "none"

Init ==
    /\ udo = [l \in Lease |-> NoUdo]
    /\ req = [h \in Handle |-> NoReq]
    /\ leased = {}
    /\ wait = [l \in Lease |-> "none"]
    /\ opened = {}
    /\ told = [l \in Lease |-> NotTold]
    /\ robbed = {}

(***************************************************************************)
(* What a handler does with the transfer of l whose request h is resolved  *)
(***************************************************************************)

cleanupUDO(l, h) ==
    /\ udo' = [udo EXCEPT ![l] = NoUdo]
    /\ req' = [req EXCEPT ![h] = NoReq]

\* The next request of a chain, for the same owner (RenewMessage)
SendNext(l, h, kind, st) ==
    /\ req' = [req EXCEPT ![h].kind = kind]
    /\ udo' = [udo EXCEPT ![l].st = st]

\* A request of the recovery.  It cannot be sent when the contract has gone,
\* which it may have once the lease has ended.
Recover(l, h, kind, o, st) ==
    \/ /\ req' = [req EXCEPT ![h] = [kind |-> kind, own |-> o]]
       /\ udo' = [udo EXCEPT ![l].st = st]
    \/ l \notin leased /\ cleanupUDO(l, h)

SendOwn(l, h, kind, st) == \E o \in Tracked("gw") : Recover(l, h, kind, o, st)

\* The transfer waits for the next request of the host.
Await(l, h, st) ==
    /\ req' = [req EXCEPT ![h] = NoReq]
    /\ udo' = [udo EXCEPT ![l].st = st, ![l].h = 0]

\* Mutant: the state is not asked for.
askStateNot(l, h) == Await(l, h, udo[l].st)

askState(l, h) == SendOwn(l, h, "state", udo[l].st)

\* Mutant: the states of an upload are reset as well.
tryResetUploads(l, h, st) ==
    CASE st = "downloading" -> SendOwn(l, h, "abort", "dlError")
      [] st \in {"idle", "applying"} -> cleanupUDO(l, h)
      [] OTHER -> SendOwn(l, h, "reset", st)

tryReset(l, h, st) ==
    CASE st = "downloading" -> SendOwn(l, h, "abort", "dlError")
      [] st \in {"dlComplete", "dlError"} -> SendOwn(l, h, "reset", st)
      [] OTHER -> cleanupUDO(l, h)

\* confirmBulkOpen, confirmBulkTransfer, confirmBulkClose (svc) to the owner of
\* the request; the gateway itself is not a session.
Confirm(l, h, svc, status) ==
    IF req[h].own \in Svc
    THEN /\ told' = [told EXCEPT ![l] = [svc |-> req[h].own, as |-> svc]]
         /\ wait' = [wait EXCEPT ![l] = "none"]
         /\ opened' = IF svc = "open" /\ status = "ok" THEN opened \cup {l}
                      ELSE IF svc = "transfer" /\ status # "aborted" THEN opened
                      ELSE opened \ {l}
    ELSE UNCHANGED host

Silent == UNCHANGED host

(***************************************************************************)
(* Requests of the host                                                    *)
(***************************************************************************)

Ask(l, svc, kind, u) ==
    /\ l \in leased
    /\ Free # {}
    /\ \E o \in Tracked(svc) : req' = [req EXCEPT ![Least(Free)] = [kind |-> kind, own |-> o]]
    /\ udo' = [udo EXCEPT ![l] = u]
    /\ wait' = [wait EXCEPT ![l] = svc]
    /\ told' = [told EXCEPT ![l] = NotTold]

requestBulkOpen(l) ==
    /\ udo[l] = NoUdo
    /\ Ask(l, "open", "maxBlock", [st |-> "idle", h |-> Least(Free), cur |-> 0])
    /\ opened' = opened \ {l}
    /\ robbed' = robbed \ {l}
    /\ UNCHANGED leased

\* m_unCurrentBlock is only ever compared with Blocks.
requestBulkTransfer(l) ==
    /\ udo[l] # NoUdo
    /\ l \in opened
    /\ wait[l] = "none" \/ udo[l].h = Lost
    /\ Ask(l, "transfer", "data",
           [udo[l] EXCEPT !.h = Least(Free), !.cur = IF @ < Blocks THEN @ + 1 ELSE @])
    /\ UNCHANGED <<leased, opened, robbed>>

\* A block or a close for a lease that the session of the request has not is
\* refused, and the transfer is dropped: the host's own after its lease has ended,
\* while the gateway recovers it, and the one of a lease that another session has.
requestNotOwner(l) ==
    /\ udo[l] # NoUdo
    /\ udo' = [udo EXCEPT ![l] = NoUdo]
    /\ robbed' = robbed \cup ({l} \cap leased)
    /\ UNCHANGED <<req, leased, host>>

\* Mutant: endDownload does not advance the state.
EndedStateKept(u) == u.st

\* The state that endDownload takes for the device's
EndedState(u) == IF u.cur >= Blocks THEN "dlComplete" ELSE "dlError"

requestBulkClose(l) ==
    /\ udo[l] # NoUdo
    /\ wait[l] # "close" \/ udo[l].h = Lost
    /\ Ask(l, "close", IF udo[l].cur >= Blocks THEN "end" ELSE "abort",
           [udo[l] EXCEPT !.h = Least(Free), !.st = EndedState(udo[l])])
    /\ opened' = opened \ {l}
    /\ UNCHANGED <<leased, robbed>>

(***************************************************************************)
(* Answers of the device                                                   *)
(***************************************************************************)

Answers(kind) ==
    CASE kind = "state"   -> UdoState \cup {"error"}
      [] kind = "maxSize" -> {"ok", "small", "error"}
      [] kind = "setFile" -> {"ok", "refused", "error"}
      [] kind = "data"    -> {"ok", "invalid", "error"}
      [] OTHER            -> {"ok", "error"}

processStateIdle(l, h, a) ==
    LET k == req[h].kind IN
    /\ udo[l].st = "idle"
    /\ \/ k \in {"setFile", "start", "maxBlock", "maxSize"} /\ ~HasMsg(h)
             /\ cleanupUDO(l, h) /\ Silent
       \/ k \in Exec /\ HasMsg(h) /\ a = "error"
             /\ Confirm(l, h, "open", "fail") /\ askState(l, h)
       \/ k = "setFile" /\ HasMsg(h) /\ a = "refused"
             /\ Confirm(l, h, "open", "fail") /\ cleanupUDO(l, h)
       \/ k = "setFile" /\ HasMsg(h) /\ a = "ok"
             /\ SendNext(l, h, "start", "idle") /\ Silent
       \/ k = "start" /\ HasMsg(h) /\ a = "ok"
             /\ Confirm(l, h, "open", "ok") /\ Await(l, h, "downloading")
       \/ k \in Read /\ HasMsg(h) /\ a \in {"error", "small"}
             /\ Confirm(l, h, "open", "fail") /\ cleanupUDO(l, h)
       \/ k = "maxBlock" /\ HasMsg(h) /\ a = "ok"
             /\ SendNext(l, h, "maxSize", "idle") /\ Silent
       \/ k = "maxSize" /\ HasMsg(h) /\ a = "ok"
             /\ \E next \in {"setFile", "start"} : SendNext(l, h, next, "idle")
             /\ Silent
       \/ k = "state" /\ ~HasMsg(h) /\ a = "error" /\ cleanupUDO(l, h) /\ Silent
       \/ k = "state" /\ a # "error" /\ tryReset(l, h, a) /\ Silent

processStateDownload(l, h, a) ==
    LET k == req[h].kind IN
    /\ udo[l].st = "downloading"
    /\ \/ k \in Exec /\ ~HasMsg(h) /\ cleanupUDO(l, h) /\ Silent
       \/ k \in Exec /\ HasMsg(h) /\ a \in {"ok", "invalid"}
             /\ Confirm(l, h, "transfer", a) /\ Await(l, h, "downloading")
       \/ k \in Exec /\ HasMsg(h) /\ a = "error"
             /\ Confirm(l, h, "transfer", "aborted") /\ askState(l, h)
       \/ k \in Read
             /\ tryReset(l, h, IF a = "error" THEN "downloading" ELSE a) /\ Silent

\* The answer to a reset meets the default case and the state is asked again.
processStateDowldCompl(l, h, a) ==
    LET k == req[h].kind IN
    /\ udo[l].st = "dlComplete"
    /\ \/ k \in Exec /\ ~HasMsg(h) /\ cleanupUDO(l, h) /\ Silent
       \/ k \in Exec /\ HasMsg(h) /\ a = "ok"
             /\ SendNext(l, h, "apply", "applying") /\ Silent
       \/ (k \in Write \/ (k \in Exec /\ HasMsg(h) /\ a = "error"))
             /\ Confirm(l, h, "close", "fail") /\ askState(l, h)
       \/ k \in Read
             /\ tryReset(l, h, IF a = "error" THEN "dlComplete" ELSE a) /\ Silent

processStateApply(l, h, a) ==
    LET k == req[h].kind IN
    /\ udo[l].st = "applying"
    /\ \/ k \in Write /\ ~HasMsg(h) /\ cleanupUDO(l, h) /\ Silent
       \/ k \in Write /\ HasMsg(h) /\ a = "ok"
             /\ Confirm(l, h, "close", "ok") /\ cleanupUDO(l, h)
       \/ k \in Write /\ HasMsg(h) /\ a = "error"
             /\ Confirm(l, h, "close", "fail") /\ askState(l, h)
       \/ k \in Read
             /\ tryReset(l, h, IF a = "error" THEN "applying" ELSE a) /\ Silent

\* The data of a failed read is taken for the state: it may be anything.
processStateDLError(l, h, a) ==
    LET k == req[h].kind IN
    /\ udo[l].st = "dlError"
    /\ \/ k \in Exec \cup Write /\ ~HasMsg(h) /\ a = "error"
             /\ cleanupUDO(l, h) /\ Silent
       \/ k \in Exec \cup Write /\ HasMsg(h) /\ a = "error"
             /\ Confirm(l, h, "close", "fail") /\ askState(l, h)
       \/ k \in Write /\ a = "ok"
             /\ Confirm(l, h, "close", "ok") /\ cleanupUDO(l, h)
       \/ k \in Exec /\ HasMsg(h) /\ a = "ok"
             /\ Recover(l, h, "reset", req[h].own, "dlError") /\ Silent
       \/ k \in Exec /\ ~HasMsg(h) /\ a = "ok"
             /\ SendOwn(l, h, "reset", "dlError") /\ Silent
       \/ k \in Read
             /\ \E st \in IF a = "error" THEN UdoState ELSE {a} : tryReset(l, h, st)
             /\ Silent

\* An orphan: the transfer is gone or has gone on with another request.
Orphan(h) ==
    /\ Current(h) = {}
    /\ req' = [req EXCEPT ![h] = NoReq]
    /\ UNCHANGED <<udo, host>>

ProcessAPDU(h) ==
    /\ req[h] # NoReq
    /\ \/ Orphan(h)
       \/ \E l \in Current(h), a \in Answers(req[h].kind) :
             \/ processStateIdle(l, h, a)
             \/ processStateDownload(l, h, a)
             \/ processStateDowldCompl(l, h, a)
             \/ processStateApply(l, h, a)
             \/ processStateDLError(l, h, a)
    /\ UNCHANGED <<leased, robbed>>


TimedOut(l, h) ==
    /\ Confirm(l, h, CASE udo[l].st = "idle" -> "open"
                       [] udo[l].st = "downloading" -> "transfer"
                       [] OTHER -> "close", "fail")
    /\ cleanupUDO(l, h)

ProcessISATimeout(h) ==
    /\ req[h] # NoReq
    /\ Orphan(h) \/ \E l \in Current(h) : TimedOut(l, h)
    /\ UNCHANGED <<leased, robbed>>

\* A message that does not fit into the buffer of the contract is cleared, and an
\* answer of another type than the request is passed over: the service is not
\* told, and the transfer keeps the handle of a request that no longer exists.
StackDiscards(h) ==
    /\ req[h] # NoReq
    /\ req' = [req EXCEPT ![h] = NoReq]
    /\ udo' = [l \in Lease |-> IF l \in Current(h) THEN [udo[l] EXCEPT !.h = Lost] ELSE udo[l]]
    /\ UNCHANGED <<leased, host, robbed>>

(***************************************************************************)
(* Leases.  A lease ends by request, by expiry, with its session or with   *)
(* its contract; after a stack reset (~up) nothing can be sent any more.   *)
(***************************************************************************)

CreateLease(l) ==
    /\ l \notin leased
    /\ udo[l] = NoUdo
    /\ leased' = leased \cup {l}
    /\ UNCHANGED <<udo, req, host, robbed>>

\* Mutant: the transfer of the lease is not looked for.
OnLeaseDeleteNot(l, up) == UNCHANGED <<udo, req>>

\* The request that was outstanding stays in the stack as an orphan.
OnLeaseDelete(l, up) ==
    \/ /\ udo[l] # NoUdo
       /\ up /\ udo[l].st \in {"downloading", "dlComplete", "dlError"}
       /\ Free # {}
       /\ \E o \in Tracked("gw") : req' = [req EXCEPT ![Least(Free)] =
             [kind |-> IF udo[l].st = "downloading" THEN "abort" ELSE "reset", own |-> o]]
       /\ udo' = [udo EXCEPT ![l].h = Least(Free),
                             ![l].st = IF @ = "downloading" THEN "dlError" ELSE @]
    \/ /\ udo[l] # NoUdo => ~up \/ udo[l].st \in {"idle", "applying"}
       /\ udo' = [udo EXCEPT ![l] = NoUdo]
       /\ UNCHANGED req

DeleteLease(l, up) ==
    /\ l \in leased
    /\ OnLeaseDelete(l, up)
    /\ leased' = leased \ {l}
    /\ wait' = [wait EXCEPT ![l] = "none"]
    /\ opened' = opened \ {l}
    /\ told' = [told EXCEPT ![l] = NotTold]
    /\ robbed' = robbed \ {l}

Next ==
    \/ \E l \in Lease : requestBulkOpen(l) \/ requestBulkTransfer(l) \/ requestBulkClose(l)
                       \/ requestNotOwner(l) \/ CreateLease(l)
    \/ \E l \in Lease, up \in BOOLEAN : DeleteLease(l, up)
    \/ \E h \in Handle : ProcessAPDU(h) \/ ProcessISATimeout(h) \/ StackDiscards(h)

Spec == Init /\ [][Next]_vars

(***************************************************************************)
(* A request that the stack does not discard is answered or times out:     *)
(* RequestResolved of AslTx.                                               *)
(***************************************************************************)
FairSpec == Spec /\ \A h \in Handle : WF_vars(ProcessAPDU(h) \/ ProcessISATimeout(h))

-----------------------------------------------------------------------------
\* Type correctness: a transfer that is kept is in a state whose answers the
\* service can process.
TypeOK ==
    /\ udo \in [Lease -> [st : KeptState, h : Handle \cup {0, Lost}, cur : 0..Blocks] \cup {NoUdo}]
    /\ req \in [Handle -> [kind : Read \cup Exec \cup Write, own : Svc \cup {"gw", "none"}]
                          \cup {NoReq}]
    /\ leased \subseteq Lease
    /\ wait \in [Lease -> Svc \cup {"none"}]
    /\ opened \subseteq leased
    /\ robbed \subseteq leased

\* A transfer refuses every further open of its lease ("transfer in progress for
\* lease id").  Nothing else than a request that the stack discarded leaves one
\* behind that nobody goes on with: it has a request in the stack, or its host
\* was told that the last one went well and may send the next block.
StuckOnlyByDiscard ==
    \A l \in Lease : udo[l] # NoUdo /\ udo[l].h # Lost =>
        \/ udo[l].h # 0 /\ req[udo[l].h] # NoReq
        \/ udo[l].h = 0 /\ udo[l].st = "downloading" /\ l \in opened /\ wait[l] = "none"

\* However requests, recoveries, aborts and timeouts interleave, a host gets
\* the confirm of the service that it asked for.
ConfirmMatches == \A l \in Lease : told[l].svc = told[l].as

\* What goes on after the end of the lease is the gateway's own recovery: it
\* has a request in the stack, if the stack did not discard it, and no host will
\* be told of its end.
OrphanRecovers ==
    \A l \in Lease \ leased : udo[l] # NoUdo =>
        udo[l].h # 0 /\ (udo[l].h = Lost \/ req[udo[l].h].own \notin Svc)

\* A host whose request the tracker knows is confirmed, unless it closes the
\* transfer, the lease ends, the stack discards the request or another session
\* names the lease.
HostConfirmed ==
    \A l \in Lease : \A svc \in Svc :
        (/\ wait[l] = svc
         /\ udo[l] # NoUdo /\ udo[l].h \in Handle /\ req[udo[l].h].own = svc)
            ~> wait[l] # svc \/ l \in robbed \/ (udo[l] # NoUdo /\ udo[l].h = Lost)

-----------------------------------------------------------------------------
(* What a comment of the code says and the code does not do.               *)

\* "If we are in recovery, p_pMSG == NULL" (BulkTransferSvc.cpp:806), so that
\* the recovery gives up when the device refuses an abort or a reset: the
\* state is not asked for again.
RecoveryGivesUp ==
    [][\A l \in Lease :
         udo[l] # NoUdo /\ udo[l].h \in Handle /\ udo[l].st = "dlError"
           /\ req[udo[l].h].kind \in {"abort", "reset"} /\ req[udo[l].h].own \notin Svc
           => ~ (udo'[l] # NoUdo /\ udo'[l].h \in Handle /\ req'[udo'[l].h].kind = "state")]_vars
=============================================================================
