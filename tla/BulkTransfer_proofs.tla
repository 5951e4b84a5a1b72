------------------------- MODULE BulkTransfer_proofs -------------------------
(***************************************************************************)
(* The bulk transfer service, for any number of leases, requests in the    *)
(* stack and blocks, with or without a full tracker: no transfer is left   *)
(* that nobody goes on with, unless the stack discarded its request; a     *)
(* host gets the confirm of the service it asked for; and what outlives    *)
(* its lease is the gateway's own recovery.                                *)
(***************************************************************************)
EXTENDS BulkTransfer, WellFoundedInduction, TLAPS

Udo == [st : KeptState, h : Handle \cup {0, Lost}, cur : 0..Blocks]
Request == [kind : Read \cup Exec \cup Write, own : Svc \cup {"gw", "none"}]

\* The service that a transfer in the state st is confirmed as.
SvcOf(st) == CASE st = "idle" -> "open" [] st = "downloading" -> "transfer" [] OTHER -> "close"

\* The request of a transfer: a host owns it only while the lease exists and only
\* for the service that the state stands for, a block only if it may send one;
\* while the transfer is idle or downloading, the gateway's own request is always
\* for the state.
RequestFits(l) ==
  LET r == req[udo[l].h] IN
  /\ r # NoReq
  /\ r.own \in Svc => /\ r.own = SvcOf(udo[l].st) /\ l \in leased
                      /\ udo[l].st = "downloading" => l \in opened
  /\ r.own = "gw" /\ udo[l].st \in {"idle", "downloading"} => r.kind = "state"

\* A transfer is sound: it waits for the next block of a host that may send it,
\* or has a fitting request, or its request was discarded; and if its host may
\* send the next block, it is downloading, and no other request than a block is in
\* the stack.
TransferOK(l) ==
  udo[l] # NoUdo =>
    /\ udo[l].h = 0 => udo[l].st = "downloading" /\ l \in opened /\ wait[l] = "none"
    /\ udo[l].h \in Handle => RequestFits(l)
    /\ l \in opened =>
         /\ udo[l].st = "downloading"
         /\ udo[l].h \in Handle => req[udo[l].h].kind = "data" /\ req[udo[l].h].own # "gw"

\* No two transfers have the same request.
OwnHandles ==
  \A l, k \in Lease :
    udo[l] # NoUdo /\ udo[k] # NoUdo /\ udo[l].h = udo[k].h /\ udo[l].h \in Handle => l = k

ToldType == told \in [Lease -> [svc : Svc \cup {"none"}, as : Svc \cup {"none"}]]

\* The inductive invariant.
BulkInv ==
  /\ TypeOK
  /\ ToldType
  /\ OwnHandles
  /\ \A l \in Lease : TransferOK(l)
  /\ ConfirmMatches

-----------------------------------------------------------------------------
(* Facts about the operators.                                              *)

\* The least free handle is a free handle.
LEMMA LeastFree ==
  ASSUME Free # {}
  PROVE  Least(Free) \in Free
<1> DEFINE R == {ss \in Nat \X Nat : ss[1] < ss[2]}
<1>1. IsWellFoundedOn(R, Nat)
  BY NatLessThanWellFounded, Zenon DEF OpToRel
<1>2. Free \subseteq Nat
  BY BulkConstants DEF Free, Handle
<1>3. PICK x \in Free : \A y \in Free : ~ (<<y, x>> \in R)
  <2> HIDE DEF R
  <2>1. QED
    BY <1>1, <1>2, WFMin
<1>4. \A y \in Free : ~ (y < x)
  BY <1>2, <1>3
<1>5. \A y \in Free : x <= y
  BY <1>2, <1>4
<1>6. QED
  BY <1>5 DEF Least

\* The type of a transfer and of a request, field by field.
LEMMA UdoType ==
  ASSUME TypeOK, NEW l \in Lease, udo[l] # NoUdo
  PROVE  /\ udo[l] \in Udo /\ udo[l].st \in KeptState
         /\ udo[l].h \in Handle \cup {0, Lost} /\ udo[l].cur \in 0..Blocks
<1>1. udo[l] \in Udo
  BY DEF TypeOK, Udo
<1>2. QED
  BY <1>1 DEF Udo

LEMMA ReqType ==
  ASSUME TypeOK, NEW h \in Handle, req[h] # NoReq
  PROVE  /\ req[h] \in Request /\ req[h].kind \in Read \cup Exec \cup Write
         /\ req[h].own \in Svc \cup {"gw", "none"}
<1>1. req[h] \in Request
  BY DEF TypeOK, Request
<1>2. QED
  BY <1>1 DEF Request

\* A tracker that may be full takes the message of o or none.
LEMMA TrackedOwner ==
  ASSUME NEW o, NEW p \in Tracked(o)
  PROVE  p = o \/ p = "none"
BY DEF Tracked

\* A transfer with the request h.
Live(l, h) == udo[l] # NoUdo /\ udo[l].h = h /\ req[h] # NoReq

\* What the invariant says of the request h.
LEMMA LiveFits ==
  ASSUME BulkInv, NEW l \in Lease, NEW h \in Handle, Live(l, h)
  PROVE  /\ req[h].own \in Svc => /\ req[h].own = SvcOf(udo[l].st) /\ l \in leased
                                  /\ udo[l].st = "downloading" => l \in opened
         /\ req[h].own = "gw" /\ udo[l].st \in {"idle", "downloading"} => req[h].kind = "state"
<1>1. udo[l] # NoUdo /\ udo[l].h = h
  BY DEF Live
<1>2. RequestFits(l)
  BY <1>1 DEF BulkInv, TransferOK
<1>3. QED
  BY <1>1, <1>2 DEF RequestFits

\* Neither 0 nor Lost is a handle.
LEMMA HandleNotZero == 0 # Lost /\ \A h \in Handle : h # 0 /\ h # Lost
BY BulkConstants DEF Handle, Lost

\* A step that touches only the transfer of l and the request h, which no other
\* transfer has, keeps all other transfers sound.
LEMMA OthersKept ==
  ASSUME BulkInv, NEW l \in Lease, NEW h \in Handle \cup {0},
         \A k \in Lease : k # l => udo'[k] = udo[k]
                                   /\ (k \in leased' <=> k \in leased)
                                   /\ (k \in opened' <=> k \in opened)
                                   /\ wait'[k] = wait[k],
         \A g \in Handle : g # h => req'[g] = req[g],
         \A k \in Lease : k # l /\ udo[k] # NoUdo => h = 0 \/ udo[k].h # h,
         udo'[l] # NoUdo => udo'[l].h \in {0, Lost, h},
         TransferOK(l)'
  PROVE  OwnHandles' /\ \A k \in Lease : TransferOK(k)'
<1>0. TypeOK /\ OwnHandles /\ \A k \in Lease : TransferOK(k)
  BY DEF BulkInv
<1>1. OwnHandles'
  BY <1>0, HandleNotZero DEF OwnHandles
<1>2. ASSUME NEW k \in Lease, k # l PROVE TransferOK(k)'
  <2>1. CASE udo[k] = NoUdo
    BY <1>2, <2>1 DEF TransferOK
  <2>2. CASE udo[k] # NoUdo /\ udo[k].h \in {0, Lost}
    BY <1>0, <1>2, <2>2, HandleNotZero DEF TransferOK
  <2>3. CASE udo[k] # NoUdo /\ udo[k].h \notin {0, Lost}
    <3>1. udo[k].h \in Handle /\ udo[k].h # h
      BY <1>0, <1>2, <2>3, UdoType, HandleNotZero
    <3>2. req'[udo[k].h] = req[udo[k].h]
      BY <3>1
    <3>3. TransferOK(k) /\ udo'[k] = udo[k] /\ (k \in leased' <=> k \in leased)
          /\ (k \in opened' <=> k \in opened) /\ wait'[k] = wait[k]
      BY <1>0, <1>2
    <3>4. QED
      BY <2>3, <3>1, <3>2, <3>3 DEF TransferOK, RequestFits
  <2>4. QED
    BY <2>1, <2>2, <2>3
<1>3. QED
  BY <1>1, <1>2

-----------------------------------------------------------------------------
(* Handlers of an answer or a timeout of the request h of the transfer l.  *)

\* What a handler may do to the host of l: a confirm, if any, is of the service
\* asked for, and only an accepted open lets the host send blocks.
HostStep(l, newOpen) ==
  /\ ToldType' /\ ConfirmMatches'
  /\ wait' \in [Lease -> Svc \cup {"none"}]
  /\ \A k \in Lease : k # l => (k \in opened' <=> k \in opened) /\ wait'[k] = wait[k]
  /\ opened' \subseteq Lease
  /\ l \in opened' => l \in leased /\ (l \in opened \/ newOpen)

\* Nothing happens to the host.
LEMMA SilentHost ==
  ASSUME BulkInv, NEW l \in Lease, UNCHANGED host
  PROVE  HostStep(l, FALSE)
<1>1. TypeOK /\ ToldType /\ ConfirmMatches
  BY DEF BulkInv
<1>2. opened \subseteq leased /\ leased \subseteq Lease /\ wait \in [Lease -> Svc \cup {"none"}]
  BY <1>1 DEF TypeOK
<1>3. QED
  BY <1>1, <1>2 DEF HostStep, ToldType, ConfirmMatches, host

\* The confirm that belongs to the state of the transfer.
LEMMA ConfirmHost ==
  ASSUME BulkInv, NEW l \in Lease, NEW h \in Handle, Live(l, h),
         NEW svc \in Svc, svc = SvcOf(udo[l].st), NEW status, Confirm(l, h, svc, status)
  PROVE  /\ HostStep(l, svc = "open" /\ status = "ok")
         /\ status = "aborted" /\ req[h].own # "none" => l \notin opened'
         /\ req[h].own \in Svc =>
              /\ wait'[l] = "none"
              /\ svc = "open" /\ status = "ok" => l \in opened'
              /\ svc = "transfer" /\ status # "aborted" => opened' = opened
<1>0. TypeOK /\ ToldType /\ ConfirmMatches /\ TransferOK(l)
  BY DEF BulkInv
<1>1. opened \subseteq leased /\ leased \subseteq Lease /\ wait \in [Lease -> Svc \cup {"none"}]
  BY <1>0 DEF TypeOK
<1>2. CASE req[h].own \in Svc
  <2>1. req[h].own = svc /\ l \in leased
    BY <1>2, LiveFits
  <2>2. /\ told' = [told EXCEPT ![l] = [svc |-> svc, as |-> svc]]
        /\ wait' = [wait EXCEPT ![l] = "none"]
        /\ opened' = IF svc = "open" /\ status = "ok" THEN opened \cup {l}
                     ELSE IF svc = "transfer" /\ status # "aborted" THEN opened
                     ELSE opened \ {l}
    BY <1>2, <2>1 DEF Confirm
  <2>3. ToldType' /\ ConfirmMatches'
    BY <1>0, <2>2 DEF ToldType, ConfirmMatches
  <2>4. wait' \in [Lease -> Svc \cup {"none"}]
    BY <1>1, <2>2
  <2>5. /\ \A k \in Lease : k # l => (k \in opened' <=> k \in opened) /\ wait'[k] = wait[k]
        /\ opened' \subseteq Lease
        /\ l \in opened' => l \in leased /\ (l \in opened \/ (svc = "open" /\ status = "ok"))
    BY <1>1, <2>1, <2>2
  <2>6. /\ status = "aborted" => l \notin opened'
        /\ wait'[l] = "none"
        /\ svc = "open" /\ status = "ok" => l \in opened'
        /\ svc = "transfer" /\ status # "aborted" => opened' = opened
    BY <1>1, <2>2
  <2>7. QED
    BY <2>3, <2>4, <2>5, <2>6 DEF HostStep
<1>3. CASE req[h].own \notin Svc
  <2>1. UNCHANGED host
    BY <1>3 DEF Confirm
  <2>2. HostStep(l, FALSE)
    BY <2>1, SilentHost
  <2>3. req[h].own \in {"gw", "none"}
    BY <1>0, <1>3, ReqType DEF Live
  <2>4. req[h].own = "gw" => l \notin opened
    BY <1>0, HandleNotZero DEF Live, TransferOK
  <2>5. QED
    BY <1>3, <2>1, <2>2, <2>3, <2>4 DEF HostStep, host
<1>4. QED
  BY <1>2, <1>3

\* A handler that leaves the transfer u and the request r behind, both of the
\* right type and sound together, keeps the invariant.
LEMMA HandlerKeeps ==
  ASSUME BulkInv, NEW l \in Lease, NEW h \in Handle, Live(l, h), NEW b \in BOOLEAN,
         HostStep(l, b), UNCHANGED <<leased, robbed>>,
         NEW u \in Udo \cup {NoUdo}, NEW r \in Request \cup {NoReq},
         udo' = [udo EXCEPT ![l] = u], req' = [req EXCEPT ![h] = r],
         u # NoUdo => u.h \in {0, h},
         TransferOK(l)'
  PROVE  BulkInv'
<1>0. TypeOK /\ OwnHandles
  BY DEF BulkInv
<1>1. udo \in [Lease -> Udo \cup {NoUdo}] /\ req \in [Handle -> Request \cup {NoReq}]
      /\ leased \subseteq Lease /\ opened \subseteq leased
  BY <1>0 DEF TypeOK, Udo, Request
<1>2. \A k \in Lease : k # l => udo'[k] = udo[k]
                                /\ (k \in leased' <=> k \in leased)
                                /\ (k \in opened' <=> k \in opened)
                                /\ wait'[k] = wait[k]
  BY <1>1 DEF HostStep
<1>3. \A g \in Handle : g # h => req'[g] = req[g]
  BY <1>1
<1>4. \A k \in Lease : k # l /\ udo[k] # NoUdo => h = 0 \/ udo[k].h # h
  BY <1>0 DEF OwnHandles, Live
<1>5. udo'[l] # NoUdo => udo'[l].h \in {0, Lost, h}
  BY <1>1
<1>6. OwnHandles' /\ \A k \in Lease : TransferOK(k)'
  BY <1>2, <1>3, <1>4, <1>5, OthersKept
<1>7. udo' \in [Lease -> Udo \cup {NoUdo}] /\ req' \in [Handle -> Request \cup {NoReq}]
  BY <1>1
<1>8. opened' \subseteq leased'
  BY <1>1 DEF HostStep
<1>9. TypeOK'
  BY <1>0, <1>1, <1>7, <1>8 DEF TypeOK, HostStep, Udo, Request
<1>10. QED
  BY <1>6, <1>9 DEF BulkInv, HostStep

\* The transfer is dropped.
LEMMA CleanupKeeps ==
  ASSUME BulkInv, NEW l \in Lease, NEW h \in Handle, Live(l, h), NEW b \in BOOLEAN,
         HostStep(l, b), UNCHANGED <<leased, robbed>>, cleanupUDO(l, h)
  PROVE  BulkInv'
<1>1. udo \in [Lease -> Udo \cup {NoUdo}]
  BY DEF BulkInv, TypeOK, Udo
<1>2. TransferOK(l)'
  BY <1>1 DEF cleanupUDO, TransferOK
<1>3. QED
  BY <1>2, HandlerKeeps DEF cleanupUDO

\* The transfer goes on with another request of kind k for the owner o.
LEMMA RequestKeeps ==
  ASSUME BulkInv, NEW l \in Lease, NEW h \in Handle, Live(l, h), NEW b \in BOOLEAN,
         HostStep(l, b), UNCHANGED <<leased, robbed>>, l \notin opened',
         NEW kind \in Read \cup Exec \cup Write, NEW o \in {"gw", "none", req[h].own},
         NEW st \in KeptState,
         udo' = [udo EXCEPT ![l].st = st],
         req' = [req EXCEPT ![h] = [kind |-> kind, own |-> o]],
         o \in Svc => SvcOf(st) = SvcOf(udo[l].st) /\ st # "downloading",
         o = "gw" /\ st \in {"idle", "downloading"} => kind = "state"
  PROVE  BulkInv'
<1>0. TypeOK /\ TransferOK(l)
  BY DEF BulkInv
<1>1. udo \in [Lease -> Udo \cup {NoUdo}] /\ req \in [Handle -> Request \cup {NoReq}]
  BY <1>0 DEF TypeOK, Udo, Request
<1>2. udo[l] \in Udo /\ udo[l].h = h /\ h # 0 /\ req[h] # NoReq
  BY <1>0, UdoType, HandleNotZero DEF Live
<1>3. req[h].own \in Svc \cup {"gw", "none"}
  BY <1>0, <1>2, ReqType
<1> DEFINE u == [udo[l] EXCEPT !.st = st]
           r == [kind |-> kind, own |-> o]
<1>4. u \in Udo /\ u # NoUdo /\ u.h = h /\ u.st = st
  BY <1>2 DEF Udo, NoUdo
<1>5. r \in Request /\ r # NoReq /\ r.kind = kind /\ r.own = o
  BY <1>3 DEF Request, NoReq, Svc
<1>6. udo' = [udo EXCEPT ![l] = u] /\ req' = [req EXCEPT ![h] = r]
  BY <1>1
<1> HIDE DEF u, r
<1>7. udo'[l] = u /\ req'[h] = r
  BY <1>1, <1>6
<1>8. o \in Svc => o = SvcOf(st) /\ l \in leased
  <2>1. o \in Svc => o = req[h].own
    BY DEF Svc
  <2>2. QED
    BY <2>1, LiveFits
<1>9. TransferOK(l)'
  BY <1>2, <1>4, <1>5, <1>7, <1>8 DEF TransferOK, RequestFits
<1>10. u \in Udo \cup {NoUdo} /\ r \in Request \cup {NoReq} /\ u.h \in {0, h}
  BY <1>4, <1>5
<1>11. QED
  BY <1>6, <1>9, <1>10, HandlerKeeps

\* The next request of a chain.
LEMMA SendNextKeeps ==
  ASSUME BulkInv, NEW l \in Lease, NEW h \in Handle, Live(l, h), NEW b \in BOOLEAN,
         HostStep(l, b), UNCHANGED <<leased, robbed>>, l \notin opened',
         NEW kind \in Read \cup Exec \cup Write, NEW st \in KeptState,
         SendNext(l, h, kind, st), SvcOf(st) = SvcOf(udo[l].st), st # "downloading",
         req[h].own = "gw" /\ st \in {"idle", "downloading"} => kind = "state"
  PROVE  BulkInv'
<1>1. TypeOK /\ req[h] # NoReq
  BY DEF BulkInv, Live
<1>2. req[h] \in Request
  BY <1>1, ReqType
<1>3. [req[h] EXCEPT !.kind = kind] = [kind |-> kind, own |-> req[h].own]
  BY <1>2 DEF Request
<1>4. req \in [Handle -> Request \cup {NoReq}]
  BY <1>1 DEF TypeOK, Request
<1>5. req' = [req EXCEPT ![h] = [kind |-> kind, own |-> req[h].own]]
  BY <1>3, <1>4 DEF SendNext
<1>6. QED
  BY <1>5, RequestKeeps, ZenonT(60) DEF SendNext

\* A request of the recovery, for the gateway or for the owner of the last one.
LEMMA RecoverKeeps ==
  ASSUME BulkInv, NEW l \in Lease, NEW h \in Handle, Live(l, h), NEW b \in BOOLEAN,
         HostStep(l, b), UNCHANGED <<leased, robbed>>, l \notin opened',
         NEW kind \in Read \cup Exec \cup Write, NEW o \in {"gw", "none", req[h].own},
         NEW st \in KeptState, Recover(l, h, kind, o, st),
         o \in Svc => SvcOf(st) = SvcOf(udo[l].st) /\ st # "downloading",
         o = "gw" /\ st \in {"idle", "downloading"} => kind = "state"
  PROVE  BulkInv'
<1>1. CASE cleanupUDO(l, h)
  BY <1>1, CleanupKeeps
<1>2. CASE /\ req' = [req EXCEPT ![h] = [kind |-> kind, own |-> o]]
           /\ udo' = [udo EXCEPT ![l].st = st]
  BY <1>2, RequestKeeps
<1>3. QED
  BY <1>1, <1>2 DEF Recover

LEMMA SendOwnKeeps ==
  ASSUME BulkInv, NEW l \in Lease, NEW h \in Handle, Live(l, h), NEW b \in BOOLEAN,
         HostStep(l, b), UNCHANGED <<leased, robbed>>, l \notin opened',
         NEW kind \in Read \cup Exec \cup Write, NEW st \in KeptState,
         SendOwn(l, h, kind, st),
         st \in {"idle", "downloading"} => kind = "state"
  PROVE  BulkInv'
<1>1. PICK o \in Tracked("gw") : Recover(l, h, kind, o, st)
  BY DEF SendOwn
<1>2. o \in {"gw", "none"} /\ o \notin Svc
  BY TrackedOwner DEF Svc
<1>3. QED
  BY <1>1, <1>2, RecoverKeeps

LEMMA AskStateKeeps ==
  ASSUME BulkInv, NEW l \in Lease, NEW h \in Handle, Live(l, h), NEW b \in BOOLEAN,
         HostStep(l, b), UNCHANGED <<leased, robbed>>, l \notin opened', askState(l, h)
  PROVE  BulkInv'
<1>1. udo[l].st \in KeptState
  BY UdoType DEF BulkInv, Live
<1>2. QED
  BY <1>1, SendOwnKeeps DEF askState, Read

LEMMA TryResetKeeps ==
  ASSUME BulkInv, NEW l \in Lease, NEW h \in Handle, Live(l, h), NEW b \in BOOLEAN,
         HostStep(l, b), UNCHANGED <<leased, robbed>>, l \notin opened', NEW st, tryReset(l, h, st)
  PROVE  BulkInv'
<1>1. CASE st = "downloading"
  <2>1. SendOwn(l, h, "abort", "dlError")
    BY <1>1 DEF tryReset
  <2>2. QED
    BY <2>1, SendOwnKeeps DEF Exec, KeptState
<1>2. CASE st \in {"dlComplete", "dlError"}
  <2>1. SendOwn(l, h, "reset", st)
    BY <1>2 DEF tryReset
  <2>2. QED
    BY <1>2, <2>1, SendOwnKeeps DEF Write, KeptState
<1>3. CASE st \notin {"downloading", "dlComplete", "dlError"}
  <2>1. cleanupUDO(l, h)
    BY <1>3 DEF tryReset
  <2>2. QED
    BY <2>1, CleanupKeeps
<1>4. QED
  BY <1>1, <1>2, <1>3

\* The transfer waits for the next block.
LEMMA AwaitKeeps ==
  ASSUME BulkInv, NEW l \in Lease, NEW h \in Handle, Live(l, h), NEW b \in BOOLEAN,
         HostStep(l, b), UNCHANGED <<leased, robbed>>, l \in opened', wait'[l] = "none",
         Await(l, h, "downloading")
  PROVE  BulkInv'
<1>0. udo \in [Lease -> Udo \cup {NoUdo}] /\ udo[l] \in Udo
  BY UdoType DEF BulkInv, TypeOK, Udo, Live
<1> DEFINE u == [udo[l] EXCEPT !.st = "downloading", !.h = 0]
<1>1. u \in Udo /\ u.h = 0 /\ u.st = "downloading"
  BY <1>0 DEF Udo, KeptState
<1>2. udo' = [udo EXCEPT ![l] = u] /\ req' = [req EXCEPT ![h] = NoReq]
  BY <1>0 DEF Await
<1> HIDE DEF u
<1>3. udo'[l] = u
  BY <1>0, <1>2
<1>4. TransferOK(l)'
  BY <1>1, <1>3, HandleNotZero DEF TransferOK
<1>5. QED
  BY <1>1, <1>2, <1>4, HandlerKeeps

\* The host of a transfer may not send a block unless the request is one.
LEMMA NotOpened ==
  ASSUME BulkInv, NEW l \in Lease, NEW h \in Handle, Live(l, h),
         udo[l].st # "downloading" \/ req[h].kind # "data" \/ req[h].own = "gw"
  PROVE  l \notin opened
BY HandleNotZero DEF BulkInv, TransferOK, Live

\* A request of an idle or downloading transfer that the tracker knows and that is
\* not for the state is the host's, and a host that has sent a block may send one.
LEMMA HostAsked ==
  ASSUME BulkInv, NEW l \in Lease, NEW h \in Handle, Live(l, h), HasMsg(h),
         udo[l].st \in {"idle", "downloading"}, req[h].kind # "state"
  PROVE  req[h].own \in Svc /\ (udo[l].st = "downloading" => l \in opened)
<1>1. req[h].own \in Svc \cup {"gw"}
  BY ReqType DEF BulkInv, Live, HasMsg
<1>2. req[h].own # "gw"
  BY LiveFits
<1>3. QED
  BY <1>1, <1>2, LiveFits

-----------------------------------------------------------------------------
(* One lemma per handler.                                                  *)

LEMMA IdleKeeps ==
  ASSUME BulkInv, NEW l \in Lease, NEW h \in Handle, Live(l, h), NEW a,
         UNCHANGED <<leased, robbed>>, processStateIdle(l, h, a)
  PROVE  BulkInv'
<1> DEFINE k == req[h].kind
<1>0. udo[l].st = "idle" /\ SvcOf(udo[l].st) = "open" /\ "open" \in Svc /\ l \notin opened
  BY NotOpened DEF processStateIdle, SvcOf, Svc
<1>1. Silent => HostStep(l, FALSE) /\ l \notin opened'
  BY <1>0, SilentHost DEF Silent, host
<1>2. Confirm(l, h, "open", "fail") => HostStep(l, FALSE) /\ l \notin opened'
  <2>1. SUFFICES ASSUME Confirm(l, h, "open", "fail") PROVE HostStep(l, FALSE)
    BY <1>0 DEF HostStep
  <2>2. HostStep(l, "open" = "open" /\ "fail" = "ok")
    BY <1>0, <2>1, ConfirmHost
  <2>3. QED
    BY <2>2 DEF HostStep
<1>3. CASE cleanupUDO(l, h) /\ (Silent \/ Confirm(l, h, "open", "fail"))
  BY <1>1, <1>2, <1>3, CleanupKeeps
<1>4. CASE Confirm(l, h, "open", "fail") /\ askState(l, h)
  BY <1>2, <1>4, AskStateKeeps
<1>5. ASSUME HasMsg(h), k # "state", Silent, NEW kind \in {"start", "maxSize", "setFile"},
             SendNext(l, h, kind, "idle")
      PROVE  BulkInv'
  <2>1. req[h].own # "gw"
    BY <1>0, <1>5, HandleNotZero DEF BulkInv, TransferOK, RequestFits, Live
  <2>2. kind \in Read \cup Exec \cup Write /\ "idle" \in KeptState
    BY DEF Read, Exec, KeptState
  <2>3. QED
    BY <1>0, <1>1, <1>5, <2>1, <2>2, SendNextKeeps
<1>6. CASE k = "start" /\ HasMsg(h) /\ Confirm(l, h, "open", "ok") /\ Await(l, h, "downloading")
  <2>1. req[h].own \in Svc
    BY <1>0, <1>6, HostAsked
  <2>2. HostStep(l, "open" = "open" /\ "ok" = "ok") /\ l \in opened' /\ wait'[l] = "none"
    BY <1>0, <1>6, <2>1, ConfirmHost
  <2>3. HostStep(l, TRUE)
    BY <2>2 DEF HostStep
  <2>4. QED
    BY <1>6, <2>2, <2>3, AwaitKeeps
<1>7. CASE tryReset(l, h, a) /\ Silent
  BY <1>1, <1>7, TryResetKeeps
<1>8. k \in {"setFile", "maxBlock", "maxSize"} => k # "state"
  OBVIOUS
<1>9. \/ cleanupUDO(l, h) /\ (Silent \/ Confirm(l, h, "open", "fail"))
      \/ Confirm(l, h, "open", "fail") /\ askState(l, h)
      \/ /\ HasMsg(h) /\ k \in {"setFile", "maxBlock", "maxSize"} /\ Silent
         /\ \E kind \in {"start", "maxSize", "setFile"} : SendNext(l, h, kind, "idle")
      \/ k = "start" /\ HasMsg(h) /\ Confirm(l, h, "open", "ok") /\ Await(l, h, "downloading")
      \/ tryReset(l, h, a) /\ Silent
  BY Zenon DEF processStateIdle
<1>10. QED
  BY <1>3, <1>4, <1>5, <1>6, <1>7, <1>8, <1>9

LEMMA DownloadKeeps ==
  ASSUME BulkInv, NEW l \in Lease, NEW h \in Handle, Live(l, h), NEW a,
         UNCHANGED <<leased, robbed>>, processStateDownload(l, h, a)
  PROVE  BulkInv'
<1> DEFINE k == req[h].kind
<1>0. udo[l].st = "downloading" /\ SvcOf(udo[l].st) = "transfer" /\ "transfer" \in Svc
  BY DEF processStateDownload, SvcOf, Svc
<1>1. Silent => HostStep(l, FALSE)
  BY SilentHost DEF Silent
<1>2. CASE cleanupUDO(l, h) /\ Silent
  BY <1>1, <1>2, CleanupKeeps
<1>3. CASE /\ k \in Exec /\ HasMsg(h) /\ a \in {"ok", "invalid"}
           /\ Confirm(l, h, "transfer", a) /\ Await(l, h, "downloading")
  <2>1. req[h].own \in Svc /\ l \in opened
    BY <1>0, <1>3, HostAsked DEF Exec
  <2>2. HostStep(l, "transfer" = "open" /\ a = "ok") /\ l \in opened' /\ wait'[l] = "none"
    BY <1>0, <1>3, <2>1, ConfirmHost
  <2>3. HostStep(l, FALSE)
    BY <2>2 DEF HostStep
  <2>4. QED
    BY <1>3, <2>2, <2>3, AwaitKeeps
<1>4. CASE HasMsg(h) /\ Confirm(l, h, "transfer", "aborted") /\ askState(l, h)
  <2>1. /\ HostStep(l, "transfer" = "open" /\ "aborted" = "ok")
        /\ "aborted" = "aborted" /\ req[h].own # "none" => l \notin opened'
    BY <1>0, <1>4, ConfirmHost
  <2>2. HostStep(l, FALSE) /\ l \notin opened'
    BY <1>4, <2>1 DEF HostStep, HasMsg
  <2>3. QED
    BY <1>4, <2>2, AskStateKeeps
<1>5. ASSUME k \in Read, Silent, NEW st, tryReset(l, h, st)
      PROVE  BulkInv'
  <2>1. l \notin opened
    BY <1>5, NotOpened DEF Read
  <2>2. l \notin opened'
    BY <1>5, <2>1 DEF Silent, host
  <2>3. QED
    BY <1>1, <1>5, <2>2, TryResetKeeps
<1>6. QED
  BY <1>2, <1>3, <1>4, <1>5, Zenon DEF processStateDownload

\* The handlers of the states after the last block have much in common: no host
\* may send a block, and a confirm is of the close.
LEMMA ClosingHost ==
  ASSUME BulkInv, NEW l \in Lease, NEW h \in Handle, Live(l, h),
         udo[l].st \in {"dlComplete", "applying", "dlError"}, NEW status,
         Silent \/ Confirm(l, h, "close", status)
  PROVE  HostStep(l, FALSE) /\ l \notin opened'
<1>1. l \notin opened
  BY NotOpened
<1>2. CASE Silent
  BY <1>1, <1>2, SilentHost DEF Silent, host
<1>3. CASE Confirm(l, h, "close", status)
  <2>1. SvcOf(udo[l].st) = "close" /\ "close" \in Svc
    BY DEF SvcOf, Svc
  <2>2. HostStep(l, "close" = "open" /\ status = "ok")
    BY <1>3, <2>1, ConfirmHost
  <2>3. QED
    BY <1>1, <2>2 DEF HostStep
<1>4. QED
  BY <1>2, <1>3

LEMMA DowldComplKeeps ==
  ASSUME BulkInv, NEW l \in Lease, NEW h \in Handle, Live(l, h), NEW a,
         UNCHANGED <<leased, robbed>>, processStateDowldCompl(l, h, a)
  PROVE  BulkInv'
<1> DEFINE k == req[h].kind
<1>0. udo[l].st = "dlComplete"
  BY DEF processStateDowldCompl
<1>1. Silent \/ Confirm(l, h, "close", "fail")
  BY Zenon DEF processStateDowldCompl
<1>2. HostStep(l, FALSE) /\ l \notin opened'
  BY <1>0, <1>1, ClosingHost
<1>3. CASE cleanupUDO(l, h)
  BY <1>2, <1>3, CleanupKeeps
<1>4. CASE SendNext(l, h, "apply", "applying")
  <2>1. "apply" \in Read \cup Exec \cup Write /\ "applying" \in KeptState
        /\ SvcOf("applying") = SvcOf(udo[l].st)
    BY <1>0 DEF Write, KeptState, SvcOf
  <2>2. QED
    BY <1>2, <1>4, <2>1, SendNextKeeps
<1>5. CASE askState(l, h)
  BY <1>2, <1>5, AskStateKeeps
<1>6. ASSUME NEW st, tryReset(l, h, st) PROVE BulkInv'
  BY <1>2, <1>6, TryResetKeeps
<1>7. QED
  BY <1>3, <1>4, <1>5, <1>6, Zenon DEF processStateDowldCompl

LEMMA ApplyKeeps ==
  ASSUME BulkInv, NEW l \in Lease, NEW h \in Handle, Live(l, h), NEW a,
         UNCHANGED <<leased, robbed>>, processStateApply(l, h, a)
  PROVE  BulkInv'
<1>0. udo[l].st = "applying"
  BY DEF processStateApply
<1>1. \E status \in {"ok", "fail"} : Silent \/ Confirm(l, h, "close", status)
  BY Zenon DEF processStateApply
<1>2. HostStep(l, FALSE) /\ l \notin opened'
  BY <1>0, <1>1, ClosingHost
<1>3. CASE cleanupUDO(l, h)
  BY <1>2, <1>3, CleanupKeeps
<1>4. CASE askState(l, h)
  BY <1>2, <1>4, AskStateKeeps
<1>5. ASSUME NEW st, tryReset(l, h, st) PROVE BulkInv'
  BY <1>2, <1>5, TryResetKeeps
<1>6. QED
  BY <1>3, <1>4, <1>5, Zenon DEF processStateApply

LEMMA DLErrorKeeps ==
  ASSUME BulkInv, NEW l \in Lease, NEW h \in Handle, Live(l, h), NEW a,
         UNCHANGED <<leased, robbed>>, processStateDLError(l, h, a)
  PROVE  BulkInv'
<1>0. udo[l].st = "dlError"
  BY DEF processStateDLError
<1>1. \E status \in {"ok", "fail"} : Silent \/ Confirm(l, h, "close", status)
  BY Zenon DEF processStateDLError
<1>2. HostStep(l, FALSE) /\ l \notin opened'
  BY <1>0, <1>1, ClosingHost
<1>3. CASE cleanupUDO(l, h)
  BY <1>2, <1>3, CleanupKeeps
<1>4. CASE askState(l, h)
  BY <1>2, <1>4, AskStateKeeps
<1>5. "reset" \in Read \cup Exec \cup Write /\ "dlError" \in KeptState
  BY DEF Write, KeptState
<1>6. CASE Recover(l, h, "reset", req[h].own, "dlError")
  BY <1>0, <1>2, <1>5, <1>6, RecoverKeeps
<1>7. CASE SendOwn(l, h, "reset", "dlError")
  BY <1>2, <1>5, <1>7, SendOwnKeeps
<1>8. ASSUME NEW st, tryReset(l, h, st) PROVE BulkInv'
  BY <1>2, <1>8, TryResetKeeps
<1>9. QED
  BY <1>3, <1>4, <1>6, <1>7, <1>8, Zenon DEF processStateDLError

\* A free handle is the handle of no transfer.
LEMMA FreeUnused ==
  ASSUME BulkInv, NEW h \in Free, NEW k \in Lease, udo[k] # NoUdo
  PROVE  h \in Handle /\ h # 0 /\ udo[k].h # h
BY HandleNotZero DEF BulkInv, TransferOK, RequestFits, Free

\* The answer or the timeout of a request that no transfer has.
LEMMA OrphanKeeps ==
  ASSUME BulkInv, NEW h \in Handle, Orphan(h), UNCHANGED <<leased, robbed>>
  PROVE  BulkInv'
<1>0. TypeOK /\ ToldType /\ OwnHandles /\ ConfirmMatches /\ \A l \in Lease : TransferOK(l)
  BY DEF BulkInv
<1>1. /\ udo' = udo /\ leased' = leased /\ opened' = opened /\ wait' = wait /\ told' = told
      /\ req' = [req EXCEPT ![h] = NoReq]
      /\ \A l \in Lease : udo[l] # NoUdo => udo[l].h # h
  BY DEF Orphan, host, Current
<1>2. req \in [Handle -> Request \cup {NoReq}]
  BY <1>0 DEF TypeOK, Request
<1>3. req' \in [Handle -> Request \cup {NoReq}] /\ \A g \in Handle : g # h => req'[g] = req[g]
  BY <1>1, <1>2
<1>4. TypeOK'
  BY <1>0, <1>1, <1>3 DEF TypeOK, Request
<1>5. ASSUME NEW l \in Lease PROVE TransferOK(l)'
  <2>1. CASE udo[l] = NoUdo \/ udo[l].h \in {0, Lost}
    BY <1>0, <1>1, <2>1, HandleNotZero DEF TransferOK
  <2>2. CASE udo[l] # NoUdo /\ udo[l].h \notin {0, Lost}
    <3>1. udo[l].h \in Handle /\ udo[l].h # h
      BY <1>0, <1>1, <2>2, UdoType
    <3>2. req'[udo[l].h] = req[udo[l].h]
      BY <1>3, <3>1
    <3>3. QED
      BY <1>0, <1>1, <2>2, <3>2 DEF TransferOK, RequestFits
  <2>3. QED
    BY <2>1, <2>2
<1>6. ToldType' /\ OwnHandles' /\ ConfirmMatches'
  BY <1>0, <1>1 DEF ToldType, OwnHandles, ConfirmMatches
<1>7. QED
  BY <1>4, <1>5, <1>6 DEF BulkInv

LEMMA TimedOutKeeps ==
  ASSUME BulkInv, NEW l \in Lease, NEW h \in Handle, Live(l, h), TimedOut(l, h),
         UNCHANGED <<leased, robbed>>
  PROVE  BulkInv'
<1> DEFINE svc == SvcOf(udo[l].st)
<1>1. Confirm(l, h, svc, "fail") /\ cleanupUDO(l, h)
  BY DEF TimedOut, SvcOf
<1>2. svc \in Svc
  BY DEF SvcOf, Svc
<1>3. HostStep(l, svc = "open" /\ "fail" = "ok")
  <2> HIDE DEF svc
  <2>1. svc = SvcOf(udo[l].st)
    BY DEF svc
  <2>2. QED
    BY <1>1, <1>2, <2>1, ConfirmHost
<1>4. HostStep(l, FALSE)
  BY <1>3 DEF HostStep
<1>5. QED
  BY <1>1, <1>4, CleanupKeeps

LEMMA ResolvedKeeps ==
  ASSUME BulkInv, NEW h \in Handle, ProcessAPDU(h) \/ ProcessISATimeout(h)
  PROVE  BulkInv'
<1>1. CASE Orphan(h) /\ UNCHANGED <<leased, robbed>>
  BY <1>1, OrphanKeeps
<1>2. ASSUME NEW l \in Current(h), req[h] # NoReq PROVE l \in Lease /\ Live(l, h)
  BY <1>2 DEF Current, Live
<1>3. ASSUME ProcessAPDU(h), ~Orphan(h) PROVE BulkInv'
  <2>1. PICK l \in Current(h), a \in Answers(req[h].kind) :
             \/ processStateIdle(l, h, a)
             \/ processStateDownload(l, h, a)
             \/ processStateDowldCompl(l, h, a)
             \/ processStateApply(l, h, a)
             \/ processStateDLError(l, h, a)
    BY <1>3 DEF ProcessAPDU
  <2>2. l \in Lease /\ Live(l, h) /\ UNCHANGED <<leased, robbed>>
    BY <1>2, <1>3 DEF ProcessAPDU
  <2>3. QED
    BY <2>1, <2>2, IdleKeeps, DownloadKeeps, DowldComplKeeps, ApplyKeeps, DLErrorKeeps
<1>4. ASSUME ProcessISATimeout(h), ~Orphan(h) PROVE BulkInv'
  <2>1. PICK l \in Current(h) : TimedOut(l, h)
    BY <1>4 DEF ProcessISATimeout
  <2>2. l \in Lease /\ Live(l, h) /\ UNCHANGED <<leased, robbed>>
    BY <1>2, <1>4 DEF ProcessISATimeout
  <2>3. QED
    BY <2>1, <2>2, TimedOutKeeps
<1>5. QED
  BY <1>1, <1>3, <1>4 DEF ProcessAPDU, ProcessISATimeout

-----------------------------------------------------------------------------
(* Requests of the host, and leases.                                       *)

\* A request of the host for the service of the transfer's new state; the host
\* may go on sending blocks only if the request is a block.
LEMMA AskKeeps ==
  ASSUME BulkInv, NEW l \in Lease, NEW svc \in Svc, NEW kind \in Read \cup Exec \cup Write,
         NEW u \in Udo, u.h = Least(Free), svc = SvcOf(u.st), Ask(l, svc, kind, u),
         UNCHANGED leased, robbed' \subseteq robbed,
         \/ opened' = opened \ {l} /\ u.st # "downloading"
         \/ opened' = opened /\ l \in opened /\ u.st = "downloading" /\ kind = "data"
  PROVE  BulkInv'
<1>0. TypeOK /\ ToldType /\ OwnHandles /\ ConfirmMatches
  BY DEF BulkInv
<1>1. /\ udo \in [Lease -> Udo \cup {NoUdo}] /\ req \in [Handle -> Request \cup {NoReq}]
      /\ leased \subseteq Lease /\ opened \subseteq leased
      /\ wait \in [Lease -> Svc \cup {"none"}]
  BY <1>0 DEF TypeOK, Udo, Request
<1>2. PICK o \in Tracked(svc) :
           req' = [req EXCEPT ![Least(Free)] = [kind |-> kind, own |-> o]]
  BY DEF Ask
<1>3. PICK h \in Free : h = Least(Free)
  BY LeastFree DEF Ask
<1>4. h \in Handle /\ h # 0
  BY HandleNotZero DEF Free
<1> DEFINE r == [kind |-> kind, own |-> o]
<1>5. r \in Request /\ r # NoReq /\ r.kind = kind /\ r.own = o /\ o \in {svc, "none"}
  BY TrackedOwner DEF Request, NoReq
<1>6. req' = [req EXCEPT ![h] = r] /\ udo' = [udo EXCEPT ![l] = u] /\ l \in leased
  BY <1>2, <1>3 DEF Ask
<1> HIDE DEF r
<1>7. /\ udo'[l] = u /\ req'[h] = r /\ u.h = h /\ u # NoUdo
      /\ \A k \in Lease : k # l => udo'[k] = udo[k]
      /\ \A g \in Handle : g # h => req'[g] = req[g]
  <2>1. u.h = h /\ u # NoUdo
    BY <1>3 DEF Udo, NoUdo
  <2>2. udo'[l] = u /\ \A k \in Lease : k # l => udo'[k] = udo[k]
    BY <1>1, <1>6
  <2>3. req'[h] = r /\ \A g \in Handle : g # h => req'[g] = req[g]
    BY <1>1, <1>4, <1>6
  <2>4. QED
    BY <2>1, <2>2, <2>3
<1>8. TransferOK(l)'
  <2>1. RequestFits(l)'
    <3>1. o = "gw" => FALSE
      BY <1>5 DEF Svc
    <3>2. o \in Svc => o = svc
      BY <1>5 DEF Svc
    <3>3. QED
      BY <1>5, <1>6, <1>7, <3>1, <3>2 DEF RequestFits
  <2>2. l \in opened' => u.st = "downloading" /\ kind = "data"
    OBVIOUS
  <2>3. o # "gw"
    BY <1>5 DEF Svc
  <2>4. QED
    BY <1>4, <1>5, <1>7, <2>1, <2>2, <2>3 DEF TransferOK
<1>9. \A k \in Lease : k # l /\ udo[k] # NoUdo => h = 0 \/ udo[k].h # h
  BY <1>3, FreeUnused
<1>10. \A k \in Lease : k # l => udo'[k] = udo[k]
                                /\ (k \in leased' <=> k \in leased)
                                /\ (k \in opened' <=> k \in opened)
                                /\ wait'[k] = wait[k]
  BY <1>1, <1>7 DEF Ask
<1>11. OwnHandles' /\ \A k \in Lease : TransferOK(k)'
  BY <1>4, <1>7, <1>8, <1>9, <1>10, OthersKept
<1>12. udo' \in [Lease -> Udo \cup {NoUdo}] /\ req' \in [Handle -> Request \cup {NoReq}]
       /\ wait' \in [Lease -> Svc \cup {"none"}] /\ opened' \subseteq leased'
  BY <1>1, <1>4, <1>5, <1>6, ZenonT(60) DEF Ask
<1>13. TypeOK'
  BY <1>0, <1>1, <1>12 DEF TypeOK, Udo, Request
<1>14. ToldType' /\ ConfirmMatches'
  BY <1>0 DEF Ask, ToldType, ConfirmMatches, NotTold
<1>15. QED
  BY <1>11, <1>13, <1>14 DEF BulkInv

LEMMA OpenKeeps ==
  ASSUME BulkInv, NEW l \in Lease, requestBulkOpen(l)
  PROVE  BulkInv'
<1>1. PICK h \in Free : h = Least(Free)
  BY LeastFree DEF requestBulkOpen, Ask
<1> DEFINE u == [st |-> "idle", h |-> h, cur |-> 0]
<1>2. h \in Handle
  BY DEF Free
<1>3. u \in Udo /\ u.h = Least(Free) /\ SvcOf(u.st) = "open"
  BY <1>1, <1>2, BulkConstants DEF Udo, KeptState, SvcOf
<1>4. "open" \in Svc /\ "maxBlock" \in Read \cup Exec \cup Write
  BY DEF Svc, Read
<1>5. /\ Ask(l, "open", "maxBlock", u) /\ opened' = opened \ {l} /\ UNCHANGED leased
      /\ robbed' \subseteq robbed /\ u.st # "downloading"
  BY <1>1 DEF requestBulkOpen
<1> HIDE DEF u
<1>6. QED
  BY <1>3, <1>4, <1>5, AskKeeps

LEMMA TransferKeeps ==
  ASSUME BulkInv, NEW l \in Lease, requestBulkTransfer(l)
  PROVE  BulkInv'
<1>1. PICK h \in Free : h = Least(Free)
  BY LeastFree DEF requestBulkTransfer, Ask
<1>2. PICK u : u = [udo[l] EXCEPT !.h = h, !.cur = IF @ < Blocks THEN @ + 1 ELSE @]
  OBVIOUS
<1>3. udo[l] \in Udo /\ udo[l].st = "downloading"
  BY UdoType DEF requestBulkTransfer, BulkInv, TransferOK
<1>4. h \in Handle
  BY DEF Free
<1>5. u \in Udo /\ u.h = Least(Free) /\ u.st = "downloading"
  <2>1. PICK c : c = IF udo[l].cur < Blocks THEN udo[l].cur + 1 ELSE udo[l].cur
    OBVIOUS
  <2>2. udo[l].cur \in 0..Blocks
    BY <1>3 DEF Udo
  <2>3. c \in 0..Blocks
    BY <2>1, <2>2, BulkConstants
  <2>4. u = [udo[l] EXCEPT !.h = h, !.cur = c]
    BY <1>2, <1>3, <2>1 DEF Udo
  <2>5. QED
    BY <1>1, <1>3, <1>4, <2>3, <2>4 DEF Udo
<1>6. "transfer" \in Svc /\ "data" \in Read \cup Exec \cup Write /\ SvcOf(u.st) = "transfer"
  BY <1>5 DEF Svc, Exec, SvcOf
<1>7. /\ Ask(l, "transfer", "data", u) /\ UNCHANGED leased /\ opened' = opened
      /\ robbed' \subseteq robbed /\ l \in opened
  BY <1>1, <1>2 DEF requestBulkTransfer
<1>8. QED
  BY <1>5, <1>6, <1>7, AskKeeps

LEMMA CloseKeeps ==
  ASSUME BulkInv, NEW l \in Lease, requestBulkClose(l)
  PROVE  BulkInv'
<1>1. PICK h \in Free : h = Least(Free)
  BY LeastFree DEF requestBulkClose, Ask
<1>2. PICK st \in {"dlComplete", "dlError"} : st = EndedState(udo[l])
  BY DEF EndedState
<1>3. PICK u : u = [udo[l] EXCEPT !.h = h, !.st = st]
  OBVIOUS
<1>4. PICK kind \in {"end", "abort"} : kind = IF udo[l].cur >= Blocks THEN "end" ELSE "abort"
  OBVIOUS
<1>5. udo[l] \in Udo /\ h \in Handle
  BY UdoType DEF requestBulkClose, BulkInv, Free
<1>6. u \in Udo /\ u.h = Least(Free) /\ u.st = st
  BY <1>1, <1>3, <1>5 DEF Udo, KeptState
<1>7. "close" \in Svc /\ kind \in Read \cup Exec \cup Write /\ SvcOf(u.st) = "close"
  BY <1>6 DEF Svc, Exec, SvcOf
<1>8. /\ Ask(l, "close", kind, u) /\ UNCHANGED leased /\ opened' = opened \ {l}
      /\ robbed' \subseteq robbed
  BY <1>1, <1>2, <1>3, <1>4 DEF requestBulkClose
<1>9. u.st # "downloading"
  BY <1>6
<1>10. QED
  BY <1>6, <1>7, <1>8, <1>9, AskKeeps

\* A step that drops the transfer of l and no request.
LEMMA DropKeeps ==
  ASSUME BulkInv, NEW l \in Lease, udo' = [udo EXCEPT ![l] = NoUdo], UNCHANGED req,
         leased' \in {leased, leased \ {l}}, opened' \subseteq leased', robbed' \subseteq leased',
         \A k \in Lease : k # l => (k \in opened' <=> k \in opened) /\ wait'[k] = wait[k],
         wait' \in [Lease -> Svc \cup {"none"}], ToldType', ConfirmMatches'
  PROVE  BulkInv'
<1>0. TypeOK
  BY DEF BulkInv
<1>1. /\ udo \in [Lease -> Udo \cup {NoUdo}]
      /\ leased \subseteq Lease /\ opened \subseteq leased
  BY <1>0 DEF TypeOK, Udo
<1>2. \A k \in Lease : k # l => udo'[k] = udo[k]
                                /\ (k \in leased' <=> k \in leased)
                                /\ (k \in opened' <=> k \in opened)
                                /\ wait'[k] = wait[k]
  BY <1>1
<1>3. udo'[l] = NoUdo
  BY <1>1
<1>4. TransferOK(l)'
  BY <1>3 DEF TransferOK
<1>5. OwnHandles' /\ \A k \in Lease : TransferOK(k)'
  <2>1. 0 \in Handle \cup {0} /\ \A g \in Handle : g # 0 => req'[g] = req[g]
    OBVIOUS
  <2>2. \A k \in Lease : k # l /\ udo[k] # NoUdo => 0 = 0 \/ udo[k].h # 0
    OBVIOUS
  <2>3. udo'[l] # NoUdo => udo'[l].h \in {0, Lost, 0}
    BY <1>3
  <2>4. QED
    BY <1>2, <1>4, <2>1, <2>2, <2>3, OthersKept
<1>6. udo' \in [Lease -> Udo \cup {NoUdo}] /\ leased' \subseteq Lease
  BY <1>1
<1>7. TypeOK'
  BY <1>0, <1>6 DEF TypeOK, Udo
<1>8. QED
  BY <1>5, <1>7 DEF BulkInv

LEMMA NotOwnerKeeps ==
  ASSUME BulkInv, NEW l \in Lease, requestNotOwner(l)
  PROVE  BulkInv'
<1>1. TypeOK /\ ToldType /\ ConfirmMatches
  BY DEF BulkInv
<1>2. /\ UNCHANGED <<req, leased, wait, opened, told>>
      /\ robbed' = robbed \cup ({l} \cap leased) /\ udo' = [udo EXCEPT ![l] = NoUdo]
  BY DEF requestNotOwner, host
<1>3. /\ wait' \in [Lease -> Svc \cup {"none"}] /\ ToldType' /\ ConfirmMatches'
      /\ opened' \subseteq leased' /\ robbed' \subseteq leased'
  BY <1>1, <1>2 DEF TypeOK, ToldType, ConfirmMatches
<1>4. QED
  BY <1>2, <1>3, DropKeeps

LEMMA CreateLeaseKeeps ==
  ASSUME BulkInv, NEW l \in Lease, CreateLease(l)
  PROVE  BulkInv'
<1>1. TypeOK /\ ToldType /\ ConfirmMatches /\ OwnHandles /\ \A k \in Lease : TransferOK(k)
  BY DEF BulkInv
<1>2. /\ UNCHANGED <<udo, req, wait, opened, told, robbed>>
      /\ leased' = leased \cup {l} /\ udo[l] = NoUdo
  BY DEF CreateLease, host
<1>3. TypeOK'
  BY <1>1, <1>2 DEF TypeOK
<1>4. ToldType' /\ ConfirmMatches' /\ OwnHandles'
  BY <1>1, <1>2 DEF ToldType, ConfirmMatches, OwnHandles
<1>5. \A k \in Lease : TransferOK(k)'
  BY <1>1, <1>2 DEF TransferOK, RequestFits
<1>6. QED
  BY <1>3, <1>4, <1>5 DEF BulkInv

LEMMA DeleteLeaseKeeps ==
  ASSUME BulkInv, NEW l \in Lease, NEW up \in BOOLEAN, DeleteLease(l, up)
  PROVE  BulkInv'
<1>0. TypeOK /\ ToldType /\ ConfirmMatches
  BY DEF BulkInv
<1>1. /\ udo \in [Lease -> Udo \cup {NoUdo}] /\ req \in [Handle -> Request \cup {NoReq}]
      /\ leased \subseteq Lease /\ opened \subseteq leased /\ robbed \subseteq leased
      /\ wait \in [Lease -> Svc \cup {"none"}]
  BY <1>0 DEF TypeOK, Udo, Request
<1>2. /\ leased' = leased \ {l} /\ opened' = opened \ {l} /\ robbed' = robbed \ {l}
      /\ wait' = [wait EXCEPT ![l] = "none"] /\ told' = [told EXCEPT ![l] = NotTold]
  BY DEF DeleteLease
<1>3. /\ wait' \in [Lease -> Svc \cup {"none"}] /\ ToldType' /\ ConfirmMatches'
      /\ opened' \subseteq leased' /\ robbed' \subseteq leased'
      /\ \A k \in Lease : k # l => (k \in opened' <=> k \in opened) /\ wait'[k] = wait[k]
  BY <1>0, <1>1, <1>2 DEF ToldType, ConfirmMatches, NotTold
<1>4. CASE udo' = [udo EXCEPT ![l] = NoUdo] /\ UNCHANGED req
  BY <1>2, <1>3, <1>4, DropKeeps
<1>5. CASE /\ udo[l] # NoUdo
           /\ up /\ udo[l].st \in {"downloading", "dlComplete", "dlError"}
           /\ Free # {}
           /\ \E o \in Tracked("gw") : req' = [req EXCEPT ![Least(Free)] =
                [kind |-> IF udo[l].st = "downloading" THEN "abort" ELSE "reset", own |-> o]]
           /\ udo' = [udo EXCEPT ![l].h = Least(Free),
                                 ![l].st = IF @ = "downloading" THEN "dlError" ELSE @]
  <2>1. PICK h \in Free : h = Least(Free)
    BY <1>5, LeastFree
  <2>2. h \in Handle /\ h # 0
    BY HandleNotZero DEF Free
  <2>3. PICK kind \in {"abort", "reset"} :
             kind = IF udo[l].st = "downloading" THEN "abort" ELSE "reset"
    OBVIOUS
  <2>4. PICK st \in {"dlComplete", "dlError"} :
             st = IF udo[l].st = "downloading" THEN "dlError" ELSE udo[l].st
    BY <1>5
  <2>5. PICK o \in Tracked("gw") : req' = [req EXCEPT ![h] = [kind |-> kind, own |-> o]]
    BY <1>5, <2>1, <2>3
  <2>6. PICK u : u = [udo[l] EXCEPT !.h = h, !.st = st]
    OBVIOUS
  <2>7. PICK r : r = [kind |-> kind, own |-> o]
    OBVIOUS
  <2>8. udo[l] \in Udo
    BY <1>0, <1>5, UdoType
  <2>9. u \in Udo /\ u.h = h /\ u.st = st /\ u # NoUdo
    BY <2>2, <2>6, <2>8 DEF Udo, KeptState, NoUdo
  <2>10. o \in {"gw", "none"}
    BY TrackedOwner
  <2>11. r \in Request /\ r # NoReq /\ r.own = o
    BY <2>7, <2>10 DEF Request, NoReq, Exec, Write
  <2>12. udo' = [udo EXCEPT ![l] = u]
    BY <1>1, <1>5, <2>1, <2>4, <2>6, <2>8 DEF Udo
  <2>13. req' = [req EXCEPT ![h] = r]
    BY <2>5, <2>7
  <2>14. /\ udo'[l] = u /\ req'[h] = r
         /\ \A k \in Lease : k # l => udo'[k] = udo[k]
         /\ \A g \in Handle : g # h => req'[g] = req[g]
    BY <1>1, <2>2, <2>12, <2>13
  <2>15. TransferOK(l)'
    BY <1>2, <2>2, <2>9, <2>10, <2>11, <2>14 DEF TransferOK, RequestFits, Svc
  <2>16. \A k \in Lease : k # l /\ udo[k] # NoUdo => h = 0 \/ udo[k].h # h
    BY FreeUnused
  <2>17. \A k \in Lease : k # l => udo'[k] = udo[k]
                                  /\ (k \in leased' <=> k \in leased)
                                  /\ (k \in opened' <=> k \in opened)
                                  /\ wait'[k] = wait[k]
    BY <1>2, <1>3, <2>14
  <2>18. OwnHandles' /\ \A k \in Lease : TransferOK(k)'
    BY <2>2, <2>9, <2>14, <2>15, <2>16, <2>17, OthersKept
  <2>19. udo' \in [Lease -> Udo \cup {NoUdo}] /\ req' \in [Handle -> Request \cup {NoReq}]
         /\ leased' \subseteq Lease
    BY <1>1, <1>2, <2>2, <2>9, <2>11, <2>12, <2>13
  <2>20. TypeOK'
    BY <1>3, <2>19 DEF TypeOK, Udo, Request
  <2>21. QED
    BY <1>3, <2>18, <2>20 DEF BulkInv
<1>6. QED
  BY <1>4, <1>5 DEF DeleteLease, OnLeaseDelete

\* The stack drops the request h: the transfer that has it, if any, keeps its state
\* and loses its request.
LEMMA DiscardKeeps ==
  ASSUME BulkInv, NEW h \in Handle, StackDiscards(h)
  PROVE  BulkInv'
<1>0. TypeOK /\ ToldType /\ OwnHandles /\ ConfirmMatches /\ \A l \in Lease : TransferOK(l)
  BY DEF BulkInv
<1>1. /\ leased' = leased /\ opened' = opened /\ wait' = wait /\ told' = told
      /\ robbed' = robbed /\ req' = [req EXCEPT ![h] = NoReq]
      /\ udo' = [l \in Lease |-> IF l \in Current(h) THEN [udo[l] EXCEPT !.h = Lost] ELSE udo[l]]
  BY DEF StackDiscards, host
<1>2. /\ udo \in [Lease -> Udo \cup {NoUdo}] /\ req \in [Handle -> Request \cup {NoReq}]
  BY <1>0 DEF TypeOK, Udo, Request
<1>3. req' \in [Handle -> Request \cup {NoReq}] /\ \A g \in Handle : g # h => req'[g] = req[g]
  BY <1>1, <1>2
<1>4. ASSUME NEW l \in Lease, udo[l] # NoUdo, udo[l].h = h
      PROVE  udo'[l] \in Udo /\ udo'[l] # NoUdo /\ udo'[l].h = Lost /\ udo'[l].st = udo[l].st
  <2>1. udo[l] \in Udo /\ udo'[l] = [udo[l] EXCEPT !.h = Lost]
    BY <1>0, <1>1, <1>4, UdoType DEF Current
  <2>2. QED
    BY <2>1 DEF Udo, NoUdo
<1>5. ASSUME NEW l \in Lease, udo[l] = NoUdo \/ udo[l].h # h PROVE udo'[l] = udo[l]
  BY <1>1, <1>5 DEF Current
<1>6. udo' \in [Lease -> Udo \cup {NoUdo}]
  BY <1>1, <1>2, <1>4, <1>5
<1>7. TypeOK'
  BY <1>0, <1>1, <1>3, <1>6 DEF TypeOK, Udo, Request
<1>8. OwnHandles'
  BY <1>0, <1>4, <1>5, HandleNotZero DEF OwnHandles
<1>9. ASSUME NEW l \in Lease PROVE TransferOK(l)'
  <2>1. CASE udo[l] # NoUdo /\ udo[l].h = h
    BY <1>0, <1>1, <1>4, <2>1, HandleNotZero DEF TransferOK
  <2>2. CASE udo[l] = NoUdo
    BY <1>5, <2>2 DEF TransferOK
  <2>3. CASE udo[l] # NoUdo /\ udo[l].h # h
    <3>1. udo'[l] = udo[l] /\ (udo[l].h \in Handle => req'[udo[l].h] = req[udo[l].h])
      BY <1>3, <1>5, <2>3
    <3>2. TransferOK(l)
      BY <1>0
    <3>3. udo[l].h \in Handle => RequestFits(l)'
      BY <1>1, <2>3, <3>1, <3>2 DEF TransferOK, RequestFits
    <3>4. QED
      BY <1>1, <2>3, <3>1, <3>2, <3>3 DEF TransferOK
  <2>4. QED
    BY <2>1, <2>2, <2>3
<1>10. ToldType' /\ ConfirmMatches'
  BY <1>0, <1>1 DEF ToldType, ConfirmMatches
<1>11. QED
  BY <1>7, <1>8, <1>9, <1>10 DEF BulkInv

-----------------------------------------------------------------------------
(* The invariant and what it gives.                                        *)

LEMMA BulkInit == Init => BulkInv
<1> SUFFICES ASSUME Init PROVE BulkInv
  OBVIOUS
<1>1. \A l \in Lease : udo[l] = NoUdo /\ told[l] = NotTold
  BY DEF Init
<1>2. TypeOK
  BY DEF Init, TypeOK
<1>3. ToldType /\ ConfirmMatches
  BY <1>1 DEF Init, ToldType, ConfirmMatches, NotTold
<1>4. OwnHandles /\ \A l \in Lease : TransferOK(l)
  BY <1>1 DEF OwnHandles, TransferOK
<1>5. QED
  BY <1>2, <1>3, <1>4 DEF BulkInv

LEMMA BulkNext == BulkInv /\ [Next]_vars => BulkInv'
<1> SUFFICES ASSUME BulkInv, [Next]_vars PROVE BulkInv'
  OBVIOUS
<1>1. ASSUME NEW l \in Lease,
             requestBulkOpen(l) \/ requestBulkTransfer(l) \/ requestBulkClose(l)
               \/ requestNotOwner(l) \/ CreateLease(l)
      PROVE  BulkInv'
  BY <1>1, OpenKeeps, TransferKeeps, CloseKeeps, NotOwnerKeeps, CreateLeaseKeeps
<1>2. ASSUME NEW l \in Lease, NEW up \in BOOLEAN, DeleteLease(l, up) PROVE BulkInv'
  BY <1>2, DeleteLeaseKeeps
<1>3. ASSUME NEW h \in Handle, ProcessAPDU(h) \/ ProcessISATimeout(h) \/ StackDiscards(h)
      PROVE  BulkInv'
  BY <1>3, ResolvedKeeps, DiscardKeeps
<1>4. CASE UNCHANGED vars
  BY <1>4 DEF vars, BulkInv, TypeOK, ToldType, OwnHandles, TransferOK, RequestFits,
              ConfirmMatches
<1>5. QED
  BY <1>1, <1>2, <1>3, <1>4 DEF Next

\* Type correctness: every transfer is kept in a state whose answers a handler of
\* BulkTransferSvc.cpp processes, and only a host that has a lease sends blocks.
THEOREM BulkTypeCorrect == Spec => []TypeOK
<1>1. BulkInv => TypeOK
  BY DEF BulkInv
<1>2. QED
  BY <1>1, BulkInit, BulkNext, PTL DEF Spec

\* A transfer is stuck only by a silent discard: every other entry of RemUDOList has
\* a request in the stack, whose answer or timeout goes on with it, or its host was
\* told that the last request went well and may send the next block.
THEOREM BulkStuckOnlyByDiscard == Spec => []StuckOnlyByDiscard
<1>1. BulkInv => StuckOnlyByDiscard
  <2> SUFFICES ASSUME BulkInv, NEW l \in Lease, udo[l] # NoUdo, udo[l].h # Lost
               PROVE  \/ udo[l].h # 0 /\ req[udo[l].h] # NoReq
                      \/ /\ udo[l].h = 0 /\ udo[l].st = "downloading"
                         /\ l \in opened /\ wait[l] = "none"
    BY DEF StuckOnlyByDiscard
  <2>1. TransferOK(l) /\ (udo[l].h = 0 \/ udo[l].h \in Handle)
    BY UdoType DEF BulkInv
  <2>2. QED
    BY <2>1, HandleNotZero DEF TransferOK, RequestFits
<1>2. QED
  BY <1>1, BulkInit, BulkNext, PTL DEF Spec

\* A host is only ever sent the confirm of the service it asked for, although the
\* confirm is chosen by the state of the transfer and its addressee by the tracker.
THEOREM BulkConfirmMatches == Spec => []ConfirmMatches
<1>1. BulkInv => ConfirmMatches
  BY DEF BulkInv
<1>2. QED
  BY <1>1, BulkInit, BulkNext, PTL DEF Spec

\* What OnLeaseDelete leaves behind is the gateway's own recovery: it has a request
\* in the stack, if the stack did not discard it, and its end is not confirmed to
\* the host of the ended lease.
THEOREM BulkOrphanRecovers == Spec => []OrphanRecovers
<1>1. BulkInv => OrphanRecovers
  <2> SUFFICES ASSUME BulkInv, NEW l \in Lease \ leased, udo[l] # NoUdo
               PROVE  udo[l].h # 0 /\ (udo[l].h = Lost \/ req[udo[l].h].own \notin Svc)
    BY DEF OrphanRecovers
  <2>1. TypeOK /\ TransferOK(l) /\ l \in Lease /\ l \notin leased
    BY DEF BulkInv
  <2>2. l \notin opened /\ udo[l].h \in Handle \cup {0, Lost}
    BY <2>1, UdoType DEF TypeOK
  <2>3. udo[l].h # 0
    BY <2>1, <2>2 DEF TransferOK
  <2>4. QED
    BY <2>1, <2>2, <2>3 DEF TransferOK, RequestFits
<1>2. QED
  BY <1>1, BulkInit, BulkNext, PTL DEF Spec
=============================================================================
