------------------------------- MODULE AslTx --------------------------------
(***************************************************************************)
(* The transmit side of the ISA100 application sub-layer: the queue        *)
(* g_oAslMsgListTx of ISA100/aslde.cpp, its retries and timeouts, and the  *)
(* sliding window that each network-layer contract keeps.                  *)
(*                                                                         *)
(* The queue is the function msg: messages are appended in the order of    *)
(* their handles and never moved, so the order of the list is the order of *)
(* the handles.  A message marked APDU_READY_TO_CLEAR is skipped by every  *)
(* reader of the list, so marking it and erasing it are one state, "clear".*)
(* The gateway is one thread: a handler is one action, except the          *)
(* one-second pass over the queue, which is one action per message with    *)
(* the other handlers waiting for its end (cursor # 0).                    *)
(***************************************************************************)
EXTENDS Integers, FiniteSets, Sequences

CONSTANTS
    Contract,       \* network-layer contract ids, one per peer device
    Aperiodic,      \* the contracts with a send window (m_ucMaxSendWindow # 0)
    Window,         \* m_ucMaxSendWindow of those
    MaxMsg,         \* bound: messages ever queued
    Kinds,          \* subset of {"req", "norsp"}: is a response expected
    Prios,          \* message priorities
    Fits,           \* subset of BOOLEAN: does the APDU fit into a packet
    PacketMax,      \* APDUs that one packet holds
    RTOs,           \* retry timeouts that a contract may have computed
    TimeoutCap,     \* 60 s in the code
    FailTimeout,    \* 2 s in the code
    MaxRetry,       \* g_ucMaxUAPRetries
    Lifetime,       \* 300 s in the code
    ReqMod,         \* 256: request ids are a uint8
    MaxGen,         \* bound: incarnations of one contract
    Rewrites        \* BOOLEAN: may a contract in use be written again

ASSUME ConstantsOK ==
    /\ Aperiodic \subseteq Contract
    /\ Kinds \subseteq {"req", "norsp"} /\ Fits \subseteq BOOLEAN
    /\ Prios \subseteq Nat /\ RTOs \subseteq Nat
    /\ {Window, PacketMax, Lifetime, ReqMod} \subseteq Nat \ {0}
    /\ {MaxMsg, TimeoutCap, FailTimeout, MaxRetry, MaxGen} \subseteq Nat
    /\ Rewrites \in BOOLEAN

Handle == 1..MaxMsg

VARIABLES
    msg,        \* g_oAslMsgListTx
    added,      \* number of messages queued so far
    contract,   \* g_stNlme.m_oContractsMap
    conf,       \* g_astAPDUConf: the packet whose confirm is not yet handled
    cursor,     \* the message the one-second pass has reached, 0 outside it
    sent,       \* history: requests that have reached the network
    told        \* history: what the application was told of each message,
                \* 0 for a timeout, k for the answer to request k

vars == <<msg, added, contract, conf, cursor, sent, told>>

Status == {"none", "ready", "readyNoFC", "waitTL", "waitRsp", "confirmed", "clear"}

NoMsg == [st |-> "none"]
NoConf == [pkt |-> {}, ok |-> TRUE]
Fresh(g, r) == [live |-> TRUE, gen |-> g, req |-> r, crt |-> 1, inUse |-> 0, succ |-> 0]

Smaller(a, b) == IF a < b THEN a ELSE b
Queued == {h \in Handle : msg[h].st \notin {"none", "clear"}}

\* m_pWeakContract.lock(): the contract object of the message still exists.
HasContract(m) == contract[m.c].live /\ contract[m.c].gen = m.gen

(***************************************************************************)
(* The sliding window of a contract record w                               *)
(***************************************************************************)

\* m_nCrtWndSize cut to m_ucMaxSendWindow (ASLDE_SlidingWindowAllowsTX).
Clipped(w) == [w EXCEPT !.crt = Smaller(w.crt, Window)]

SlidingWindowAllowsTX(c) ==
    c \in Aperiodic => Smaller(contract[c].crt, Window) > contract[c].inUse

\* Mutant: a window closed by a timeout is not restarted.
ReceiveResponseNoRestart(c, w) ==
    LET used == IF w.inUse > 0 THEN w.inUse - 1 ELSE 0
    IN  IF c \notin Aperiodic THEN w
        ELSE IF w.crt > 0 /\ w.succ + 1 > w.crt
             THEN [w EXCEPT !.inUse = used, !.crt = @ + 1, !.succ = 0]
             ELSE [w EXCEPT !.inUse = used, !.succ = IF w.crt > 0 THEN @ + 1 ELSE @]

ReceiveResponseForSlidingWindow(c, w) ==
    LET used == IF w.inUse > 0 THEN w.inUse - 1 ELSE 0
        succ == IF w.crt > 0 THEN w.succ + 1 ELSE w.succ
        crt  == IF used = 0 /\ w.crt = 0 THEN 1 ELSE w.crt
    IN  IF c \notin Aperiodic THEN w
        ELSE IF succ > crt
             THEN [w EXCEPT !.inUse = used, !.crt = crt + 1, !.succ = 0]
             ELSE [w EXCEPT !.inUse = used, !.crt = crt, !.succ = succ]

ReceiveTimeoutForSlidingWindow(c, w) ==
    IF c \notin Aperiodic THEN w ELSE [w EXCEPT !.crt = 0, !.succ = 0]

\* A message leaves the window of its contract, if it holds a place there.
Released(m) ==
    IF HasContract(m) /\ m.inWnd
    THEN ReceiveResponseForSlidingWindow(m.c, contract[m.c])
    ELSE contract[m.c]

-----------------------------------------------------------------------------
\* The queue is empty; successful transactions may have widened the windows.
Init ==
    /\ msg = [h \in Handle |-> NoMsg]
    /\ added = 0
    /\ contract \in [Contract -> {[Fresh(1, 0) EXCEPT !.crt = n] : n \in 1..Window}]
    /\ conf = NoConf
    /\ cursor = 0
    /\ sent = {}
    /\ told = [h \in Handle |-> << >>]

(***************************************************************************)
(* ASLSRVC_AddGenericObject: the message is queued, a request with the     *)
(* next request id of the contract.  The time in which the contract hopes  *)
(* for an answer is computed from past round trips: any of RTOs.           *)
(***************************************************************************)
AddGenericObject(c, kind, prio, fits, rto) ==
    /\ cursor = 0
    /\ added < MaxMsg
    /\ contract[c].live
    /\ added' = added + 1
    /\ msg' = [msg EXCEPT ![added + 1] =
                 [st |-> IF kind = "req" THEN "ready" ELSE "readyNoFC",
                  c |-> c, gen |-> contract[c].gen, req |-> contract[c].req,
                  kind |-> kind, prio |-> prio, fits |-> fits,
                  timeout |-> rto, def |-> rto, retry |-> MaxRetry,
                  life |-> Lifetime, inWnd |-> FALSE]]
    /\ contract' = IF kind = "req"
                   THEN [contract EXCEPT ![c].req = (@ + 1) % ReqMod]
                   ELSE contract
    /\ UNCHANGED <<conf, cursor, sent, told>>

(***************************************************************************)
(* ASLDE_ASLTask: handle the confirm of the last packet, then build and    *)
(* send one packet.                                                        *)
(***************************************************************************)

\* Mutant: the state of the message is not looked at.
ConfirmedAnyState ==
    [h \in Handle |-> IF h \in conf.pkt /\ conf.ok /\ msg[h].kind = "req"
                      THEN [msg[h] EXCEPT !.st = "confirmed"] ELSE msg[h]]

\* ASLDE_checkTLConfirms
Confirmed ==
    [h \in Handle |->
        IF h \in conf.pkt /\ msg[h].st \in {"waitTL", "waitRsp"}
        THEN IF conf.ok
             THEN [msg[h] EXCEPT !.st = IF @ = "waitTL" THEN "clear" ELSE "confirmed"]
             ELSE [msg[h] EXCEPT !.timeout = FailTimeout]
        ELSE msg[h]]

Ready(q) == {h \in Handle : q[h].st \in {"ready", "readyNoFC"}}

\* ASLDE_searchHighestPriority looks at a message unless it has already found
\* one of the same or a higher priority.  The bandwidth limit of the contracts
\* delays the messages of D.
Eligible(q, D) ==
    {h \in Ready(q) \ D : /\ HasContract(q[h])
                          /\ q[h].st = "ready" => SlidingWindowAllowsTX(q[h].c)}
Examined(q, D) ==
    {h \in Ready(q) : \A k \in Eligible(q, D) : k < h => q[k].prio < q[h].prio}
Orphaned(q, D) == {h \in Examined(q, D) : ~HasContract(q[h])}
Highest(q, D) ==
    {h \in Eligible(q, D) : \A k \in Eligible(q, D) \ {h} :
        q[k].prio < q[h].prio \/ (q[k].prio = q[h].prio /\ h < k)}
Examines(q, D, c) ==
    c \in Aperiodic /\ \E h \in Examined(q, D) :
        q[h].st = "ready" /\ HasContract(q[h]) /\ q[h].c = c

Before(S, h) == {k \in S : k < h}
FlowControlled(q, S) == {k \in S : q[k].st = "ready"}

\* ASLDE_concatenateAPDUs takes the messages S of the candidates C, in order,
\* while there is room in the packet and in the window.
HasRoom(q, S, h) == q[h].fits /\ Cardinality(Before(S, h)) < PacketMax
InWindow(q, c, S, h) ==
    q[h].st = "ready" /\ c \in Aperiodic =>
        contract[c].inUse + Cardinality(FlowControlled(q, Before(S, h)))
            < Smaller(contract[c].crt, Window)
Concatenated(q, c, C, S) ==
    \A h \in C : h \in S <=> HasRoom(q, S, h) /\ InWindow(q, c, S, h)
Oversized(q, C, S) == {h \in C : ~q[h].fits /\ Before(S, h) = {}}

Notified(H) == [h \in Handle |-> IF h \in H THEN Append(told[h], 0) ELSE told[h]]

\* Mutant: the messages without a contract stay in the queue.
FlushNothingKept(D) ==
    LET q == Confirmed IN
    /\ Eligible(q, D) = {}
    /\ msg' = q
    /\ told' = Notified(Orphaned(q, D))
    /\ conf' = NoConf
    /\ UNCHANGED <<contract, sent>>

\* Nothing can be sent; messages without a contract are given up.
FlushNothing(D) ==
    LET q == Confirmed IN
    /\ Eligible(q, D) = {}
    /\ msg' = [h \in Handle |-> IF h \in Orphaned(q, D)
                                THEN [q[h] EXCEPT !.st = "clear"] ELSE q[h]]
    /\ contract' = [c \in Contract |-> IF Examines(q, D, c)
                                       THEN Clipped(contract[c]) ELSE contract[c]]
    /\ told' = Notified(Orphaned(q, D))
    /\ conf' = NoConf
    /\ UNCHANGED sent

\* A packet with the messages S goes down on the contract of the message f.
FlushPacket(D, f, S, ok) ==
    LET q == Confirmed
        c == q[f].c
        C == {h \in Ready(q) \ Orphaned(q, D) : q[h].c = c}
        asked == \E h \in C : q[h].st = "ready" /\ HasRoom(q, S, h)
    IN
    /\ S \subseteq C
    /\ Concatenated(q, c, C, S)
    /\ msg' = [h \in Handle |->
                 IF h \in Orphaned(q, D) \cup Oversized(q, C, S)
                 THEN [q[h] EXCEPT !.st = "clear"]
                 ELSE IF h \in S
                 THEN [q[h] EXCEPT !.st = IF q[h].kind = "req" THEN "waitRsp" ELSE "waitTL",
                                   !.inWnd = @ \/ q[h].st = "ready"]
                 ELSE q[h]]
    /\ contract' = [d \in Contract |->
                 LET w == IF Examines(q, D, d) \/ (d = c /\ c \in Aperiodic /\ asked)
                          THEN Clipped(contract[d]) ELSE contract[d]
                 IN  IF d = c /\ c \in Aperiodic
                     THEN [w EXCEPT !.inUse = @ + Cardinality(FlowControlled(q, S))]
                     ELSE w]
    /\ told' = Notified(Orphaned(q, D))
    /\ conf' = [pkt |-> S, ok |-> ok]
    /\ sent' = IF ok THEN sent \cup {h \in S : q[h].kind = "req"} ELSE sent

ASLTask ==
    /\ cursor = 0
    /\ \E D \in SUBSET Ready(Confirmed) :
          \/ FlushNothing(D)
          \/ \E f \in Highest(Confirmed, D), S \in SUBSET Ready(Confirmed), ok \in BOOLEAN :
                FlushPacket(D, f, S, ok)
    /\ UNCHANGED <<added, cursor>>

(***************************************************************************)
(* ASLDE_CheckAPDUTimeoutCountersOnTX, once a second, message by message.  *)
(***************************************************************************)
\* Mutant: the pass does not skip the messages marked for clearing.
AfterAny(h) == IF h < added THEN h + 1 ELSE 0

After(h) ==
    LET later == {k \in Queued : k > h}
    IN  IF later = {} THEN 0 ELSE CHOOSE k \in later : \A j \in later : k <= j

OneSecond ==
    /\ cursor = 0
    /\ Queued # {}
    /\ cursor' = After(0)
    /\ UNCHANGED <<msg, added, contract, conf, sent, told>>

\* Mutant: a message that has been in the queue for too long goes in silence.
OutlivedSilently(h) ==
    /\ msg[h].life = 1
    /\ msg' = [msg EXCEPT ![h].st = "clear", ![h].life = 0]
    /\ contract' = [contract EXCEPT ![msg[h].c] = Released(msg[h])]
    /\ UNCHANGED told

\* The message has been in the queue for too long.
Outlived(h) ==
    /\ msg[h].life = 1
    /\ msg' = [msg EXCEPT ![h].st = "clear", ![h].life = 0]
    /\ contract' = [contract EXCEPT ![msg[h].c] = Released(msg[h])]
    /\ told' = [told EXCEPT ![h] = Append(@, 0)]

\* The message waits to be sent, or its timeout has not run out.
Waits(h) ==
    /\ msg[h].life > 1
    /\ msg[h].st \in {"ready", "readyNoFC"} \/ msg[h].timeout > 0
    /\ msg' = [msg EXCEPT ![h].life = @ - 1,
                          ![h].timeout = IF msg[h].st \in {"ready", "readyNoFC"}
                                         THEN @ ELSE @ - 1]
    /\ UNCHANGED <<contract, told>>

\* ASLDE_retryMessage with retries left
Retry(h) ==
    LET m == msg[h]
        def == Smaller(2 * m.def, TimeoutCap)
    IN
    /\ m.life > 1 /\ m.st \in {"waitTL", "waitRsp", "confirmed"} /\ m.timeout = 0
    /\ m.retry > 0
    /\ msg' = [msg EXCEPT ![h] = [m EXCEPT !.life = @ - 1, !.retry = @ - 1,
                                           !.def = def, !.timeout = def,
                                           !.st = "readyNoFC"]]
    /\ contract' = IF HasContract(m)
                   THEN [contract EXCEPT ![m.c] = ReceiveTimeoutForSlidingWindow(m.c, @)]
                   ELSE contract
    /\ UNCHANGED told

\* ASLDE_retryMessage after the last retry
GiveUp(h) ==
    LET m == msg[h]
        w == ReceiveTimeoutForSlidingWindow(m.c, contract[m.c])
    IN
    /\ m.life > 1 /\ m.st \in {"waitTL", "waitRsp", "confirmed"} /\ m.timeout = 0
    /\ m.retry = 0
    /\ msg' = [msg EXCEPT ![h].st = "clear", ![h].life = @ - 1]
    /\ contract' = CASE ~HasContract(m) -> contract
                     [] HasContract(m) /\ m.inWnd ->
                          [contract EXCEPT ![m.c] = ReceiveResponseForSlidingWindow(m.c, w)]
                     [] OTHER -> [contract EXCEPT ![m.c] = w]
    /\ told' = [told EXCEPT ![h] = Append(@, 0)]

CheckTimeoutOnTX ==
    /\ cursor # 0
    /\ \/ Outlived(cursor)
       \/ Waits(cursor)
       \/ Retry(cursor)
       \/ GiveUp(cursor)
    /\ cursor' = After(cursor)
    /\ UNCHANGED <<added, conf, sent>>

(***************************************************************************)
(* A response to request k reaches the gateway, perhaps late, perhaps more *)
(* than once: ASLDE_SearchOriginalRequest takes the first queued request to *)
(* that device with the same request id.                                   *)
(***************************************************************************)
\* Mutants: a cleared request still matches; the request id is not compared.
MatchingCleared(k) ==
    {h \in 1..added : /\ msg[h].kind = "req"
                      /\ msg[h].c = msg[k].c /\ msg[h].req = msg[k].req
                      /\ HasContract(msg[h])}
MatchingAnyId(k) ==
    {h \in Queued : msg[h].kind = "req" /\ msg[h].c = msg[k].c /\ HasContract(msg[h])}

Matching(k) ==
    {h \in Queued : /\ msg[h].kind = "req"
                    /\ msg[h].c = msg[k].c /\ msg[h].req = msg[k].req
                    /\ HasContract(msg[h])}

SearchOriginalRequest(k, h) ==
    /\ cursor = 0
    /\ k \in sent
    /\ h \in Matching(k) /\ \A j \in Matching(k) : h <= j
    /\ msg' = [msg EXCEPT ![h].st = "clear"]
    /\ contract' = [contract EXCEPT ![msg[h].c] = Released(msg[h])]
    /\ told' = [told EXCEPT ![h] = Append(@, k)]
    /\ UNCHANGED <<added, conf, cursor, sent>>

(***************************************************************************)
(* The contract table (ISA100/nlme.cpp) changes under the queue.           *)
(***************************************************************************)
NLME_DeleteContract(c) ==
    /\ cursor = 0
    /\ contract[c].live
    /\ contract[c].gen < MaxGen
    /\ contract' = [contract EXCEPT ![c].live = FALSE]
    /\ UNCHANGED <<msg, added, conf, cursor, sent, told>>

\* Mutant: the new contract takes over the window of the old one.
NLME_AddDmoContractKept(c, r) ==
    /\ cursor = 0
    /\ ~contract[c].live
    /\ contract' = [contract EXCEPT ![c] = [@ EXCEPT !.live = TRUE, !.gen = @ + 1, !.req = r]]
    /\ UNCHANGED <<msg, added, conf, cursor, sent, told>>

\* A new contract object under a free id; its request ids start at random.
NLME_AddDmoContract(c, r) ==
    /\ cursor = 0
    /\ ~contract[c].live
    /\ contract' = [contract EXCEPT ![c] = Fresh(@.gen + 1, r)]
    /\ UNCHANGED <<msg, added, conf, cursor, sent, told>>

\* The contract is written again while it is in use: the object stays, its
\* window starts afresh.
NLME_setContract(c) ==
    /\ cursor = 0
    /\ Rewrites
    /\ contract[c].live
    /\ contract' = [contract EXCEPT ![c] = Fresh(@.gen, @.req)]
    /\ UNCHANGED <<msg, added, conf, cursor, sent, told>>

Next ==
    \/ \E c \in Contract, kind \in Kinds, prio \in Prios, fits \in Fits, rto \in RTOs :
          AddGenericObject(c, kind, prio, fits, rto)
    \/ ASLTask
    \/ OneSecond
    \/ CheckTimeoutOnTX
    \/ \E k, h \in Handle : SearchOriginalRequest(k, h)
    \/ \E c \in Contract : NLME_DeleteContract(c) \/ NLME_setContract(c)
    \/ \E c \in Contract, r \in 0..(ReqMod - 1) : NLME_AddDmoContract(c, r)

Spec == Init /\ [][Next]_vars

(***************************************************************************)
(* CGwApp::Run calls ASLDE_ASLTask on every turn of its loop and the       *)
(* one-second operations whenever the timer signals.                       *)
(***************************************************************************)
FairSpec == Spec /\ WF_vars(ASLTask) /\ WF_vars(OneSecond) /\ WF_vars(CheckTimeoutOnTX)

-----------------------------------------------------------------------------
Message ==
    [st : Status \ {"none"}, c : Contract, gen : Nat, req : Nat, kind : {"req", "norsp"},
     prio : Nat, fits : BOOLEAN, timeout : Nat, def : Nat, retry : Nat, life : Nat,
     inWnd : BOOLEAN]
ContractRecord ==
    [live : BOOLEAN, gen : Nat, req : Nat, crt : Nat, inUse : Nat, succ : Nat]

\* Type correctness: the queue is filled in the order of the handles.
TypeOK ==
    /\ added \in 0..MaxMsg
    /\ msg \in [Handle -> Message \cup {NoMsg}]
    /\ \A h \in Handle : msg[h] \in Message <=> h <= added
    /\ contract \in [Contract -> ContractRecord]
    /\ conf \in [pkt : SUBSET Handle, ok : BOOLEAN]
    /\ cursor \in Handle \cup {0}
    /\ cursor # 0 => cursor \in Queued
    /\ sent \subseteq 1..added
    /\ told \in [Handle -> Seq(Handle \cup {0})]

\* The messages that hold a place in the window of the contract c.
Outstanding(c) == {h \in Queued : msg[h].inWnd /\ msg[h].c = c /\ HasContract(msg[h])}

\* m_nInUseWndSize counts the outstanding requests of the contract, through
\* retries, failed sends, late answers and expiry: no place is lost or freed
\* twice.
SlotsAccounted ==
    \A c \in Aperiodic : contract[c].live =>
        contract[c].inUse = Cardinality(Outstanding(c))

\* The same when the contract may be written again in mid-flight: the window
\* may forget a request, but it never keeps a place that nobody will free.
NoSlotLeaked ==
    \A c \in Aperiodic : contract[c].live =>
        contract[c].inUse <= Cardinality(Outstanding(c))

\* A window closed by a timeout still has an outstanding request, whose end
\* will open it: "we have just cleared the pipe after a timeout"
\* (aslde.cpp:1279).
WindowReopens ==
    \A c \in Aperiodic : contract[c].live /\ contract[c].crt = 0 =>
        Outstanding(c) # {}

\* The application hears of a message at most once: never an answer and a
\* timeout, never two of either.
ToldOnce == \A h \in Handle : Len(told[h]) <= 1

\* The requests made on the contract object of k from k to h, h itself not counted
RequestsBetween(k, h) ==
    {j \in Handle : /\ k <= j /\ j < h
                    /\ j <= added /\ msg[j].kind = "req"
                    /\ msg[j].c = msg[k].c /\ msg[j].gen = msg[k].gen}

\* A request is given its own answer, or a late one that has its request id for
\* one of two reasons: the contract was made again since, and its ids started
\* anywhere; or the ids have come round between the two, which takes as many
\* requests on the contract as there are ids ("Possible Req ID overflow",
\* GwUAP.cpp:322).
AnswersOwn ==
    \A h \in Handle : \A i \in 1..Len(told[h]) :
        LET k == told[h][i] IN
        \/ k \in {0, h}
        \/ msg[k].gen # msg[h].gen
        \/ k < h /\ Cardinality(RequestsBetween(k, h)) % ReqMod = 0
        \/ h < k /\ Cardinality(RequestsBetween(h, k)) % ReqMod = 0

\* Every request that the stack accepts is answered or timed out: "The stack
\* guarantees to generate timeout notification" (MsgTracker.cpp:233).
RequestResolved ==
    \A h \in Handle : (h \in Queued /\ msg[h].kind = "req") ~> (told[h] # << >>)

\* A window that a timeout has closed opens again, or its contract goes away.
WindowRecovers ==
    \A c \in Aperiodic :
        (contract[c].live /\ contract[c].crt = 0)
            ~> (~contract[c].live \/ contract[c].crt > 0)

\* The queue implements the service that the layers above rely on.
fate == [h \in Handle |->
           CASE h > added -> "idle"
             [] h \in Queued -> "pending"
             [] h <= added /\ h \notin Queued ->
                  IF told[h] = << >> THEN "discarded"
                  ELSE IF told[h][1] = 0 THEN "failed" ELSE "answered"]
Service == INSTANCE AslService WITH asl <- fate
ImplementsAslService == Service!Spec
=============================================================================
