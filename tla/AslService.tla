----------------------------- MODULE AslService -----------------------------
(***************************************************************************)
(* What the ISA100 application sub-layer promises the services above it:   *)
(* a request that it accepts is answered, fails (UAP_DataTimeout), or is   *)
(* discarded without a word; the first two happen at most once and never   *)
(* both.  AslTx is the detailed specification; ClientServer is built on    *)
(* this one.                                                               *)
(***************************************************************************)
CONSTANT Handle

VARIABLE asl        \* the fate of each request handle

Fate == {"idle", "pending", "answered", "failed", "discarded"}

Init == asl = [h \in Handle |-> "idle"]

\* ASLSRVC_AddGenericObject returns SFC_SUCCESS.
Submit(h) ==
    /\ asl[h] = "idle"
    /\ asl' = [asl EXCEPT ![h] = "pending"]

\* ASLDE_SearchOriginalRequest finds the request of a response.
Answer(h) ==
    /\ asl[h] = "pending"
    /\ asl' = [asl EXCEPT ![h] = "answered"]

\* UAP_DataTimeout for the requests of F; those of D are dropped in silence.
Resolve(F, D) ==
    /\ \A h \in F \cup D : asl[h] = "pending"
    /\ asl' = [h \in Handle |-> CASE h \in F -> "failed"
                                  [] h \in D \ F -> "discarded"
                                  [] OTHER -> asl[h]]

Next ==
    \/ \E h \in Handle : Submit(h) \/ Answer(h)
    \/ \E F, D \in SUBSET Handle : Resolve(F, D)

Spec == Init /\ [][Next]_asl
=============================================================================
