--------------------------- MODULE ContractService ---------------------------
(***************************************************************************)
(* What the DMO promises the services above it about contracts, whatever   *)
(* its request table looks like: at most one request per destination is    *)
(* outstanding, it is made only when there is no contract, and it ends     *)
(* with a contract or a failure.  GwLeases uses the DMO in this form;      *)
(* DmoContracts implements it.                                             *)
(***************************************************************************)
CONSTANT Dst            \* contract destinations

VARIABLES phase,        \* the request of each destination
          held          \* destinations with a contract in the table

svcVars == <<phase, held>>

Outstanding(d) == phase[d] # "idle"

SvcInit == phase = [d \in Dst |-> "idle"] /\ held = {}

\* A request is accepted: it waits for a key or for the System Manager
Request(d) ==
  /\ ~Outstanding(d) /\ d \notin held
  /\ \E w \in {"noKey", "waiting"} : phase' = [phase EXCEPT ![d] = w]
  /\ UNCHANGED held

Send(d) ==
  /\ phase[d] = "noKey" /\ phase' = [phase EXCEPT ![d] = "waiting"]
  /\ UNCHANGED held

\* The requests of S are given up
Fail(S) ==
  /\ \A d \in S : Outstanding(d)
  /\ phase' = [d \in Dst |-> IF d \in S THEN "idle" ELSE phase[d]]
  /\ UNCHANGED held

\* A request is granted
Grant(d) ==
  /\ Outstanding(d)
  /\ phase' = [phase EXCEPT ![d] = "idle"] /\ held' = held \cup {d}

\* The System Manager installs or removes a contract by itself
Install(d) == held' = held \cup {d} /\ UNCHANGED phase
Remove(d) == d \in held /\ held' = held \ {d} /\ UNCHANGED phase

Reset == phase' = [d \in Dst |-> "idle"] /\ held' = {}

SvcNext ==
  \/ \E d \in Dst : Request(d) \/ Send(d) \/ Grant(d) \/ Install(d) \/ Remove(d)
  \/ \E S \in SUBSET Dst : Fail(S)
  \/ Reset

SvcSpec == SvcInit /\ [][SvcNext]_svcVars
=============================================================================
