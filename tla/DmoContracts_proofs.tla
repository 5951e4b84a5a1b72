------------------------- MODULE DmoContracts_proofs -------------------------
(***************************************************************************)
(* The request table of the DMO, for any number of destinations, request   *)
(* ids and contracts: its types and the uniqueness of its entries, and,    *)
(* with no more destinations than request ids, that every accepted request *)
(* can still be answered, that no answer is taken for another destination, *)
(* and that the table implements ContractService.                          *)
(***************************************************************************)
EXTENDS DmoContracts, FiniteSetTheorems, WellFoundedInduction, TLAPS

-----------------------------------------------------------------------------
(* Searching for a request id.                                             *)

\* A search for the least id that satisfies a condition finds one if there is one.
LEMMA HasLeast ==
  ASSUME NEW S \in SUBSET Nat, S # {}
  PROVE  Least(S) # {}
<1> DEFINE R == {ss \in Nat \X Nat : ss[1] < ss[2]}
<1>1. IsWellFoundedOn(R, Nat)
  BY NatLessThanWellFounded, Zenon DEF OpToRel
<1>2. PICK x \in S : \A y \in S : ~ (<<y, x>> \in R)
  <2> HIDE DEF R
  <2>1. QED
    BY <1>1, WFMin
<1>3. \A y \in S : ~ (y < x)
  BY <1>2
<1>4. \A y \in S : x <= y
  BY <1>3
<1>5. QED
  BY <1>4 DEF Least

\* Every id that a search yields is a request id.
LEMMA FoundIds ==
  ASSUME TypeOK
  PROVE  FreeIds \subseteq ReqId /\ ReclaimIds \subseteq ReqId
BY ByteAssumption DEF FreeIds, ReclaimIds, Least, AtLeast, Free, Failed, Used, ReqId

\* An id is reclaimed only when all are in use.
LEMMA ReclaimUsed ==
  ASSUME TypeOK, FreeIds = {}
  PROVE  Free = {} /\ ReclaimIds \subseteq Used
<1>1. Free \subseteq Nat
  BY ByteAssumption DEF Free, ReqId
<1>2. Least(Free) = {}
  BY HasLeast, <1>1 DEF FreeIds, AtLeast
<1>3. Free = {}
  BY <1>1, <1>2, HasLeast
<1>4. QED
  BY <1>3, FoundIds DEF Free

-----------------------------------------------------------------------------
(* Types and uniqueness, for any constants.                                *)

\* The type of an entry, field by field.
LEMMA EntryType ==
  ASSUME TypeOK, NEW i \in Used
  PROVE  /\ i \in ReqId /\ pend[i] \in Entries
         /\ pend[i].dst \in Dst /\ pend[i].status \in {"PENDING", "NO_KEY", "FAILED"}
         /\ pend[i].left \in 0..Timeout
<1>1. i \in ReqId /\ pend[i] \in Entries
  BY DEF Used, TypeOK
<1>2. QED
  BY <1>1 DEF Entries

LEMMA EntryMade ==
  ASSUME NEW d \in Dst, NEW st \in {"PENDING", "NO_KEY", "FAILED"}, NEW n \in 0..Timeout
  PROVE  /\ Entry(d, st, n) \in Entries /\ Entry(d, st, n) # None
         /\ Entry(d, st, n).dst = d /\ Entry(d, st, n).status = st
BY DEF Entry, Entries, None

\* The uint8 counter stays in its range, whatever is added or subtracted.
LEMMA CountType ==
  ASSUME NEW n \in Int
  PROVE  Count(n) \in 0..(CountMod - 1)
BY ByteAssumption DEF Count

\* What Proceed does to the table: nothing, or a new entry for d under the id i.
LEMMA ProceedShape ==
  ASSUME TypeOK, NEW i \in ReqId, NEW d \in Dst, NEW p \in [ReqId -> Entries \cup {None}],
         NEW n \in 0..(CountMod - 1), NEW a \in SUBSET Dst, Proceed(i, d, p, n, a)
  PROVE  /\ rspPending' \in 0..(CountMod - 1)
         /\ net' = net \/ net' = net \cup {Req(i, d)}
         /\ net' \subseteq Message
         /\ asked' = a \/ asked' = a \cup {d}
         /\ \/ pend' = p /\ asked' = a /\ net' = net
            \/ \E st \in {"PENDING", "NO_KEY"} : pend' = [p EXCEPT ![i] = Entry(d, st, Timeout)]
<1>1. Count(n + 1) \in 0..(CountMod - 1)
  BY CountType, ByteAssumption
<1>2. Req(i, d) \in Message
  BY DEF Req, Message
<1>3. net \subseteq Message
  BY DEF TypeOK
<1>4. QED
  BY <1>1, <1>2, <1>3 DEF Proceed, Sent, NotSent

\* If at most the entry under the id i gets a destination, one that no other entry
\* has, destinations stay unique.
LEMMA UniqueKept ==
  ASSUME TypeOK, UniqueDst, NEW i \in ReqId,
         \A j \in ReqId : j # i => pend'[j] = None \/ (j \in Used /\ pend'[j].dst = pend[j].dst),
         pend'[i] = None \/ \A j \in Used : j # i => pend[j].dst # pend'[i].dst
  PROVE  UniqueDst'
BY DEF UniqueDst, Used

\* The inductive invariant of the table.
TableInv == TypeOK /\ UniqueDst

LEMMA InitTable == Init => TableInv
BY ByteAssumption DEF Init, TableInv, TypeOK, UniqueDst, Used, ReqId

\* A request under the id i, which is free or whose entry is given up.
LEMMA ProceedTable ==
  ASSUME TableInv, NEW i \in ReqId, NEW d \in Dst, NEW p \in [ReqId -> Entries \cup {None}],
         NEW n \in 0..(CountMod - 1), NEW a \in SUBSET Dst, Proceed(i, d, p, n, a),
         \A j \in ReqId : j # i => p[j] = pend[j],
         i \in Used => p[i] # None /\ p[i].dst = pend[i].dst,
         i \notin Used => p[i] = None,
         \A j \in Used : j # i => pend[j].dst # d,
         nextId' \in ReqId, UNCHANGED <<table, joined>>
  PROVE  TableInv'
<1>1. TypeOK /\ UniqueDst
  BY DEF TableInv
<1>2. \/ pend' = p
      \/ \E st \in {"PENDING", "NO_KEY"} : pend' = [p EXCEPT ![i] = Entry(d, st, Timeout)]
  BY <1>1, ProceedShape
<1>3. \A st \in {"PENDING", "NO_KEY"} :
         Entry(d, st, Timeout) \in Entries /\ Entry(d, st, Timeout).dst = d
  BY EntryMade, LimitAssumption
<1>4. pend' \in [ReqId -> Entries \cup {None}]
  BY <1>2, <1>3
<1>5. TypeOK'
  BY <1>1, <1>4, ProceedShape DEF TypeOK
<1>6. \A j \in ReqId : j # i => pend'[j] = pend[j]
  BY <1>2
<1>7. pend'[i] = None \/ \A j \in Used : j # i => pend[j].dst # pend'[i].dst
  <2>1. CASE pend' = p
    BY <1>1, <2>1 DEF UniqueDst
  <2>2. CASE \E st \in {"PENDING", "NO_KEY"} : pend' = [p EXCEPT ![i] = Entry(d, st, Timeout)]
    BY <1>3, <2>2
  <2>3. QED
    BY <1>2, <2>1, <2>2
<1>8. UniqueDst'
  <2>1. \A j \in ReqId : j # i => pend'[j] = None \/ (j \in Used /\ pend'[j].dst = pend[j].dst)
    BY <1>6 DEF Used
  <2>2. QED
    BY <1>1, <1>7, <2>1, UniqueKept
<1>9. QED
  BY <1>5, <1>8 DEF TableInv

\* Every handler keeps the types and the uniqueness of destinations.
LEMMA NextTable == TableInv /\ [Next]_vars => TableInv'
<1> SUFFICES ASSUME TableInv, [Next]_vars PROVE TableInv'
  OBVIOUS
<1>0. TypeOK /\ UniqueDst
  BY DEF TableInv
<1>t. /\ pend \in [ReqId -> Entries \cup {None}] /\ rspPending \in 0..(CountMod - 1)
      /\ nextId \in ReqId /\ table \subseteq Contract /\ net \subseteq Message
      /\ asked \subseteq Dst
  BY <1>0 DEF TypeOK
<1>n. \A i \in ReqId : (i + 1) % IdMod \in ReqId
  BY ByteAssumption DEF ReqId
<1>c. /\ Count(rspPending - 1) \in 0..(CountMod - 1)
      /\ \A n \in 0..(CountMod - 1) : Count(n + 1) \in 0..(CountMod - 1)
  BY <1>t, CountType, ByteAssumption
<1>1. ASSUME NEW d \in Dst, RequestDuplicate(d) PROVE TableInv'
  BY <1>0, <1>1 DEF RequestDuplicate, TableInv, TypeOK, UniqueDst, Used
<1>2. ASSUME NEW d \in Dst, RequestAgain(d) PROVE TableInv'
  <2>1. PICK i \in EntryOf(d) \cap Failed : Proceed(i, d, pend, rspPending, asked)
    BY <1>2 DEF RequestAgain
  <2>2. i \in Used /\ i \in ReqId /\ pend[i].dst = d
    BY <2>1 DEF EntryOf, Used
  <2>3. \A j \in Used : j # i => pend[j].dst # d
    BY <1>0, <2>2 DEF UniqueDst
  <2>4. QED
    BY <1>2, <1>t, <2>1, <2>2, <2>3, ProceedTable DEF RequestAgain, Used
<1>3. ASSUME NEW d \in Dst, RequestNew(d) PROVE TableInv'
  <2>1. PICK i \in FreeIds : Proceed(i, d, pend, rspPending, asked) /\ nextId' = (i + 1) % IdMod
    BY <1>3 DEF RequestNew
  <2>2. i \in ReqId
    BY <1>0, <2>1, FoundIds
  <2>3. \A j \in Used : pend[j].dst # d
    BY <1>3 DEF RequestNew, EntryOf
  <2>4. QED
    BY <1>3, <1>t, <1>n, <2>1, <2>2, <2>3, ProceedTable DEF RequestNew, Used
<1>4. ASSUME NEW d \in Dst, RequestReclaim(d) PROVE TableInv'
  <2> DEFINE p(i) == [pend EXCEPT ![i].status = "FAILED"]
  <2>1. PICK i \in ReclaimIds :
          /\ Proceed(i, d, p(i), Count(rspPending - 1), asked \ {pend[i].dst})
          /\ nextId' = (i + 1) % IdMod
    BY <1>4 DEF RequestReclaim
  <2>2. i \in Used /\ i \in ReqId /\ pend[i] \in Entries
    BY <1>0, <1>4, <2>1, ReclaimUsed, EntryType DEF RequestReclaim
  <2>3. [pend[i] EXCEPT !.status = "FAILED"] \in Entries
        /\ [pend[i] EXCEPT !.status = "FAILED"].dst = pend[i].dst
        /\ [pend[i] EXCEPT !.status = "FAILED"] # None
    BY <2>2 DEF Entries, None
  <2>4. /\ p(i) \in [ReqId -> Entries \cup {None}]
        /\ \A j \in ReqId : j # i => p(i)[j] = pend[j]
        /\ p(i)[i] # None /\ p(i)[i].dst = pend[i].dst
    BY <1>t, <2>2, <2>3
  <2>5. \A j \in Used : pend[j].dst # d
    BY <1>4 DEF RequestReclaim, EntryOf
  <2>6. asked \ {pend[i].dst} \in SUBSET Dst
    BY <1>t
  <2> HIDE DEF p
  <2>7. QED
    BY <1>4, <1>c, <1>n, <2>1, <2>2, <2>4, <2>5, <2>6, ProceedTable DEF RequestReclaim
<1>5. ASSUME NEW d \in Dst, KeyAdded(d) PROVE TableInv'
  <2>1. CASE rspPending = 0
    BY <1>0, <1>5, <2>1 DEF KeyAdded, TableInv, TypeOK, UniqueDst, Used
  <2>2. CASE rspPending # 0
    <3>1. PICK i \in EntryOf(d) :
            \/ Sent(pend, i, d, Count(rspPending - 1))
            \/ NotSent([pend EXCEPT ![i].status = "PENDING"], Count(rspPending - 1))
      BY <1>5, <2>2 DEF KeyAdded
    <3>2. i \in Used /\ i \in ReqId /\ pend[i] \in Entries /\ pend[i].dst = d
      BY <1>0, <3>1, EntryType DEF EntryOf
    <3>3. [pend[i] EXCEPT !.status = "PENDING"] \in Entries
          /\ [pend[i] EXCEPT !.status = "PENDING"].dst = d
      BY <3>2 DEF Entries
    <3>4. Entry(d, "PENDING", Timeout) \in Entries /\ Entry(d, "PENDING", Timeout).dst = d
      BY EntryMade, LimitAssumption
    <3>5. \E e \in Entries : e.dst = d /\ pend' = [pend EXCEPT ![i] = e]
      BY <1>t, <3>1, <3>2, <3>3, <3>4 DEF Sent, NotSent
    <3>6. Req(i, d) \in Message
      BY <3>2 DEF Req, Message
    <3>7. TypeOK'
      BY <1>0, <1>5, <1>c, <3>1, <3>2, <3>5, <3>6 DEF KeyAdded, Sent, NotSent, TypeOK
    <3>8. UniqueDst'
      <4>1. \A j \in ReqId : j # i =>
               pend'[j] = None \/ (j \in Used /\ pend'[j].dst = pend[j].dst)
        BY <1>t, <3>5 DEF Used
      <4>2. \A j \in Used : j # i => pend[j].dst # pend'[i].dst
        BY <1>0, <1>t, <3>2, <3>5 DEF UniqueDst
      <4>3. QED
        BY <1>0, <3>2, <4>1, <4>2, UniqueKept
    <3>9. QED
      BY <3>7, <3>8 DEF TableInv
  <2>3. QED
    BY <2>1, <2>2
<1>6. ASSUME NEW d \in Dst, SetContract(d) PROVE TableInv'
  <2>1. [dst |-> d, peer |-> d] \in Contract
    BY DEF Contract
  <2>2. QED
    BY <1>0, <1>6, <2>1 DEF SetContract, TableInv, TypeOK, UniqueDst, Used
<1>7. ASSUME NEW m \in net, ResponseError(m) PROVE TableInv'
  <2>1. m.id \in ReqId
    BY <1>t DEF Message
  <2>2. CASE m.id \in Used
    <3>1. pend[m.id].dst \in Dst
      BY <1>0, <2>2, EntryType
    <3> DEFINE e == Entry(pend[m.id].dst, "FAILED", 0)
    <3>2. e \in Entries /\ e.dst = pend[m.id].dst
      BY <3>1, EntryMade, LimitAssumption
    <3>3. pend' = [pend EXCEPT ![m.id] = e]
      BY <1>7, <2>2 DEF ResponseError
    <3> HIDE DEF e
    <3>4. TypeOK'
      BY <1>0, <1>7, <2>1, <2>2, <3>2, <3>3 DEF ResponseError, TypeOK
    <3>5. \A j \in ReqId : j # m.id =>
             pend'[j] = None \/ (j \in Used /\ pend'[j].dst = pend[j].dst)
      BY <1>t, <3>3 DEF Used
    <3>6. \A j \in Used : j # m.id => pend[j].dst # pend'[m.id].dst
      BY <1>0, <1>t, <2>1, <2>2, <3>2, <3>3 DEF UniqueDst
    <3>7. UniqueDst'
      BY <1>0, <2>1, <3>5, <3>6, UniqueKept
    <3>8. QED
      BY <3>4, <3>7 DEF TableInv
  <2>3. CASE m.id \notin Used
    BY <1>0, <1>7, <2>3 DEF ResponseError, TableInv, TypeOK, UniqueDst, Used
  <2>4. QED
    BY <2>2, <2>3
<1>8. ASSUME NEW m \in net, ContractResponse(m) PROVE TableInv'
  <2>1. m.id \in ReqId /\ m.peer \in Dst
    BY <1>t DEF Message
  <2>2. pend' = [pend EXCEPT ![m.id] = None]
    BY <1>8 DEF ContractResponse, Answered
  <2>3. Accepted(m) => [dst |-> pend[m.id].dst, peer |-> m.peer] \in Contract
    BY <1>0, <2>1, EntryType DEF Accepted, Contract
  <2>4. table' \subseteq Contract /\ rspPending' \in 0..(CountMod - 1) /\ asked' \subseteq Dst
    BY <1>8, <1>t, <1>c, <2>3 DEF ContractResponse
  <2>5. TypeOK'
    BY <1>0, <1>8, <2>1, <2>2, <2>4 DEF ContractResponse, TypeOK
  <2>6. UniqueDst'
    BY <1>0, <1>t, <2>1, <2>2, UniqueKept DEF Used
  <2>7. QED
    BY <2>5, <2>6 DEF TableInv
<1>9. ASSUME NEW m \in net, Lose(m) PROVE TableInv'
  BY <1>0, <1>9 DEF Lose, TableInv, TypeOK, UniqueDst, Used
<1>10. ASSUME NEW m \in net, NEW r \in {"ok", "refused", "sfc"}, SMAnswer(m, r) PROVE TableInv'
  <2>1. Rsp(m.id, m.peer, r) \in Message
    BY <1>t DEF Rsp, Message
  <2>2. QED
    BY <1>0, <1>10, <2>1 DEF SMAnswer, TableInv, TypeOK, UniqueDst, Used
<1>11. ASSUME NEW x \in table, DeleteContract(x) PROVE TableInv'
  BY <1>0, <1>11 DEF DeleteContract, TableInv, TypeOK, UniqueDst, Used
<1>12. ASSUME Tick PROVE TableInv'
  <2>1. ASSUME NEW i \in ReqId
        PROVE  /\ pend'[i] \in Entries \cup {None}
               /\ pend'[i] # None => i \in Used /\ pend'[i].dst = pend[i].dst
    <3>1. pend'[i] = IF i \in Overdue THEN [pend[i] EXCEPT !.status = "FAILED"]
                     ELSE IF i \in Used /\ pend[i].left > 0
                          THEN [pend[i] EXCEPT !.left = @ - 1] ELSE pend[i]
      BY <1>12 DEF Tick
    <3>2. CASE i \in Used
      <4>1. pend[i] \in Entries /\ pend[i].left \in 0..Timeout
        BY <1>0, <3>2, EntryType
      <4>2. [pend[i] EXCEPT !.status = "FAILED"] \in Entries
            /\ [pend[i] EXCEPT !.status = "FAILED"].dst = pend[i].dst
        BY <4>1 DEF Entries
      <4>3. pend[i].left > 0 =>
               /\ [pend[i] EXCEPT !.left = @ - 1] \in Entries
               /\ [pend[i] EXCEPT !.left = @ - 1].dst = pend[i].dst
        BY <4>1, LimitAssumption DEF Entries
      <4>4. QED
        BY <3>1, <3>2, <4>1, <4>2, <4>3
    <3>3. CASE i \notin Used
      BY <3>1, <3>3 DEF Used, Overdue
    <3>4. QED
      BY <3>2, <3>3
  <2>2. pend' \in [ReqId -> Entries \cup {None}]
    BY <1>12, <2>1 DEF Tick
  <2>3. rspPending' \in 0..(CountMod - 1)
    <3>1. IsFiniteSet(ReqId)
      BY FS_Interval, ByteAssumption DEF ReqId
    <3>2. Cardinality(Overdue) \in Nat
      BY <3>1, FS_Subset, FS_CardinalityType DEF Overdue, Used
    <3>3. QED
      BY <1>12, <1>t, <3>2, CountType, ByteAssumption DEF Tick
  <2>4. TypeOK'
    BY <1>0, <1>12, <2>2, <2>3 DEF Tick, TypeOK
  <2>5. UniqueDst'
    BY <1>0, <2>1 DEF UniqueDst, Used
  <2>6. QED
    BY <2>4, <2>5 DEF TableInv
<1>13. ASSUME StackReset PROVE TableInv'
  <2>1. TypeOK'
    <3>1. 0 \in 0..(CountMod - 1) /\ FALSE \in BOOLEAN
      BY ByteAssumption
    <3>2. [i \in ReqId |-> None] \in [ReqId -> Entries \cup {None}]
      OBVIOUS
    <3>3. QED
      BY <1>t, <1>13, <3>1, <3>2, Zenon DEF StackReset, TypeOK
  <2>2. UniqueDst'
    BY <1>13 DEF StackReset, UniqueDst, Used
  <2>3. QED
    BY <2>1, <2>2 DEF TableInv
<1>14. ASSUME Join PROVE TableInv'
  BY <1>0, <1>14 DEF Join, TableInv, TypeOK, UniqueDst, Used
<1>15. ASSUME UNCHANGED vars PROVE TableInv'
  BY <1>0, <1>15 DEF vars, TableInv, TypeOK, UniqueDst, Used
<1>16. QED
  BY <1>1, <1>2, <1>3, <1>4, <1>5, <1>6, <1>7, <1>8, <1>9, <1>10, <1>11, <1>12, <1>13,
     <1>14, <1>15 DEF Next

\* For any number of destinations and request ids, reclaimed ids included, the
\* request table keeps its types: an id is reclaimed only from an entry.
THEOREM DmoTypeCorrect == Spec => []TypeOK
<1>1. TableInv => TypeOK
  BY DEF TableInv
<1>2. QED
  BY <1>1, InitTable, NextTable, PTL DEF Spec

\* A destination has one entry in the request table, also when ids are used
\* again or reclaimed (DMO_RequestNewContract).
THEOREM DmoUniqueDst == Spec => []UniqueDst
<1>1. TableInv => UniqueDst
  BY DEF TableInv
<1>2. QED
  BY <1>1, InitTable, NextTable, PTL DEF Spec

-----------------------------------------------------------------------------
(* With no more destinations than request ids.                             *)

EnoughIds == Cardinality(Dst) <= IdMod

\* A destination without an entry finds a free id: no id is taken from another.
LEMMA NewIdFree ==
  ASSUME EnoughIds, TableInv, NEW d \in Dst, EntryOf(d) = {}
  PROVE  FreeIds # {} /\ FreeIds \subseteq Free
<1>0. TypeOK /\ UniqueDst
  BY DEF TableInv
<1>1. Free # {}
  <2>1. SUFFICES ASSUME Free = {} PROVE FALSE
    OBVIOUS
  <2> DEFINE f == [i \in ReqId |-> pend[i].dst]
  <2>2. \A i \in ReqId : i \in Used
    BY <2>1 DEF Free
  <2>3. \A i \in ReqId : pend[i].dst \in Dst \ {d}
    BY <1>0, <2>2, EntryType DEF EntryOf
  <2>4. f \in [ReqId -> Dst \ {d}]
    BY <2>3
  <2>5. IsFiniteSet(Dst \ {d}) /\ Cardinality(Dst \ {d}) = Cardinality(Dst) - 1
    BY DstFinite, FS_RemoveElement
  <2>6. IsFiniteSet(ReqId) /\ Cardinality(ReqId) = IdMod
    BY FS_Interval, ByteAssumption DEF ReqId
  <2>7. Cardinality(Dst \ {d}) < Cardinality(ReqId)
    BY <2>5, <2>6, DstFinite, FS_CardinalityType, ByteAssumption DEF EnoughIds
  <2>8. \E i, j \in ReqId : i # j /\ f[i] = f[j]
    <3> HIDE DEF f
    <3>1. QED
      BY <2>4, <2>5, <2>6, <2>7, FS_PigeonHole
  <2>9. QED
    BY <1>0, <2>2, <2>8 DEF UniqueDst
<1>2. Free \subseteq Nat /\ AtLeast(Free, nextId) \subseteq Nat
  BY ByteAssumption DEF Free, ReqId, AtLeast
<1>3. nextId = 0 => \A i \in Free : i \in AtLeast(Free, nextId)
  BY <1>2 DEF AtLeast
<1>4. CASE AtLeast(Free, nextId) # {}
  BY <1>2, <1>4, HasLeast DEF FreeIds, Least, AtLeast
<1>5. CASE AtLeast(Free, nextId) = {}
  BY <1>1, <1>2, <1>3, <1>5, HasLeast DEF FreeIds, Least
<1>6. QED
  BY <1>4, <1>5

\* A message in flight is about the destination of the entry whose id it names.
NetMatches == \A m \in net : m.id \in Used => pend[m.id].dst = m.peer

\* The inductive invariant: a grant is as right as the messages in flight are, and
\* those stay right because entries keep their destination while one is in flight.
AnswerInv == TableInv /\ Answerable /\ NetMatches /\ ContractMatches

\* If only the entry under the id i changes, and afterwards it is the entry of d
\* and waits, or d is not asked for, every accepted request can still be answered.
LEMMA AnswerableKept ==
  ASSUME TableInv, Answerable, NEW i \in ReqId, NEW d \in Dst,
         \A j \in ReqId : j # i => pend'[j] = pend[j],
         i \in Used => pend[i].dst = d,
         asked' \subseteq asked \cup {d},
         d \in asked' => i \in Used' /\ pend'[i].dst = d /\ Waiting(i)'
  PROVE  Answerable'
<1> SUFFICES ASSUME NEW e \in asked' PROVE \E j \in EntryOf(e)' : Waiting(j)'
  BY DEF Answerable
<1>1. CASE e = d
  BY <1>1 DEF EntryOf
<1>2. CASE e # d
  <2>1. PICK j \in EntryOf(e) : Waiting(j)
    BY <1>2 DEF Answerable
  <2>2. j \in ReqId /\ j # i
    BY <1>2, <2>1 DEF EntryOf, Used
  <2>3. QED
    BY <2>1, <2>2 DEF EntryOf, Used, Waiting
<1>3. QED
  BY <1>1, <1>2

\* A request under an id that is d's own or free, and then not in flight.
LEMMA ProceedAnswer ==
  ASSUME AnswerInv, NEW i \in ReqId, NEW d \in Dst, Proceed(i, d, pend, rspPending, asked),
         i \in Used => pend[i].dst = d,
         i \in Used \/ \A m \in net : m.id # i,
         d \notin asked, UNCHANGED table
  PROVE  Answerable' /\ NetMatches' /\ ContractMatches'
<1>0. TypeOK /\ Answerable /\ NetMatches /\ ContractMatches
  BY DEF AnswerInv, TableInv
<1>t. pend \in [ReqId -> Entries \cup {None}] /\ asked \in SUBSET Dst
      /\ rspPending \in 0..(CountMod - 1)
  BY <1>0 DEF TypeOK
<1>1. /\ net' = net \/ net' = net \cup {Req(i, d)}
      /\ asked' = asked \/ asked' = asked \cup {d}
      /\ \/ pend' = pend /\ asked' = asked /\ net' = net
         \/ \E st \in {"PENDING", "NO_KEY"} : pend' = [pend EXCEPT ![i] = Entry(d, st, Timeout)]
  BY <1>0, <1>t, ProceedShape
<1>2. \A st \in {"PENDING", "NO_KEY"} :
         /\ Entry(d, st, Timeout) # None /\ Entry(d, st, Timeout).dst = d
         /\ Entry(d, st, Timeout).status = st
  BY EntryMade, LimitAssumption
<1>3. CASE pend' = pend /\ asked' = asked /\ net' = net
  BY <1>0, <1>3 DEF Answerable, NetMatches, ContractMatches, EntryOf, Used, Waiting
<1>4. ASSUME NEW st \in {"PENDING", "NO_KEY"}, pend' = [pend EXCEPT ![i] = Entry(d, st, Timeout)]
      PROVE  Answerable' /\ NetMatches' /\ ContractMatches'
  <2>1. /\ \A j \in ReqId : j # i => pend'[j] = pend[j]
        /\ i \in Used' /\ pend'[i].dst = d /\ Waiting(i)'
    BY <1>t, <1>2, <1>4 DEF Used, Waiting
  <2>2. Answerable'
    BY <1>0, <1>1, <2>1, AnswerableKept DEF AnswerInv
  <2>3. NetMatches'
    <3> SUFFICES ASSUME NEW m \in net', m.id \in Used' PROVE pend'[m.id].dst = m.peer
      BY DEF NetMatches
    <3>1. CASE m.id = i
      <4>1. m \in net => m.peer = d
        BY <1>0, <3>1 DEF NetMatches
      <4>2. m \notin net => m.peer = d
        BY <1>1 DEF Req
      <4>3. QED
        BY <2>1, <3>1, <4>1, <4>2
    <3>2. CASE m.id # i
      <4>1. m \in net /\ m.id \in ReqId
        BY <1>1, <3>2 DEF Req, Used
      <4>2. QED
        BY <1>0, <2>1, <3>2, <4>1 DEF NetMatches, Used
    <3>3. QED
      BY <3>1, <3>2
  <2>4. QED
    BY <1>0, <2>2, <2>3 DEF ContractMatches
<1>5. QED
  BY <1>1, <1>3, <1>4

LEMMA InitAnswer == Init => AnswerInv
<1>1. Init => Answerable /\ NetMatches /\ ContractMatches
  BY DEF Init, Answerable, NetMatches, ContractMatches
<1>2. QED
  BY <1>1, InitTable DEF AnswerInv

\* Every handler keeps accepted requests answerable and the answers in flight
\* right.
LEMMA NextAnswer == EnoughIds /\ AnswerInv /\ [Next]_vars => AnswerInv'
<1> SUFFICES ASSUME EnoughIds, AnswerInv, [Next]_vars PROVE AnswerInv'
  OBVIOUS
<1> DEFINE Goal == Answerable' /\ NetMatches' /\ ContractMatches'
<1>0. TypeOK /\ UniqueDst /\ Answerable /\ NetMatches /\ ContractMatches /\ TableInv
  BY DEF AnswerInv, TableInv
<1>t. /\ pend \in [ReqId -> Entries \cup {None}] /\ rspPending \in 0..(CountMod - 1)
      /\ net \subseteq Message /\ asked \subseteq Dst
  BY <1>0 DEF TypeOK
<1>1. ASSUME NEW d \in Dst, RequestDuplicate(d) PROVE Goal
  BY <1>0, <1>1
  DEF RequestDuplicate, Answerable, NetMatches, ContractMatches, EntryOf, Used, Waiting
<1>2. ASSUME NEW d \in Dst, RequestAgain(d) PROVE Goal
  <2>1. PICK i \in EntryOf(d) \cap Failed : Proceed(i, d, pend, rspPending, asked)
    BY <1>2 DEF RequestAgain
  <2>2. i \in Used /\ i \in ReqId /\ pend[i].dst = d /\ ~Waiting(i)
    BY <2>1 DEF EntryOf, Failed, Used, Waiting
  <2>3. d \notin asked
    BY <1>0, <2>2 DEF Answerable, EntryOf, UniqueDst
  <2>4. QED
    BY <1>2, <2>1, <2>2, <2>3, ProceedAnswer DEF RequestAgain
<1>3. ASSUME NEW d \in Dst, RequestNew(d) PROVE Goal
  <2>1. PICK i \in FreeIds : Settled(i) /\ Proceed(i, d, pend, rspPending, asked)
    BY <1>3 DEF RequestNew
  <2>2. i \in Free
    BY <1>0, <1>3, <2>1, NewIdFree DEF RequestNew
  <2>3. i \in ReqId /\ i \notin Used /\ \A m \in net : m.id # i
    BY <2>1, <2>2 DEF Free, Settled
  <2>4. d \notin asked
    BY <1>0, <1>3 DEF RequestNew, Answerable
  <2>5. QED
    BY <1>3, <2>1, <2>3, <2>4, ProceedAnswer DEF RequestNew
<1>4. ASSUME NEW d \in Dst, RequestReclaim(d) PROVE Goal
  BY <1>0, <1>4, NewIdFree DEF RequestReclaim
<1>5. ASSUME NEW d \in Dst, KeyAdded(d) PROVE Goal
  <2>1. CASE rspPending = 0
    BY <1>0, <1>5, <2>1
    DEF KeyAdded, Answerable, NetMatches, ContractMatches, EntryOf, Used, Waiting
  <2>2. CASE rspPending # 0
    <3>1. PICK i \in EntryOf(d) :
            \/ Sent(pend, i, d, Count(rspPending - 1))
            \/ NotSent([pend EXCEPT ![i].status = "PENDING"], Count(rspPending - 1))
      BY <1>5, <2>2 DEF KeyAdded
    <3>2. i \in Used /\ i \in ReqId /\ pend[i] \in Entries /\ pend[i].dst = d
      BY <1>0, <3>1, EntryType DEF EntryOf
    <3>3. /\ \A j \in ReqId : j # i => pend'[j] = pend[j]
          /\ pend'[i] # None /\ pend'[i].dst = d /\ pend'[i].status = "PENDING"
      BY <1>t, <3>1, <3>2 DEF Sent, NotSent, Entry, Entries, None
    <3>4. i \in Used' /\ Waiting(i)'
      BY <3>2, <3>3 DEF Used, Waiting
    <3>5. Answerable'
      BY <1>0, <1>5, <3>2, <3>3, <3>4, AnswerableKept DEF KeyAdded
    <3>6. net' = net \/ net' = net \cup {Req(i, d)}
      BY <3>1 DEF Sent, NotSent
    <3>7. NetMatches'
      BY <1>0, <3>2, <3>3, <3>6 DEF NetMatches, Used, Req
    <3>8. ContractMatches'
      BY <1>0, <1>5 DEF KeyAdded, ContractMatches
    <3>9. QED
      BY <3>5, <3>7, <3>8
  <2>3. QED
    BY <2>1, <2>2
<1>6. ASSUME NEW d \in Dst, SetContract(d) PROVE Goal
  BY <1>0, <1>6
  DEF SetContract, Answerable, NetMatches, ContractMatches, EntryOf, Used, Waiting
<1>7. ASSUME NEW m \in net, ResponseError(m) PROVE Goal
  <2>1. m.id \in ReqId
    BY <1>t DEF Message
  <2>2. CASE m.id \in Used
    <3>1. pend[m.id].dst \in Dst
      BY <1>0, <2>2, EntryType
    <3>2. /\ \A j \in ReqId : j # m.id => pend'[j] = pend[j]
          /\ pend'[m.id].dst = pend[m.id].dst
      BY <1>t, <1>7, <2>1, <2>2 DEF ResponseError, Entry
    <3>3. asked' = asked \ {pend[m.id].dst} /\ net' = net \ {m} /\ table' = table
      BY <1>7, <2>2 DEF ResponseError
    <3>4. Answerable'
      BY <1>0, <2>1, <3>1, <3>2, <3>3, AnswerableKept
    <3>5. NetMatches'
      BY <1>0, <2>2, <3>2, <3>3 DEF NetMatches, Used
    <3>6. QED
      BY <1>0, <3>3, <3>4, <3>5 DEF ContractMatches
  <2>3. CASE m.id \notin Used
    BY <1>0, <1>7, <2>3
    DEF ResponseError, Answerable, NetMatches, ContractMatches, EntryOf, Used, Waiting
  <2>4. QED
    BY <2>2, <2>3
<1>8. ASSUME NEW m \in net, ContractResponse(m) PROVE Goal
  <2>1. m.id \in ReqId /\ m.peer \in Dst
    BY <1>t DEF Message
  <2>2. \A j \in ReqId : j # m.id => pend'[j] = pend[j]
    BY <1>t, <1>8, <2>1 DEF ContractResponse, Answered
  <2>3. m.id \notin Used' /\ net' = net \ {m}
    BY <1>t, <1>8, <2>1 DEF ContractResponse, Answered, Used
  <2>4. NetMatches'
    BY <1>0, <2>2, <2>3 DEF NetMatches, Used
  <2>5. Answerable'
    <3>1. CASE m.id \in Used
      <4>1. pend[m.id].dst \in Dst
        BY <1>0, <3>1, EntryType
      <4>2. asked' \subseteq asked /\ pend[m.id].dst \notin asked'
        <5>1. CASE Accepted(m)
          BY <1>8, <5>1 DEF ContractResponse
        <5>2. CASE ~Accepted(m)
          <6>1. pend[m.id].dst \notin asked
            BY <1>0, <3>1, <5>2 DEF Accepted, Answerable, EntryOf, UniqueDst
          <6>2. QED
            BY <1>8, <5>2, <6>1 DEF ContractResponse
        <5>3. QED
          BY <5>1, <5>2
      <4>3. QED
        BY <1>0, <2>1, <2>2, <3>1, <4>1, <4>2, AnswerableKept
    <3>2. CASE m.id \notin Used
      <4>1. asked' = asked
        BY <1>8, <3>2 DEF ContractResponse, Accepted
      <4>2. QED
        BY <1>0, <2>2, <3>2, <4>1 DEF Answerable, EntryOf, Used, Waiting
    <3>3. QED
      BY <3>1, <3>2
  <2>6. ContractMatches'
    <3>1. table' = table \/ (/\ Accepted(m)
                             /\ table' = table \cup {[dst |-> pend[m.id].dst, peer |-> m.peer]})
      BY <1>8 DEF ContractResponse
    <3>2. Accepted(m) => pend[m.id].dst = m.peer
      BY <1>0 DEF Accepted, NetMatches
    <3>3. QED
      BY <1>0, <3>1, <3>2 DEF ContractMatches
  <2>7. QED
    BY <2>4, <2>5, <2>6
<1>9. ASSUME NEW m \in net, Lose(m) PROVE Goal
  BY <1>0, <1>9 DEF Lose, Answerable, NetMatches, ContractMatches, EntryOf, Used, Waiting
<1>10. ASSUME NEW m \in net, NEW r \in {"ok", "refused", "sfc"}, SMAnswer(m, r) PROVE Goal
  <2>1. NetMatches'
    BY <1>0, <1>10 DEF SMAnswer, NetMatches, Rsp, Used
  <2>2. QED
    BY <1>0, <1>10, <2>1
    DEF SMAnswer, Answerable, ContractMatches, EntryOf, Used, Waiting
<1>11. ASSUME NEW x \in table, DeleteContract(x) PROVE Goal
  BY <1>0, <1>11
  DEF DeleteContract, Answerable, NetMatches, ContractMatches, EntryOf, Used, Waiting
<1>12. ASSUME Tick PROVE Goal
  <2>1. ASSUME NEW i \in Used
        PROVE  /\ i \in Used' /\ pend'[i].dst = pend[i].dst
               /\ i \notin Overdue => pend'[i].status = pend[i].status
    <3>1. i \in ReqId /\ pend[i] \in Entries
      BY <1>0, EntryType
    <3>2. pend'[i] = IF i \in Overdue THEN [pend[i] EXCEPT !.status = "FAILED"]
                     ELSE IF i \in Used /\ pend[i].left > 0
                          THEN [pend[i] EXCEPT !.left = @ - 1] ELSE pend[i]
      BY <1>12, <3>1 DEF Tick
    <3>3. pend'[i].dst = pend[i].dst /\ (i \notin Overdue => pend'[i].status = pend[i].status)
          /\ pend'[i] # None
      BY <3>1, <3>2 DEF Entries, None
    <3>4. QED
      BY <3>1, <3>3 DEF Used
  <2>2. asked' = asked \ {pend[i].dst : i \in Overdue} /\ net' = net /\ table' = table
    BY <1>12 DEF Tick
  <2>3. Answerable'
    <3> SUFFICES ASSUME NEW d \in asked' PROVE \E i \in EntryOf(d)' : Waiting(i)'
      BY DEF Answerable
    <3>1. PICK i \in EntryOf(d) : Waiting(i)
      BY <1>0, <2>2 DEF Answerable
    <3>2. i \in Used /\ pend[i].dst = d /\ i \notin Overdue
      BY <2>2, <3>1 DEF EntryOf
    <3>3. QED
      BY <2>1, <3>1, <3>2 DEF EntryOf, Waiting
  <2>4. \A i \in Used' : i \in Used
    BY <1>12 DEF Tick, Used, Overdue
  <2>5. NetMatches'
    BY <1>0, <2>1, <2>2, <2>4 DEF NetMatches
  <2>6. QED
    BY <1>0, <2>2, <2>3, <2>5 DEF ContractMatches
<1>13. ASSUME StackReset PROVE Goal
  BY <1>13 DEF StackReset, Answerable, NetMatches, ContractMatches
<1>14. ASSUME Join PROVE Goal
  BY <1>0, <1>14 DEF Join, Answerable, NetMatches, ContractMatches, EntryOf, Used, Waiting
<1>15. ASSUME UNCHANGED vars PROVE Goal
  BY <1>0, <1>15 DEF vars, Answerable, NetMatches, ContractMatches, EntryOf, Used, Waiting
<1>16. Goal
  <2> HIDE DEF Goal
  <2>1. QED
    BY <1>1, <1>2, <1>3, <1>4, <1>5, <1>6, <1>7, <1>8, <1>9, <1>10, <1>11, <1>12, <1>13,
       <1>14, <1>15 DEF Next
<1>17. QED
  BY <1>0, <1>16, NextTable DEF AnswerInv

\* "supposedly all contract requests receive an answer from the stack"
\* (LeaseMgmtSvc.cpp:682): with no more destinations than request ids, an
\* accepted request without an answer is still in the table and waiting.
THEOREM DmoAnswerable ==
  ASSUME EnoughIds
  PROVE  Spec => []Answerable
<1>1. AnswerInv => Answerable
  BY DEF AnswerInv
<1>2. AnswerInv /\ [Next]_vars => AnswerInv'
  BY NextAnswer
<1>3. QED
  BY <1>1, <1>2, InitAnswer, PTL DEF Spec

\* Under the same condition a contract is entered for the destination that the
\* System Manager set it up for, however late, lost or reordered the answers
\* (DMO_ProcessContractResponse).
THEOREM DmoContractMatches ==
  ASSUME EnoughIds
  PROVE  Spec => []ContractMatches
<1>1. AnswerInv => ContractMatches
  BY DEF AnswerInv
<1>2. AnswerInv /\ [Next]_vars => AnswerInv'
  BY NextAnswer
<1>3. QED
  BY <1>1, <1>2, InitAnswer, PTL DEF Spec

-----------------------------------------------------------------------------
(* The refinement of ContractService.                                      *)

\* The refinement mapping, as DmoContracts instantiates ContractService with it.
Phase == [d \in Dst |->
            IF \E i \in EntryOf(d) : pend[i].status = "NO_KEY" THEN "noKey"
            ELSE IF \E i \in EntryOf(d) : pend[i].status = "PENDING" THEN "waiting"
            ELSE "idle"]
Held == {x.dst : x \in table}

\* The phase that an entry puts its destination in.
PhaseOf(e) == IF e.status = "NO_KEY" THEN "noKey"
              ELSE IF e.status = "PENDING" THEN "waiting" ELSE "idle"

\* The phase of a destination is that of its only entry.
LEMMA PhaseOfEntry ==
  ASSUME UniqueDst, NEW i \in Used, pend[i].dst \in Dst
  PROVE  Phase[pend[i].dst] = PhaseOf(pend[i])
<1>1. \A j \in EntryOf(pend[i].dst) : j = i
  BY DEF UniqueDst, EntryOf
<1>2. i \in EntryOf(pend[i].dst)
  BY DEF EntryOf
<1>3. QED
  BY <1>1, <1>2 DEF Phase, PhaseOf

\* A destination without an entry is idle.
LEMMA PhaseNoEntry ==
  ASSUME NEW d \in Dst, EntryOf(d) = {}
  PROVE  Phase[d] = "idle"
BY DEF Phase

\* A step that changes only the entry of d changes only the phase of d.
LEMMA PhaseUpdate ==
  ASSUME TypeOK, UniqueDst, UniqueDst', NEW i \in ReqId, NEW d \in Dst,
         \A j \in ReqId : j # i => pend'[j] = pend[j],
         i \in Used => pend[i].dst = d,
         i \in Used' => pend'[i].dst = d,
         \A j \in Used : j # i => pend[j].dst # d
  PROVE  Phase' = [Phase EXCEPT ![d] = IF i \in Used' THEN PhaseOf(pend'[i]) ELSE "idle"]
<1>1. \A e \in Dst : e # d => EntryOf(e)' = EntryOf(e)
  BY DEF EntryOf, Used
<1>2. \A e \in Dst : e # d => \A j \in EntryOf(e) : pend'[j] = pend[j]
  BY DEF EntryOf, Used
<1>3. \A e \in Dst : e # d => Phase'[e] = Phase[e]
  BY <1>1, <1>2 DEF Phase
<1>4. EntryOf(d)' = IF i \in Used' THEN {i} ELSE {}
  BY DEF EntryOf, Used
<1>5. Phase'[d] = IF i \in Used' THEN PhaseOf(pend'[i]) ELSE "idle"
  BY <1>4 DEF Phase, PhaseOf
<1> DEFINE v == IF i \in Used' THEN PhaseOf(pend'[i]) ELSE "idle"
<1> HIDE DEF v
<1>6. Phase'[d] = v
  BY <1>5 DEF v
<1>7. Phase' = [e \in Dst |-> Phase'[e]] /\ Phase = [e \in Dst |-> Phase[e]]
  BY DEF Phase
<1>8. Phase' = [Phase EXCEPT ![d] = v]
  BY <1>3, <1>6, <1>7
<1>9. QED
  BY <1>8 DEF v

\* Entries that keep their destination and phase keep all phases.
LEMMA PhaseKept ==
  ASSUME pend' = pend
  PROVE  Phase' = Phase
BY DEF Phase, EntryOf, Used

\* A contract that is added is held by its destination.
LEMMA HeldAdded ==
  ASSUME NEW c, table' = table \cup {c}
  PROVE  Held' = Held \cup {c.dst}
<1>1. \A y : y \in Held' <=> y \in Held \/ y = c.dst
  BY DEF Held
<1>2. QED
  BY <1>1

\* The initial states are initial states of the service.
LEMMA InitService == Init => Service!SvcInit
<1> SUFFICES ASSUME Init PROVE Service!SvcInit
  OBVIOUS
<1>1. \A d \in Dst : EntryOf(d) = {}
  BY DEF Init, EntryOf, Used
<1>2. Phase = [d \in Dst |-> "idle"]
  BY <1>1 DEF Phase
<1>3. Held = {}
  BY DEF Init, Held
<1>4. QED
  BY <1>2, <1>3 DEF Service!SvcInit, Phase, Held

\* A request under the id of an idle destination is accepted, or is no step of
\* the service.
LEMMA ProceedService ==
  ASSUME AnswerInv, TableInv', NEW i \in ReqId, NEW d \in Dst,
         Proceed(i, d, pend, rspPending, asked),
         i \in Used => pend[i].dst = d /\ pend[i].status = "FAILED",
         \A j \in Used : j # i => pend[j].dst # d,
         ~HasContract(d), UNCHANGED table
  PROVE  Service!Request(d) \/ UNCHANGED Service!svcVars
<1>0. TypeOK /\ UniqueDst /\ UniqueDst'
  BY DEF AnswerInv, TableInv
<1>t. pend \in [ReqId -> Entries \cup {None}] /\ asked \in SUBSET Dst
      /\ rspPending \in 0..(CountMod - 1)
  BY <1>0 DEF TypeOK
<1>1. Held' = Held /\ d \notin Held
  BY DEF Held, HasContract
<1>2. Phase[d] = "idle"
  <2>1. CASE i \in Used
    BY <1>0, <2>1, PhaseOfEntry DEF PhaseOf
  <2>2. CASE i \notin Used
    BY <2>2, PhaseNoEntry DEF EntryOf
  <2>3. QED
    BY <2>1, <2>2
<1>3. CASE pend' = pend
  BY <1>1, <1>3, PhaseKept DEF Service!svcVars, Phase, Held
<1>4. ASSUME NEW st \in {"PENDING", "NO_KEY"}, pend' = [pend EXCEPT ![i] = Entry(d, st, Timeout)]
      PROVE  Service!Request(d)
  <2>1. /\ Entry(d, st, Timeout) # None /\ Entry(d, st, Timeout).dst = d
        /\ Entry(d, st, Timeout).status = st
    BY EntryMade, LimitAssumption
  <2>2. /\ \A j \in ReqId : j # i => pend'[j] = pend[j]
        /\ i \in Used' /\ pend'[i].dst = d /\ pend'[i].status = st
    BY <1>t, <1>4, <2>1 DEF Used
  <2>3. Phase' = [Phase EXCEPT ![d] = PhaseOf(pend'[i])]
    BY <1>0, <2>2, PhaseUpdate
  <2>4. PhaseOf(pend'[i]) \in {"noKey", "waiting"}
    BY <2>2 DEF PhaseOf
  <2>5. QED
    BY <1>1, <1>2, <2>3, <2>4 DEF Service!Request, Service!Outstanding, Phase, Held
<1>5. QED
  BY <1>0, <1>t, <1>3, <1>4, ProceedShape

\* Giving up the waiting entry under the id i is Fail, whether the entry stays or
\* goes; giving up one that is not waiting is no step.
LEMMA GiveUpService ==
  ASSUME TableInv, TableInv', NEW i \in Used,
         \A j \in ReqId : j # i => pend'[j] = pend[j],
         i \in Used' => pend'[i].dst = pend[i].dst /\ pend'[i].status = "FAILED",
         UNCHANGED table
  PROVE  (\E S \in SUBSET Dst : Service!Fail(S)) \/ UNCHANGED Service!svcVars
<1>0. TypeOK /\ UniqueDst /\ UniqueDst'
  BY DEF TableInv
<1>1. i \in ReqId /\ pend[i].dst \in Dst
  BY <1>0, EntryType
<1>d. PICK d \in Dst : d = pend[i].dst
  BY <1>1
<1>2. Phase' = [Phase EXCEPT ![d] = "idle"]
  <2>1. \A j \in Used : j # i => pend[j].dst # d
    BY <1>0, <1>d DEF UniqueDst
  <2>2. Phase' = [Phase EXCEPT ![d] = IF i \in Used' THEN PhaseOf(pend'[i]) ELSE "idle"]
    BY <1>0, <1>1, <1>d, <2>1, PhaseUpdate
  <2>3. QED
    BY <2>2 DEF PhaseOf
<1>3. Held' = Held
  BY DEF Held
<1>4. CASE Phase[d] = "idle"
  <2>1. Phase' = Phase
    BY <1>2, <1>4 DEF Phase
  <2>2. QED
    BY <1>3, <2>1 DEF Service!svcVars, Phase, Held
<1>5. CASE Phase[d] # "idle"
  <2>1. Phase' = [e \in Dst |-> IF e \in {d} THEN "idle" ELSE Phase[e]]
    BY <1>2 DEF Phase
  <2>2. Service!Fail({d})
    BY <1>3, <1>5, <2>1 DEF Service!Fail, Service!Outstanding, Phase, Held
  <2>3. QED
    BY <2>2
<1>6. QED
  BY <1>4, <1>5

\* Every handler is one step of the service, or none.
LEMMA NextService ==
  EnoughIds /\ AnswerInv /\ AnswerInv' /\ [Next]_vars => [Service!SvcNext]_(Service!svcVars)
<1> SUFFICES ASSUME EnoughIds, AnswerInv, AnswerInv', [Next]_vars
             PROVE  Service!SvcNext \/ UNCHANGED Service!svcVars
  OBVIOUS
<1> DEFINE Step == Service!SvcNext \/ UNCHANGED Service!svcVars
<1>0. TypeOK /\ UniqueDst /\ TableInv /\ TableInv' /\ UniqueDst'
  BY DEF AnswerInv, TableInv
<1>t. pend \in [ReqId -> Entries \cup {None}] /\ net \subseteq Message /\ table \subseteq Contract
  BY <1>0 DEF TypeOK
<1>s. ASSUME pend' = pend, table' = table PROVE Step
  <2>1. Phase' = Phase /\ Held' = Held
    BY <1>s, PhaseKept DEF Held
  <2>2. QED
    BY <2>1 DEF Service!svcVars, Phase, Held
<1>1. ASSUME NEW d \in Dst, RequestDuplicate(d) PROVE Step
  BY <1>1, <1>s DEF RequestDuplicate
<1>2. ASSUME NEW d \in Dst, RequestAgain(d) PROVE Step
  <2>1. PICK i \in EntryOf(d) \cap Failed : Proceed(i, d, pend, rspPending, asked)
    BY <1>2 DEF RequestAgain
  <2>2. i \in Used /\ i \in ReqId /\ pend[i].dst = d /\ pend[i].status = "FAILED"
    BY <2>1 DEF EntryOf, Failed, Used
  <2>3. \A j \in Used : j # i => pend[j].dst # d
    BY <1>0, <2>2 DEF UniqueDst
  <2>4. Service!Request(d) \/ UNCHANGED Service!svcVars
    BY <1>0, <1>2, <2>1, <2>2, <2>3, ProceedService DEF RequestAgain
  <2>5. QED
    BY <2>4 DEF Service!SvcNext
<1>3. ASSUME NEW d \in Dst, RequestNew(d) PROVE Step
  <2>1. PICK i \in FreeIds : Proceed(i, d, pend, rspPending, asked)
    BY <1>3 DEF RequestNew
  <2>2. i \in ReqId /\ i \notin Used
    BY <1>0, <1>3, <2>1, NewIdFree DEF RequestNew, Free
  <2>3. \A j \in Used : pend[j].dst # d
    BY <1>3 DEF RequestNew, EntryOf
  <2>4. Service!Request(d) \/ UNCHANGED Service!svcVars
    BY <1>0, <1>3, <2>1, <2>2, <2>3, ProceedService DEF RequestNew
  <2>5. QED
    BY <2>4 DEF Service!SvcNext
<1>4. ASSUME NEW d \in Dst, RequestReclaim(d) PROVE Step
  BY <1>0, <1>4, NewIdFree DEF RequestReclaim
<1>5. ASSUME NEW d \in Dst, KeyAdded(d) PROVE Step
  <2>1. CASE rspPending = 0
    BY <1>5, <1>s, <2>1 DEF KeyAdded
  <2>2. CASE rspPending # 0
    <3>1. PICK i \in EntryOf(d) :
            /\ pend[i].status = "NO_KEY"
            /\ \/ Sent(pend, i, d, Count(rspPending - 1))
               \/ NotSent([pend EXCEPT ![i].status = "PENDING"], Count(rspPending - 1))
      BY <1>5, <2>2 DEF KeyAdded
    <3>2. i \in Used /\ i \in ReqId /\ pend[i] \in Entries /\ pend[i].dst = d
      BY <1>0, <3>1, EntryType DEF EntryOf
    <3>3. /\ \A j \in ReqId : j # i => pend'[j] = pend[j]
          /\ pend'[i] # None /\ pend'[i].dst = d /\ pend'[i].status = "PENDING"
      BY <1>t, <3>1, <3>2 DEF Sent, NotSent, Entry, Entries, None
    <3>4. \A j \in Used : j # i => pend[j].dst # d
      BY <1>0, <3>2 DEF UniqueDst
    <3>5. i \in Used'
      BY <3>2, <3>3 DEF Used
    <3>6. Phase' = [Phase EXCEPT ![d] = "waiting"]
      <4>1. Phase' = [Phase EXCEPT ![d] = IF i \in Used' THEN PhaseOf(pend'[i]) ELSE "idle"]
        BY <1>0, <3>2, <3>3, <3>4, PhaseUpdate
      <4>2. QED
        BY <3>3, <3>5, <4>1 DEF PhaseOf
    <3>7. Phase[d] = "noKey"
      BY <1>0, <3>1, <3>2, PhaseOfEntry DEF PhaseOf
    <3>8. Held' = Held
      BY <1>5 DEF KeyAdded, Held
    <3>9. Service!Send(d)
      BY <3>6, <3>7, <3>8 DEF Service!Send, Phase, Held
    <3>10. QED
      BY <3>9 DEF Service!SvcNext
  <2>3. QED
    BY <2>1, <2>2
<1>6. ASSUME NEW d \in Dst, SetContract(d) PROVE Step
  <2>1. Phase' = Phase /\ Held' = Held \cup {[dst |-> d, peer |-> d].dst}
    BY <1>6, PhaseKept, HeldAdded DEF SetContract
  <2>2. Service!Install(d)
    BY <2>1 DEF Service!Install, Phase, Held
  <2>3. QED
    BY <2>2 DEF Service!SvcNext
<1>7. ASSUME NEW m \in net, ResponseError(m) PROVE Step
  <2>1. m.id \in ReqId /\ table' = table
    BY <1>t, <1>7 DEF Message, ResponseError
  <2>2. CASE m.id \in Used
    <3>1. /\ \A j \in ReqId : j # m.id => pend'[j] = pend[j]
          /\ pend'[m.id].dst = pend[m.id].dst /\ pend'[m.id].status = "FAILED"
      BY <1>t, <1>7, <2>1, <2>2 DEF ResponseError, Entry
    <3>2. (\E S \in SUBSET Dst : Service!Fail(S)) \/ UNCHANGED Service!svcVars
      BY <1>0, <2>1, <2>2, <3>1, GiveUpService
    <3>3. QED
      BY <3>2 DEF Service!SvcNext
  <2>3. CASE m.id \notin Used
    BY <1>7, <1>s, <2>3 DEF ResponseError
  <2>4. QED
    BY <2>2, <2>3
<1>8. ASSUME NEW m \in net, ContractResponse(m) PROVE Step
  <2>1. m.id \in ReqId
    BY <1>t DEF Message
  <2>2. /\ \A j \in ReqId : j # m.id => pend'[j] = pend[j]
        /\ m.id \notin Used'
    BY <1>t, <1>8, <2>1 DEF ContractResponse, Answered, Used
  <2>3. CASE m.id \notin Used
    <3>1. pend' = pend
      BY <1>t, <1>8, <2>3 DEF ContractResponse, Answered, Used
    <3>2. table' = table
      BY <1>8, <2>3 DEF ContractResponse, Accepted
    <3>3. QED
      BY <1>s, <3>1, <3>2
  <2>4. CASE m.id \in Used /\ table' = table
    <3>1. (\E S \in SUBSET Dst : Service!Fail(S)) \/ UNCHANGED Service!svcVars
      BY <1>0, <2>2, <2>4, GiveUpService
    <3>2. QED
      BY <3>1 DEF Service!SvcNext
  <2>5. CASE m.id \in Used /\ table' # table
    <3>1. PICK d \in Dst : d = pend[m.id].dst
      BY <1>0, <2>5, EntryType
    <3>2. /\ Accepted(m)
          /\ table' = table \cup {[dst |-> d, peer |-> m.peer]}
      BY <1>8, <2>5, <3>1 DEF ContractResponse
    <3>3. Held' = Held \cup {[dst |-> d, peer |-> m.peer].dst}
      BY <3>2, HeldAdded
    <3>4. \A j \in Used : j # m.id => pend[j].dst # d
      BY <1>0, <2>5, <3>1 DEF UniqueDst
    <3>5. Phase' = [Phase EXCEPT ![d] = "idle"]
      <4>1. Phase' = [Phase EXCEPT ![d] = IF m.id \in Used' THEN PhaseOf(pend'[m.id])
                                          ELSE "idle"]
        BY <1>0, <2>1, <2>2, <3>1, <3>4, PhaseUpdate
      <4>2. QED
        BY <2>2, <4>1
    <3>6. Phase[d] # "idle"
      BY <1>0, <2>5, <3>1, <3>2, PhaseOfEntry DEF PhaseOf, Accepted, Waiting
    <3>7. Service!Grant(d)
      BY <3>3, <3>5, <3>6 DEF Service!Grant, Service!Outstanding, Phase, Held
    <3>8. QED
      BY <3>7 DEF Service!SvcNext
  <2>6. QED
    BY <2>3, <2>4, <2>5
<1>9. ASSUME NEW m \in net, Lose(m) PROVE Step
  BY <1>9, <1>s DEF Lose
<1>10. ASSUME NEW m \in net, NEW r \in {"ok", "refused", "sfc"}, SMAnswer(m, r) PROVE Step
  BY <1>10, <1>s DEF SMAnswer
<1>11. ASSUME NEW x \in table, DeleteContract(x) PROVE Step
  <2>1. Phase' = Phase
    BY <1>11, PhaseKept DEF DeleteContract
  <2>2. Held' = Held \/ Held' = Held \ {x.dst}
    BY <1>11 DEF DeleteContract, Held
  <2>3. x.dst \in Held /\ x.dst \in Dst
    BY <1>t DEF Held, Contract
  <2>4. CASE Held' = Held
    BY <2>1, <2>4 DEF Service!svcVars, Phase, Held
  <2>5. CASE Held' = Held \ {x.dst}
    <3>1. Service!Remove(x.dst)
      BY <2>1, <2>3, <2>5 DEF Service!Remove, Phase, Held
    <3>2. QED
      BY <2>3, <3>1 DEF Service!SvcNext
  <2>6. QED
    BY <2>2, <2>4, <2>5
<1>12. ASSUME Tick PROVE Step
  <2> DEFINE S == {pend[i].dst : i \in Overdue}
  <2>1. ASSUME NEW i \in Used
        PROVE  /\ i \in ReqId /\ i \in Used' /\ pend'[i].dst = pend[i].dst
               /\ pend'[i].status = IF i \in Overdue THEN "FAILED" ELSE pend[i].status
    <3>1. i \in ReqId /\ pend[i] \in Entries
      BY <1>0, EntryType
    <3>2. pend'[i] = IF i \in Overdue THEN [pend[i] EXCEPT !.status = "FAILED"]
                     ELSE IF i \in Used /\ pend[i].left > 0
                          THEN [pend[i] EXCEPT !.left = @ - 1] ELSE pend[i]
      BY <1>12, <3>1 DEF Tick
    <3>3. pend'[i].dst = pend[i].dst /\ pend'[i] # None
          /\ pend'[i].status = IF i \in Overdue THEN "FAILED" ELSE pend[i].status
      BY <3>1, <3>2 DEF Entries, None
    <3>4. QED
      BY <3>1, <3>3 DEF Used
  <2>2. Used' = Used
    <3>1. \A i \in Used' : i \in Used
      BY <1>12 DEF Tick, Used, Overdue
    <3>2. QED
      BY <2>1, <3>1
  <2>3. S \subseteq Dst /\ \A d \in S : Phase[d] # "idle"
    <3>1. \A i \in Overdue : i \in Used /\ pend[i].status \in {"PENDING", "NO_KEY"}
      BY DEF Overdue, Waiting
    <3>2. \A i \in Overdue : pend[i].dst \in Dst
      BY <1>0, <3>1, EntryType
    <3>3. \A i \in Overdue : Phase[pend[i].dst] # "idle"
      BY <1>0, <3>1, <3>2, PhaseOfEntry DEF PhaseOf
    <3>4. QED
      BY <3>2, <3>3
  <2>4. \A d \in Dst : EntryOf(d)' = EntryOf(d)
    BY <2>1, <2>2 DEF EntryOf
  <2>5. ASSUME NEW d \in Dst
        PROVE  Phase'[d] = IF d \in S THEN "idle" ELSE Phase[d]
    <3>1. CASE EntryOf(d) = {}
      <4>1. d \notin S
        BY <3>1 DEF EntryOf, Overdue
      <4>2. QED
        BY <2>4, <3>1, <4>1 DEF Phase
    <3>2. CASE EntryOf(d) # {}
      <4>1. PICK i \in Used : pend[i].dst = d
        BY <3>2 DEF EntryOf
      <4>2. EntryOf(d) = {i}
        BY <1>0, <4>1 DEF EntryOf, UniqueDst
      <4>3. d \in S <=> i \in Overdue
        BY <4>1, <4>2 DEF EntryOf, Overdue
      <4>4. Phase'[d] = PhaseOf(pend'[i]) /\ Phase[d] = PhaseOf(pend[i])
        BY <2>4, <4>2 DEF Phase, PhaseOf
      <4>5. QED
        BY <2>1, <4>3, <4>4 DEF PhaseOf
    <3>3. QED
      BY <3>1, <3>2
  <2>6. Phase' = [d \in Dst |-> IF d \in S THEN "idle" ELSE Phase[d]]
    <3> HIDE DEF S
    <3>1. DOMAIN Phase' = Dst
      BY DEF Phase
    <3>2. QED
      BY <2>5, <3>1 DEF Phase
  <2>7. Held' = Held
    BY <1>12 DEF Tick, Held
  <2> HIDE DEF S
  <2>8. PICK T \in SUBSET Dst : T = S
    BY <2>3
  <2>9. Service!Fail(T)
    BY <2>3, <2>6, <2>7, <2>8 DEF Service!Fail, Service!Outstanding, Phase, Held
  <2>10. QED
    BY <2>9 DEF Service!SvcNext
<1>13. ASSUME StackReset PROVE Step
  <2>1. \A d \in Dst : EntryOf(d)' = {}
    BY <1>13 DEF StackReset, EntryOf, Used
  <2>2. Phase' = [d \in Dst |-> "idle"]
    BY <2>1 DEF Phase
  <2>3. Held' = {}
    BY <1>13 DEF StackReset, Held
  <2>4. Service!Reset
    BY <2>2, <2>3 DEF Service!Reset, Phase, Held
  <2>5. QED
    BY <2>4 DEF Service!SvcNext
<1>14. ASSUME Join PROVE Step
  BY <1>14, <1>s DEF Join
<1>15. ASSUME UNCHANGED vars PROVE Step
  BY <1>15, <1>s DEF vars
<1>16. QED
  <2> HIDE DEF Step
  <2>1. Step
    BY <1>1, <1>2, <1>3, <1>4, <1>5, <1>6, <1>7, <1>8, <1>9, <1>10, <1>11, <1>12, <1>13,
       <1>14, <1>15 DEF Next
  <2>2. QED
    BY <2>1 DEF Step

\* With no more destinations than request ids, the DMO implements the service that
\* GwLeases is written against: at most one request per destination, made only
\* without a contract, that ends with a contract or a failure.
THEOREM DmoImplementsService ==
  ASSUME EnoughIds
  PROVE  Spec => ImplementsService
<1>1. AnswerInv /\ [Next]_vars => AnswerInv'
  BY NextAnswer
<1>2. AnswerInv /\ AnswerInv' /\ [Next]_vars => [Service!SvcNext]_(Service!svcVars)
  BY NextService
<1>3. QED
  BY <1>1, <1>2, InitAnswer, InitService, PTL DEF Spec, ImplementsService, Service!SvcSpec
=============================================================================
