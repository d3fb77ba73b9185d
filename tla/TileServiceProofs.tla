-------------------------- MODULE TileServiceProofs --------------------------
(***************************************************************************)
(* TLAPS proofs about TileService, for any number of requests, tiles,      *)
(* sources and workers: type correctness, NoDoubleWork and TilesAccounted  *)
(* first, then the ends of requests and the notifications.                 *)
(***************************************************************************)
EXTENDS TileServiceProps, SequenceTheorems, NaturalsInduction, WellFoundedInduction,
        FiniteSetTheorems, TLAPS

(***************************************************************************)
(* The arithmetic of nextJob.                                              *)
(***************************************************************************)

\* A non-empty set of numbers has a least element.
LEMMA LeastElement ==
  ASSUME NEW S \in SUBSET Nat, S # {}
  PROVE  \E p \in S : \A q \in S : p <= q
<1>1. PICK p \in S : \A q \in S : ~ (<<q, p>> \in OpToRel(<, Nat))
  BY NatLessThanWellFounded, WFMin
<1>2. \A q \in S : ~ (q < p)
  BY <1>1 DEF OpToRel
<1> QED BY <1>2

\* Every size is a natural number.
LEMMA SizeIsNat == ASSUME NEW r \in Requests PROVE Size(r) \in Nat
BY ServiceAssumption, LenProperties DEF Size, ServiceAssumption

\* The cache stops serving a request behind its index, at a tile it does not
\* hold or past the last one.
LEMMA StopInRange ==
  ASSUME NEW r \in Requests, nextTileIndex[r] \in Nat,
         nextTileIndex[r] <= Size(r)
  PROVE  Stop(r) \in (nextTileIndex[r] + 1)..(Size(r) + 1)
<1> DEFINE missing == {p \in Positions(r) :
                         p > nextTileIndex[r] /\ KeyOf(r, p) \notin cached}
<1>1. Size(r) \in Nat
  BY SizeIsNat
<1>2. CASE missing = {}
  BY <1>1, <1>2 DEF Stop
<1>3. CASE missing # {}
  <2>1. missing \in SUBSET Nat
    BY <1>1 DEF Positions
  <2>2. \E p \in missing : \A q \in missing : p <= q
    BY <1>3, <2>1, LeastElement
  <2>3. Stop(r) \in missing
    BY <1>3, <2>2 DEF Stop
  <2> QED BY <1>1, <2>3 DEF Positions
<1> QED BY <1>2, <1>3

\* So every pass that matters comes after the start.
LEMMA PassInRange ==
  ASSUME NEW r \in Requests, TypeOK, IndexInRange
  PROVE  /\ Pass(r) \in Nat \ {0}
         /\ nextTileIndex[r] \in Nat
         /\ nextTileIndex[r] + Pass(r) = Stop(r)
         /\ Stop(r) <= Size(r) + 1
<1>1. nextTileIndex[r] \in Nat /\ nextTileIndex[r] <= Size(r)
  BY DEF TypeOK, IndexInRange
<1>2. Stop(r) \in (nextTileIndex[r] + 1)..(Size(r) + 1)
  BY <1>1, StopInRange
<1>3. Size(r) \in Nat
  BY SizeIsNat
<1> QED BY <1>1, <1>2, <1>3 DEF Pass

\* Before a job is found no request is served more cached tiles than there are
\* in front of the first one missing, and the request of the job all of them.
LEMMA ServedInRange ==
  ASSUME TypeOK, IndexInRange, NEW w \in Workers, NEW j \in Takeable(w),
         NEW r \in Requests
  PROVE  /\ ServedBefore(w, r, j) \in 0..(Pass(r) - 1)
         /\ ServedBefore(w, j, j) = Pass(j) - 1
<1>1. j \in Requests /\ Wanted(w, j)
  BY DEF Takeable
<1>2. Pass(r) \in Nat \ {0} /\ Pass(j) \in Nat \ {0}
  BY <1>1, PassInRange
<1> QED BY <1>1, <1>2 DEF ServedBefore

\* Without a job a request is served all of them.
LEMMA ServedAllInRange ==
  ASSUME TypeOK, IndexInRange, NEW w \in Workers, NEW r \in Requests
  PROVE  ServedWithoutJob(w, r) \in 0..(Pass(r) - 1)
<1>1. Pass(r) \in Nat \ {0}
  BY PassInRange
<1> QED BY <1>1 DEF ServedWithoutJob

(***************************************************************************)
(* nextJob keeps the invariant.                                            *)
(***************************************************************************)

\* Every tile has a key.
LEMMA KeyOfTile ==
  ASSUME NEW r \in Requests, NEW p \in Positions(r)
  PROVE  KeyOf(r, p) \in Key
<1>1. TilesOf[r] \in Seq(Tiles) /\ p \in 1..Len(TilesOf[r])
  BY ServiceAssumption DEF ServiceAssumption, Positions, Size
<1>2. TilesOf[r][p] \in Tiles
  BY <1>1, ElementOfSeq
<1>3. LayerOf[r] \in Layers
  BY ServiceAssumption DEF ServiceAssumption
<1> QED BY <1>2, <1>3 DEF KeyOf, Key

\* The two ways in which CheckJobs ends.
ChecksAndTakes(w, r) ==
  /\ pc[w] = "check"
  /\ TakeJob(w, r)
  /\ UNCHANGED <<lost, aborted, cached, shouldTerminate, call, managerVars>>

ChecksInVain(w) ==
  /\ pc[w] = "check"
  /\ FindNothing(w)
  /\ UNCHANGED <<lost, aborted, cached, shouldTerminate, call, managerVars>>

LEMMA TakeJobKeepsIInv ==
  ASSUME IInv, NEW w \in Workers, NEW r \in Requests, ChecksAndTakes(w, r)
  PROVE  IInv'
<1> DEFINE served(q) == ServedBefore(w, q, r)
<1>1. TypeOK /\ IndexInRange /\ JobsInRange /\ NoDoubleWork /\ TilesAccounted
      /\ OnlyRunningWork /\ CallsInRange
  BY DEF IInv
<1>2. r \in Takeable(w) /\ r \in requests /\ KeyOf(r, Stop(r)) \notin jobsInProgress
      /\ Stop(r) <= Size(r)
  BY DEF ChecksAndTakes, TakeJob, IsNextJob, Takeable, Wanted
<1>3. \A q \in Requests : served(q) \in Nat /\ nextTileIndex[q] \in Nat
                          /\ Size(q) \in Nat
                          /\ nextTileIndex[q] + served(q) <= Size(q)
  <2> SUFFICES ASSUME NEW q \in Requests
               PROVE  served(q) \in Nat /\ nextTileIndex[q] \in Nat
                          /\ Size(q) \in Nat
                          /\ nextTileIndex[q] + served(q) <= Size(q)
    OBVIOUS
  <2>1. served(q) \in 0..(Pass(q) - 1)
    BY <1>1, <1>2, ServedInRange
  <2>2. /\ Pass(q) \in Nat \ {0} /\ nextTileIndex[q] \in Nat
        /\ nextTileIndex[q] + Pass(q) = Stop(q) /\ Stop(q) <= Size(q) + 1
    BY <1>1, PassInRange
  <2>3. Size(q) \in Nat
    BY SizeIsNat
  <2> QED BY <2>1, <2>2, <2>3
<1>4. Stop(r) = nextTileIndex[r] + served(r) + 1 /\ Stop(r) \in Positions(r)
  <2>1. served(r) = Pass(r) - 1
    BY <1>1, <1>2, ServedInRange
  <2>2. /\ Pass(r) \in Nat \ {0} /\ nextTileIndex[r] \in Nat
        /\ nextTileIndex[r] + Pass(r) = Stop(r) /\ Size(r) \in Nat
    BY <1>1, PassInRange, SizeIsNat
  <2>3. Stop(r) = nextTileIndex[r] + served(r) + 1
    BY <2>1, <2>2
  <2>4. Stop(r) \in 1..Size(r)
    BY <1>2, <2>2
  <2> QED BY <2>3, <2>4 DEF Positions
<1>5. /\ nextTileIndex' = [q \in Requests |-> IF q = r THEN Stop(r)
                                              ELSE nextTileIndex[q] + served(q)]
      /\ delivered' = [q \in Requests |-> delivered[q] \cup
                         ((nextTileIndex[q] + 1)..(nextTileIndex[q] + served(q)))]
      /\ resultCount' = [q \in Requests |-> resultCount[q] + served(q)]
      /\ status' = [q \in Requests |->
                      IF Completes(q, served(q)) THEN "Success" ELSE status[q]]
      /\ doneCalls' = [q \in Requests |-> IF Completes(q, served(q))
                                          THEN doneCalls[q] + 1 ELSE doneCalls[q]]
      /\ jobsInProgress' = jobsInProgress \cup {KeyOf(r, Stop(r))}
      /\ job' = [job EXCEPT ![w] = <<r, Stop(r)>>]
      /\ pc' = [pc EXCEPT ![w] = "taken"]
      /\ requests' \subseteq requests
      /\ ahead' \subseteq ahead \cup (Requests \X Requests)
      /\ pc[w] = "check"
      /\ lost' = lost /\ aborted' = aborted /\ cached' = cached
      /\ shouldTerminate' = shouldTerminate /\ call' = call
      /\ registered' = registered /\ running' = running /\ manager' = manager
  BY <1>1, <1>2 DEF ChecksAndTakes, managerVars, TakeJob, ServeCached, NotifyResults, Unfinished, TypeOK
<1>6. TypeOK'
  <2>1. KeyOf(r, Stop(r)) \in Key
    BY <1>4, KeyOfTile
  <2>2. Stop(r) \in Nat
    BY <1>3, <1>4
  <2> QED BY <1>1, <1>3, <1>5, <2>1, <2>2 DEF TypeOK, Status
<1>7. IndexInRange'
  BY <1>2, <1>3, <1>5 DEF IndexInRange, Size
<1>8. \A v \in Workers : v # w => pc'[v] = pc[v] /\ job'[v] = job[v]
  BY <1>1, <1>5 DEF TypeOK
<1>9. pc'[w] = "taken" /\ job'[w] = <<r, Stop(r)>>
  BY <1>1, <1>5 DEF TypeOK
<1>10. JobsInRange'
  <2>1. \A v \in Workers : v # w => (Holds(v)' <=> Holds(v)) /\ job'[v] = job[v]
    BY <1>8 DEF Holds
  <2>2. job'[w] \in Requests \X Nat /\ job'[w][1] = r /\ job'[w][2] = Stop(r)
    BY <1>3, <1>4, <1>9
  <2>3. Stop(r) \in Positions(job'[w][1])
    BY <1>4, <2>2
  <2>4. \A q : Positions(q)' = Positions(q)
    BY DEF Positions, Size
  <2> QED BY <1>1, <2>1, <2>2, <2>3, <2>4 DEF JobsInRange
<1>11. NoDoubleWork'
  BY <1>1, <1>2, <1>5, <1>8, <1>9 DEF NoDoubleWork, Holds, HeldKey, KeyOf
<1>12. TilesAccounted'
  <2> SUFFICES ASSUME NEW q \in Requests
               PROVE  (/\ 1..nextTileIndex[q] = delivered[q] \cup InHand(q) \cup lost[q]
                       /\ delivered[q] \cap InHand(q) = {}
                       /\ delivered[q] \cap lost[q] = {}
                       /\ InHand(q) \cap lost[q] = {})'
    BY DEF TilesAccounted
  <2>1. InHand(q)' = IF q = r THEN InHand(q) \cup {Stop(r)} ELSE InHand(q)
    <3>1. \A v \in Workers : v # w => (Holds(v)' <=> Holds(v)) /\ job'[v] = job[v]
      BY <1>8 DEF Holds
    <3>2. ~Holds(w) /\ Holds(w)' /\ job'[w] = <<r, Stop(r)>>
      BY <1>5, <1>9 DEF Holds
    <3>3. InHand(q)' = {p \in Positions(q) :
                         \E v \in Workers : Holds(v)' /\ job'[v] = <<q, p>>}
      BY DEF InHand, Positions, Size
    <3>4. \A p : (\E v \in Workers : Holds(v)' /\ job'[v] = <<q, p>>)
                <=> \/ \E v \in Workers : Holds(v) /\ job[v] = <<q, p>>
                    \/ q = r /\ p = Stop(r)
      BY <3>1, <3>2
    <3> QED BY <1>4, <3>3, <3>4 DEF InHand
  <2>2. /\ 1..nextTileIndex[q] = delivered[q] \cup InHand(q) \cup lost[q]
        /\ delivered[q] \cap InHand(q) = {}
        /\ delivered[q] \cap lost[q] = {}
        /\ InHand(q) \cap lost[q] = {}
    BY <1>1 DEF TilesAccounted
  <2>3. lost'[q] = lost[q]
    BY <1>5
  <2>4. delivered'[q] = delivered[q] \cup
                         ((nextTileIndex[q] + 1)..(nextTileIndex[q] + served(q)))
    BY <1>5
  <2>5. CASE q = r
    <3>1. nextTileIndex'[q] = nextTileIndex[q] + served(q) + 1 /\ InHand(q)' = InHand(q) \cup {nextTileIndex[q] + served(q) + 1}
      BY <1>4, <1>5, <2>1, <2>5
    <3> QED BY <3>1, <1>3, <2>2, <2>3, <2>4
  <2>6. CASE q # r
    <3>1. nextTileIndex'[q] = nextTileIndex[q] + served(q) /\ InHand(q)' = InHand(q)
      BY <1>5, <2>1, <2>6
    <3> QED BY <3>1, <1>3, <2>2, <2>3, <2>4
  <2> QED BY <2>5, <2>6
<1>13. OnlyRunningWork'
  BY <1>1, <1>5, <1>8, <1>9 DEF OnlyRunningWork
<1>14. CallsInRange'
  BY <1>1, <1>5 DEF CallsInRange
<1> QED BY <1>6, <1>7, <1>10, <1>11, <1>12, <1>13, <1>14 DEF IInv

LEMMA FindNothingKeepsIInv ==
  ASSUME IInv, NEW w \in Workers, ChecksInVain(w)
  PROVE  IInv'
<1> DEFINE served(q) == ServedWithoutJob(w, q)
<1>1. TypeOK /\ IndexInRange /\ JobsInRange /\ NoDoubleWork /\ TilesAccounted
      /\ OnlyRunningWork /\ CallsInRange
  BY DEF IInv
<1>2. \A q \in Requests : served(q) \in Nat /\ nextTileIndex[q] \in Nat
                          /\ Size(q) \in Nat
                          /\ nextTileIndex[q] + served(q) <= Size(q)
  <2> SUFFICES ASSUME NEW q \in Requests
               PROVE  served(q) \in Nat /\ nextTileIndex[q] \in Nat
                          /\ Size(q) \in Nat
                          /\ nextTileIndex[q] + served(q) <= Size(q)
    OBVIOUS
  <2>1. served(q) \in 0..(Pass(q) - 1)
    BY <1>1, ServedAllInRange
  <2>2. /\ Pass(q) \in Nat \ {0} /\ nextTileIndex[q] \in Nat
        /\ nextTileIndex[q] + Pass(q) = Stop(q) /\ Stop(q) <= Size(q) + 1
    BY <1>1, PassInRange
  <2>3. Size(q) \in Nat
    BY SizeIsNat
  <2> QED BY <2>1, <2>2, <2>3
<1>3. /\ nextTileIndex' = [q \in Requests |-> nextTileIndex[q] + served(q)]
      /\ delivered' = [q \in Requests |-> delivered[q] \cup
                         ((nextTileIndex[q] + 1)..(nextTileIndex[q] + served(q)))]
      /\ resultCount' = [q \in Requests |-> resultCount[q] + served(q)]
      /\ status' = [q \in Requests |->
                      IF Completes(q, served(q)) THEN "Success" ELSE status[q]]
      /\ doneCalls' = [q \in Requests |-> IF Completes(q, served(q))
                                          THEN doneCalls[q] + 1 ELSE doneCalls[q]]
      /\ jobsInProgress' = jobsInProgress /\ job' = job
      /\ pc[w] = "check" /\ pc' = [pc EXCEPT ![w] = "parking"]
      /\ requests' \subseteq requests
      /\ ahead' \subseteq ahead
      /\ lost' = lost /\ aborted' = aborted /\ cached' = cached
      /\ shouldTerminate' = shouldTerminate /\ call' = call
      /\ registered' = registered /\ running' = running /\ manager' = manager
  BY DEF ChecksInVain, managerVars, FindNothing, ServeCached, NotifyResults,
         Unfinished, TakenWithoutJob
<1>4. TypeOK'
  BY <1>1, <1>2, <1>3 DEF TypeOK, Status
<1>5. IndexInRange'
  BY <1>2, <1>3 DEF IndexInRange, Size
<1>6. \A v \in Workers : Holds(v)' <=> Holds(v)
  BY <1>1, <1>3 DEF TypeOK, Holds
<1>7. JobsInRange'
  <2>1. \A q : Positions(q)' = Positions(q)
    BY DEF Positions, Size
  <2> QED BY <1>1, <1>3, <1>6, <2>1 DEF JobsInRange
<1>8. NoDoubleWork'
  BY <1>1, <1>3, <1>6 DEF NoDoubleWork, HeldKey, KeyOf
<1>9. TilesAccounted'
  <2> SUFFICES ASSUME NEW q \in Requests
               PROVE  (/\ 1..nextTileIndex[q] = delivered[q] \cup InHand(q) \cup lost[q]
                       /\ delivered[q] \cap InHand(q) = {}
                       /\ delivered[q] \cap lost[q] = {}
                       /\ InHand(q) \cap lost[q] = {})'
    BY DEF TilesAccounted
  <2>1. InHand(q)' = InHand(q)
    BY <1>3, <1>6 DEF InHand, Positions, Size
  <2>2. /\ 1..nextTileIndex[q] = delivered[q] \cup InHand(q) \cup lost[q]
        /\ delivered[q] \cap InHand(q) = {}
        /\ delivered[q] \cap lost[q] = {}
        /\ InHand(q) \cap lost[q] = {}
    BY <1>1 DEF TilesAccounted
  <2>3. /\ lost'[q] = lost[q]
        /\ nextTileIndex'[q] = nextTileIndex[q] + served(q)
        /\ delivered'[q] = delivered[q] \cup
                         ((nextTileIndex[q] + 1)..(nextTileIndex[q] + served(q)))
    BY <1>3
  <2> QED BY <1>2, <2>1, <2>2, <2>3
<1>10. OnlyRunningWork'
  BY <1>1, <1>3 DEF OnlyRunningWork, TypeOK
<1>11. CallsInRange'
  BY <1>1, <1>3 DEF CallsInRange
<1> QED BY <1>4, <1>5, <1>7, <1>8, <1>9, <1>10, <1>11 DEF IInv

(***************************************************************************)
(* A worker that hands in or drops its job.                                *)
(***************************************************************************)

\* The other workers keep what they hold; so w gives up exactly its position.
LEMMA GiveUpJob ==
  ASSUME IInv, NEW w \in Workers, Holds(w), ~Holds(w)',
         \A v \in Workers : v # w => (Holds(v)' <=> Holds(v)) /\ job'[v] = job[v],
         NEW q \in Requests
  PROVE  /\ InHand(q)' = IF q = job[w][1] THEN InHand(q) \ {job[w][2]} ELSE InHand(q)
         /\ q = job[w][1] => job[w][2] \in InHand(q)
<1>1. job[w] \in Requests \X Nat /\ job[w][2] \in Positions(job[w][1])
  BY DEF IInv, JobsInRange
<1>2. job[w] = <<job[w][1], job[w][2]>>
  BY <1>1
<1>3. \A v \in Workers : Holds(v) /\ job[v] = job[w] => v = w
  BY DEF IInv, NoDoubleWork, HeldKey
<1>4. InHand(q)' = {p \in Positions(q) :
                     \E v \in Workers : Holds(v)' /\ job'[v] = <<q, p>>}
  BY DEF InHand, Positions, Size
<1>5. \A p : (\E v \in Workers : Holds(v)' /\ job'[v] = <<q, p>>)
            <=> /\ \E v \in Workers : Holds(v) /\ job[v] = <<q, p>>
                /\ ~ (q = job[w][1] /\ p = job[w][2])
  BY <1>2, <1>3
<1> QED BY <1>1, <1>2, <1>4, <1>5 DEF InHand

LEMMA DropJobKeepsIInv ==
  ASSUME IInv, NEW w \in Workers, NEW next \in {"check", "exited"}, Holds(w),
         DropJob(w, next)
  PROVE  IInv'
<1> DEFINE r == job[w][1]
<1> DEFINE p == job[w][2]
<1>1. TypeOK /\ IndexInRange /\ JobsInRange /\ NoDoubleWork /\ TilesAccounted
      /\ OnlyRunningWork /\ CallsInRange
  BY DEF IInv
<1>2. r \in Requests /\ p \in Nat
  BY <1>1 DEF JobsInRange
<1>3. /\ lost' = [lost EXCEPT ![r] = @ \cup {p}]
      /\ job' = [job EXCEPT ![w] = NoJob]
      /\ pc' = [pc EXCEPT ![w] = next]
      /\ requests' = requests /\ ahead' = ahead /\ nextTileIndex' = nextTileIndex
      /\ resultCount' = resultCount /\ status' = status /\ doneCalls' = doneCalls
      /\ delivered' = delivered /\ aborted' = aborted
      /\ jobsInProgress' = jobsInProgress /\ cached' = cached
      /\ shouldTerminate' = shouldTerminate /\ call' = call
      /\ registered' = registered /\ running' = running /\ manager' = manager
  BY DEF DropJob, managerVars
<1>4. TypeOK'
  BY <1>1, <1>2, <1>3 DEF TypeOK
<1>5. \A v \in Workers : v # w => (Holds(v)' <=> Holds(v)) /\ job'[v] = job[v]
  BY <1>1, <1>3 DEF TypeOK, Holds
<1>6. ~Holds(w)'
  BY <1>1, <1>3 DEF TypeOK, Holds
<1>7. IndexInRange'
  BY <1>1, <1>3 DEF IndexInRange, Size
<1>8. JobsInRange'
  <2>1. \A q : Positions(q)' = Positions(q)
    BY DEF Positions, Size
  <2> QED BY <1>1, <1>5, <1>6, <2>1 DEF JobsInRange
<1>9. NoDoubleWork'
  BY <1>1, <1>3, <1>5, <1>6 DEF NoDoubleWork, HeldKey, KeyOf
<1>10. TilesAccounted'
  <2> SUFFICES ASSUME NEW q \in Requests
               PROVE  (/\ 1..nextTileIndex[q] = delivered[q] \cup InHand(q) \cup lost[q]
                       /\ delivered[q] \cap InHand(q) = {}
                       /\ delivered[q] \cap lost[q] = {}
                       /\ InHand(q) \cap lost[q] = {})'
    BY DEF TilesAccounted
  <2>1. /\ InHand(q)' = IF q = r THEN InHand(q) \ {p} ELSE InHand(q)
        /\ q = r => p \in InHand(q)
    BY <1>5, <1>6, GiveUpJob
  <2>2. /\ 1..nextTileIndex[q] = delivered[q] \cup InHand(q) \cup lost[q]
        /\ delivered[q] \cap InHand(q) = {}
        /\ delivered[q] \cap lost[q] = {}
        /\ InHand(q) \cap lost[q] = {}
    BY <1>1 DEF TilesAccounted
  <2>3. /\ lost'[q] = IF q = r THEN lost[q] \cup {p} ELSE lost[q]
        /\ nextTileIndex'[q] = nextTileIndex[q]
        /\ delivered'[q] = delivered[q]
    BY <1>1, <1>3 DEF TypeOK
  <2> QED BY <2>1, <2>2, <2>3
<1>11. OnlyRunningWork'
  BY <1>1, <1>3 DEF OnlyRunningWork, TypeOK, Holds
<1>12. CallsInRange'
  BY <1>1, <1>3 DEF CallsInRange
<1> QED BY <1>4, <1>7, <1>8, <1>9, <1>10, <1>11, <1>12 DEF IInv

LEMMA FinishJobKeepsIInv ==
  ASSUME IInv, NEW w \in Workers, FinishJob(w)
  PROVE  IInv'
<1> DEFINE r == job[w][1]
<1> DEFINE p == job[w][2]
<1>1. TypeOK /\ IndexInRange /\ JobsInRange /\ NoDoubleWork /\ TilesAccounted
      /\ OnlyRunningWork /\ CallsInRange
  BY DEF IInv
<1>2. Holds(w) /\ pc[w] = "fetched"
  BY DEF FinishJob, Holds
<1>3. r \in Requests /\ p \in Nat
  BY <1>1, <1>2 DEF JobsInRange
<1>4. /\ delivered' = [q \in Requests |->
                         delivered[q] \cup (IF q = r THEN {p} ELSE {})]
      /\ resultCount' = [q \in Requests |-> resultCount[q] + (IF q = r THEN 1 ELSE 0)]
      /\ status' = [q \in Requests |-> IF Completes(q, IF q = r THEN 1 ELSE 0)
                                       THEN "Success" ELSE status[q]]
      /\ doneCalls' = [q \in Requests |-> IF Completes(q, IF q = r THEN 1 ELSE 0)
                                          THEN doneCalls[q] + 1 ELSE doneCalls[q]]
      /\ jobsInProgress' = jobsInProgress \ {HeldKey(w)}
      /\ job' = [job EXCEPT ![w] = NoJob]
      /\ pc' = [Notified EXCEPT ![w] = "check"]
      /\ requests' = requests /\ ahead' = ahead /\ nextTileIndex' = nextTileIndex
      /\ lost' = lost /\ aborted' = aborted /\ cached' = cached
      /\ shouldTerminate' = shouldTerminate /\ call' = call
      /\ registered' = registered /\ running' = running /\ manager' = manager
  BY DEF FinishJob, NotifyResults, Erased, managerVars
<1>5. pc' = [v \in Workers |-> IF v = w \/ pc[v] = "waiting" THEN "check" ELSE pc[v]]
  BY <1>4 DEF Notified
<1>6. TypeOK'
  <2>1. resultCount' \in [Requests -> Nat] /\ doneCalls' \in [Requests -> Nat]
        /\ delivered' \in [Requests -> SUBSET Nat]
    BY <1>1, <1>3, <1>4 DEF TypeOK
  <2>2. status' \in [Requests -> Status]
    BY <1>1, <1>4 DEF TypeOK, Status
  <2> QED BY <1>1, <1>4, <1>5, <2>1, <2>2 DEF TypeOK
<1>7. \A v \in Workers : v # w => (Holds(v)' <=> Holds(v)) /\ job'[v] = job[v]
  BY <1>1, <1>4, <1>5 DEF TypeOK, Holds
<1>8. ~Holds(w)'
  BY <1>5 DEF Holds
<1>9. IndexInRange'
  BY <1>1, <1>4 DEF IndexInRange, Size
<1>10. JobsInRange'
  <2>1. \A q : Positions(q)' = Positions(q)
    BY DEF Positions, Size
  <2> QED BY <1>1, <1>7, <1>8, <2>1 DEF JobsInRange
<1>11. NoDoubleWork'
  <2>1. \A v \in Workers : v # w => HeldKey(v)' = HeldKey(v)
    BY <1>7 DEF HeldKey, KeyOf
  <2> QED BY <1>1, <1>2, <1>4, <1>7, <1>8, <2>1 DEF NoDoubleWork
<1>12. TilesAccounted'
  <2> SUFFICES ASSUME NEW q \in Requests
               PROVE  (/\ 1..nextTileIndex[q] = delivered[q] \cup InHand(q) \cup lost[q]
                       /\ delivered[q] \cap InHand(q) = {}
                       /\ delivered[q] \cap lost[q] = {}
                       /\ InHand(q) \cap lost[q] = {})'
    BY DEF TilesAccounted
  <2>1. /\ InHand(q)' = IF q = r THEN InHand(q) \ {p} ELSE InHand(q)
        /\ q = r => p \in InHand(q)
    BY <1>2, <1>7, <1>8, GiveUpJob
  <2>2. /\ 1..nextTileIndex[q] = delivered[q] \cup InHand(q) \cup lost[q]
        /\ delivered[q] \cap InHand(q) = {}
        /\ delivered[q] \cap lost[q] = {}
        /\ InHand(q) \cap lost[q] = {}
    BY <1>1 DEF TilesAccounted
  <2>3. /\ lost'[q] = lost[q]
        /\ nextTileIndex'[q] = nextTileIndex[q]
        /\ delivered'[q] = delivered[q] \cup (IF q = r THEN {p} ELSE {})
    BY <1>4
  <2> QED BY <2>1, <2>2, <2>3
<1>13. OnlyRunningWork'
  BY <1>1, <1>2, <1>4, <1>5 DEF OnlyRunningWork, TypeOK
<1>14. CallsInRange'
  BY <1>1, <1>4 DEF CallsInRange
<1> QED BY <1>6, <1>9, <1>10, <1>11, <1>12, <1>13, <1>14 DEF IInv

(***************************************************************************)
(* The other steps leave the tiles alone.                                  *)
(***************************************************************************)

LEMMA TilesUntouched ==
  ASSUME IInv, nextTileIndex' = nextTileIndex, delivered' = delivered,
         lost' = lost, jobsInProgress' = jobsInProgress, job' = job,
         \A w \in Workers : Holds(w)' <=> Holds(w)
  PROVE  IndexInRange' /\ JobsInRange' /\ NoDoubleWork' /\ TilesAccounted'
<1>1. IndexInRange /\ JobsInRange /\ NoDoubleWork /\ TilesAccounted
  BY DEF IInv
<1>2. \A q : Positions(q)' = Positions(q) /\ Size(q)' = Size(q)
  BY DEF Positions, Size
<1>3. IndexInRange'
  BY <1>1, <1>2 DEF IndexInRange
<1>4. JobsInRange'
  BY <1>1, <1>2 DEF JobsInRange
<1>5. NoDoubleWork'
  BY <1>1 DEF NoDoubleWork, HeldKey, KeyOf
<1>6. \A q \in Requests : InHand(q)' = InHand(q)
  BY <1>2 DEF InHand
<1>7. TilesAccounted'
  BY <1>1, <1>6 DEF TilesAccounted
<1> QED BY <1>3, <1>4, <1>5, <1>7

\* The steps of a worker that change where it is, and perhaps the cache.
LEMMA MoveKeepsIInv ==
  ASSUME IInv, NEW w \in Workers,
         Exit(w) \/ Block(w) \/ SpuriousWakeup(w) \/ StartJob(w) \/ FetchTile(w)
  PROVE  IInv'
<1>1. TypeOK /\ OnlyRunningWork /\ CallsInRange /\ JobsInRange
  BY DEF IInv
<1>2. /\ requests' = requests /\ ahead' = ahead /\ nextTileIndex' = nextTileIndex
      /\ resultCount' = resultCount /\ status' = status /\ doneCalls' = doneCalls
      /\ delivered' = delivered /\ lost' = lost /\ aborted' = aborted
      /\ jobsInProgress' = jobsInProgress /\ job' = job
      /\ shouldTerminate' = shouldTerminate /\ call' = call
      /\ registered' = registered /\ running' = running /\ manager' = manager
  BY DEF Exit, Block, SpuriousWakeup, StartJob, FetchTile, requestVars, managerVars
<1>3. \E next \in {"check", "waiting", "fetching", "fetched", "exited"} :
        /\ pc' = [pc EXCEPT ![w] = next]
        /\ pc[w] # "exited"
        /\ next \in {"fetching", "fetched"} <=> Holds(w)
  BY DEF Exit, Block, SpuriousWakeup, StartJob, FetchTile, Holds
<1>4. cached' \subseteq Key
  <2>1. CASE FetchTile(w)
    <3>1. HeldKey(w) \in Key
      BY <1>1, <2>1, KeyOfTile DEF FetchTile, JobsInRange, Holds, HeldKey
    <3> QED BY <1>1, <2>1, <3>1 DEF FetchTile, TypeOK
  <2> QED BY <1>1, <2>1 DEF Exit, Block, SpuriousWakeup, StartJob, TypeOK
<1>5. TypeOK'
  BY <1>1, <1>2, <1>3, <1>4 DEF TypeOK
<1>6. \A v \in Workers : Holds(v)' <=> Holds(v)
  BY <1>1, <1>3 DEF TypeOK, Holds
<1>7. OnlyRunningWork'
  BY <1>1, <1>2, <1>3 DEF OnlyRunningWork, TypeOK
<1>8. CallsInRange'
  BY <1>1, <1>2 DEF CallsInRange
<1> QED BY <1>2, <1>5, <1>6, <1>7, <1>8, TilesUntouched DEF IInv

(***************************************************************************)
(* The clients                                                             *)
(***************************************************************************)

\* A loop of request() stays inside its batch.
LEMMA AdvanceInRange ==
  ASSUME TypeOK, NEW c \in Calls, NEW ok \in BOOLEAN,
         call[c].at \in 1..Len(Batch[c])
  PROVE  /\ Advance(c, ok) \in CallState
         /\ Advance(c, ok).pc # "idle"
         /\ Advance(c, ok).pc # "returned" => Advance(c, ok).at \in 1..Len(Batch[c])
<1>1. Len(Batch[c]) \in Nat
  BY ServiceAssumption, LenProperties DEF ServiceAssumption
<1>2. call[c] \in CallState
  BY DEF TypeOK
<1>3. call[c].at \in Nat
  BY <1>2 DEF CallState
<1> QED BY <1>1, <1>3 DEF Advance, CallState

\* The request a loop is at is one of the requests.
LEMMA CurrentIsRequest ==
  ASSUME NEW c \in Calls, call[c].at \in 1..Len(Batch[c])
  PROVE  Current(c) \in Requests
<1>1. Batch[c] \in Seq(Requests)
  BY ServiceAssumption DEF ServiceAssumption
<1> QED BY <1>1, ElementOfSeq DEF Current

LEMMA CallStepKeepsIInv ==
  ASSUME IInv, NEW c \in Calls, CallStep(c)
  PROVE  IInv'
<1> DEFINE Looping(x) ==
             /\ x.pc # "idle"
             /\ x.pc \in {"access", "add", "notify"} => x.at \in 1..Len(Batch[c])
<1>1. TypeOK /\ OnlyRunningWork /\ CallsInRange
  BY DEF IInv
<1>2. /\ nextTileIndex' = nextTileIndex /\ resultCount' = resultCount
      /\ delivered' = delivered /\ lost' = lost /\ aborted' = aborted
      /\ jobsInProgress' = jobsInProgress /\ cached' = cached /\ job' = job
      /\ shouldTerminate' = shouldTerminate
      /\ registered' = registered /\ running' = running /\ manager' = manager
  BY DEF CallStep, BeginCall, CheckAccess, RejectRequest, AddDoneRequest, AddRequest,
         NotifyAdded, requestVars, workerVars, managerVars
<1>3. pc' = pc \/ pc' = Notified
  BY DEF CallStep, BeginCall, CheckAccess, RejectRequest, AddDoneRequest, AddRequest,
         NotifyAdded, workerVars
<1>4. call[c] \in CallState /\ (call[c].pc # "idle" /\ call[c].pc # "returned"
                                => call[c].at \in 1..Len(Batch[c]))
  BY <1>1 DEF TypeOK, CallState, CallsInRange
<1>5. \E x \in CallState : Looping(x) /\ call' = [call EXCEPT ![c] = x]
  <2>1. CASE BeginCall(c)
    <3>1. call[c].at = 1
      BY <1>1, <2>1 DEF BeginCall, CallsInRange
    <3>2. CASE Batch[c] = <<>>
      <4>1. call' = [call EXCEPT ![c] = [call[c] EXCEPT !.pc = "returned"]]
        BY <2>1, <3>2 DEF BeginCall
      <4> QED BY <1>4, <4>1 DEF CallState
    <3>3. CASE Batch[c] # <<>>
      <4>1. call' = [call EXCEPT ![c] = [call[c] EXCEPT !.pc = "access"]]
        BY <2>1, <3>3 DEF BeginCall
      <4>2. 1 \in 1..Len(Batch[c])
        BY <3>3, ServiceAssumption, EmptySeq, LenProperties DEF ServiceAssumption
      <4> QED BY <1>4, <3>1, <4>1, <4>2 DEF CallState
    <3> QED BY <3>2, <3>3
  <2>2. CASE CheckAccess(c)
    <3>1. call[c].at \in 1..Len(Batch[c]) /\ call[c].ok \in BOOLEAN
      BY <1>4, <2>2 DEF CheckAccess, CallState
    <3>2. \E ok \in BOOLEAN : call' = [call EXCEPT ![c] = Advance(c, ok)]
      BY <2>2, <3>1 DEF CheckAccess, Accepted
    <3> QED BY <1>1, <3>1, <3>2, AdvanceInRange DEF CallState
  <2>3. CASE RejectRequest(c) \/ AddDoneRequest(c) \/ NotifyAdded(c)
    <3>1. call[c].at \in 1..Len(Batch[c]) /\ call[c].ok \in BOOLEAN
      BY <1>4, <2>3 DEF RejectRequest, AddDoneRequest, NotifyAdded, CallState
    <3>2. call' = [call EXCEPT ![c] = Advance(c, call[c].ok)]
      BY <2>3 DEF RejectRequest, AddDoneRequest, NotifyAdded
    <3> QED BY <1>1, <3>1, <3>2, AdvanceInRange DEF CallState
  <2>4. CASE AddRequest(c)
    <3>1. call[c].at \in 1..Len(Batch[c])
      BY <1>4, <2>4 DEF AddRequest
    <3>2. call' = [call EXCEPT ![c] = [call[c] EXCEPT !.pc = "notify"]]
      BY <2>4 DEF AddRequest
    <3> QED BY <1>4, <3>1, <3>2 DEF CallState
  <2> QED BY <2>1, <2>2, <2>3, <2>4 DEF CallStep
<1>6. status' \in [Requests -> Status] /\ doneCalls' \in [Requests -> Nat]
  <2>1. CASE CheckAccess(c)
    <3>1. PICK outcome \in AccessOutcomes(Current(c)) :
            UNCHANGED <<status, doneCalls>> \/ SetStatus(Current(c), outcome)
      BY <2>1 DEF CheckAccess
    <3>2. outcome \in Status
      BY <3>1 DEF AccessOutcomes, Status
    <3>3. Current(c) \in Requests
      BY <1>4, <2>1, CurrentIsRequest DEF CheckAccess
    <3> QED BY <1>1, <3>1, <3>2, <3>3 DEF SetStatus, TypeOK
  <2>2. CASE RejectRequest(c)
    <3>1. UNCHANGED <<status, doneCalls>> \/ SetStatus(Current(c), "Aborted")
      BY <2>2 DEF RejectRequest
    <3>2. Current(c) \in Requests
      BY <1>4, <2>2, CurrentIsRequest DEF RejectRequest
    <3> QED BY <1>1, <3>1, <3>2 DEF SetStatus, TypeOK, Status
  <2>3. CASE AddDoneRequest(c)
    <3>1. status' = status /\ doneCalls' = [doneCalls EXCEPT ![Current(c)] = @ + 1]
      BY <2>3 DEF AddDoneRequest
    <3>2. Current(c) \in Requests
      BY <1>4, <2>3, CurrentIsRequest DEF AddDoneRequest
    <3> QED BY <1>1, <3>1, <3>2 DEF TypeOK
  <2>4. CASE BeginCall(c) \/ AddRequest(c) \/ NotifyAdded(c)
    <3>1. status' = status /\ doneCalls' = doneCalls
      BY <2>4 DEF BeginCall, AddRequest, NotifyAdded, requestVars
    <3> QED BY <1>1, <3>1 DEF TypeOK
  <2> QED BY <2>1, <2>2, <2>3, <2>4 DEF CallStep
<1>7. requests' \subseteq Requests /\ ahead' \subseteq Requests \X Requests
  <2>1. CASE AddRequest(c)
    <3>1. Current(c) \in Requests
      BY <1>4, <2>1, CurrentIsRequest DEF AddRequest
    <3> QED BY <1>1, <2>1, <3>1 DEF AddRequest, TypeOK
  <2>2. CASE ~AddRequest(c)
    <3>1. requests' = requests /\ ahead' = ahead
      BY <2>2 DEF CallStep, BeginCall, CheckAccess, RejectRequest, AddDoneRequest,
             NotifyAdded, requestVars
    <3> QED BY <1>1, <3>1 DEF TypeOK
  <2> QED BY <2>1, <2>2
<1>8. call' \in [Calls -> CallState]
  BY <1>1, <1>5 DEF TypeOK
<1>9. TypeOK'
  BY <1>1, <1>2, <1>3, <1>6, <1>7, <1>8 DEF TypeOK, Notified
<1>10. \A w \in Workers : Holds(w)' <=> Holds(w)
  BY <1>1, <1>3 DEF TypeOK, Holds, Notified
<1>11. OnlyRunningWork'
  BY <1>1, <1>2, <1>3 DEF OnlyRunningWork, TypeOK, Notified
<1>12. CallsInRange'
  BY <1>1, <1>5 DEF CallsInRange, TypeOK
<1> QED BY <1>2, <1>9, <1>10, <1>11, <1>12, TilesUntouched DEF IInv

LEMMA AbortKeepsIInv ==
  ASSUME IInv, NEW c \in Calls, NEW r \in Requests, AbortRequest(c, r)
  PROVE  IInv'
<1>1. TypeOK /\ OnlyRunningWork /\ CallsInRange
  BY DEF IInv
<1>2. /\ nextTileIndex' = nextTileIndex /\ resultCount' = resultCount
      /\ delivered' = delivered /\ lost' = lost
      /\ jobsInProgress' = jobsInProgress /\ cached' = cached /\ job' = job
      /\ pc' = pc /\ shouldTerminate' = shouldTerminate /\ call' = call
      /\ registered' = registered /\ running' = running /\ manager' = manager
  BY DEF AbortRequest, workerVars, managerVars
<1>3. /\ aborted' \subseteq Requests /\ requests' \subseteq Requests
      /\ ahead' \subseteq Requests \X Requests
      /\ status' \in [Requests -> Status] /\ doneCalls' \in [Requests -> Nat]
  BY <1>1 DEF AbortRequest, WithoutRequest, MarkAborted, SetStatus, TypeOK, Status
<1>4. TypeOK'
  BY <1>1, <1>2, <1>3 DEF TypeOK
<1>5. \A w \in Workers : Holds(w)' <=> Holds(w)
  BY <1>2 DEF Holds
<1>6. OnlyRunningWork' /\ CallsInRange'
  BY <1>1, <1>2 DEF OnlyRunningWork, CallsInRange
<1> QED BY <1>2, <1>4, <1>5, <1>6, TilesUntouched DEF IInv

(***************************************************************************)
(* The manager                                                             *)
(***************************************************************************)

LEMMA ManagerStepKeepsIInv ==
  ASSUME IInv, ManagerStep
  PROVE  IInv'
<1>1. TypeOK /\ OnlyRunningWork /\ CallsInRange
  BY DEF IInv
<1>2. /\ requests' = requests /\ ahead' = ahead /\ nextTileIndex' = nextTileIndex
      /\ resultCount' = resultCount /\ status' = status /\ doneCalls' = doneCalls
      /\ delivered' = delivered /\ lost' = lost /\ aborted' = aborted
      /\ jobsInProgress' = jobsInProgress /\ cached' = cached /\ job' = job
      /\ call' = call
  BY DEF ManagerStep, AddDataSource, RemoveDataSource, Destroy, SignalWorkers,
         NotifyWorkers, JoinWorkers, requestVars, workerVars
<1>3. CallsInRange'
  BY <1>1, <1>2 DEF CallsInRange
<1>4. TypeOK' /\ OnlyRunningWork' /\ (\A w \in Workers : Holds(w)' <=> Holds(w))
  <2>1. ASSUME NEW s \in Sources, AddDataSource(s)
        PROVE  TypeOK' /\ OnlyRunningWork' /\ (\A w \in Workers : Holds(w)' <=> Holds(w))
    <3>1. /\ registered' = registered \cup {s}
          /\ running' = IF WorkersOf({s}) = {} THEN running ELSE running \cup {s}
          /\ pc' = [w \in Workers |-> IF SourceOf[w] = s THEN "check" ELSE pc[w]]
          /\ shouldTerminate' = [w \in Workers |-> shouldTerminate[w] /\ SourceOf[w] # s]
          /\ manager' = manager
          /\ manager.pc = "idle" /\ s \notin registered
      BY <2>1 DEF AddDataSource
    <3>2. shouldTerminate' \in [Workers -> BOOLEAN]
      BY <3>1
    <3>3. TypeOK'
      BY <1>1, <1>2, <3>1, <3>2 DEF TypeOK
    <3>4. s \notin running
      BY <1>1, <3>1 DEF OnlyRunningWork
    <3>5. \A w \in Workers : Holds(w)' <=> Holds(w)
      BY <1>1, <3>1, <3>4 DEF OnlyRunningWork, Holds
    <3>6. OnlyRunningWork'
      BY <1>1, <3>1 DEF OnlyRunningWork, WorkersOf
    <3> QED BY <3>3, <3>5, <3>6
  <2>2. ASSUME NEW s \in Sources, RemoveDataSource(s)
        PROVE  TypeOK' /\ OnlyRunningWork' /\ (\A w \in Workers : Holds(w)' <=> Holds(w))
    <3>1. /\ registered' = registered \ {s} /\ running' = running
          /\ pc' = pc /\ shouldTerminate' = shouldTerminate
          /\ manager' = IF s \in running
                        THEN [manager EXCEPT !.pc = "signal", !.stopping = {s}]
                        ELSE manager
          /\ manager.pc = "idle"
      BY <2>2 DEF RemoveDataSource, workerVars
    <3>2. TypeOK'
      BY <1>1, <1>2, <3>1 DEF TypeOK, ManagerState
    <3>3. OnlyRunningWork'
      BY <1>1, <3>1 DEF OnlyRunningWork, TypeOK, ManagerState
    <3> QED BY <3>1, <3>2, <3>3 DEF Holds
  <2>3. CASE Destroy
    <3>1. /\ registered' = registered /\ running' = running
          /\ pc' = pc /\ shouldTerminate' = shouldTerminate
          /\ manager' = [pc |-> "signal", stopping |-> running, destroyed |-> TRUE]
          /\ manager.pc = "idle"
      BY <2>3 DEF Destroy, workerVars
    <3>2. TypeOK'
      BY <1>1, <1>2, <3>1 DEF TypeOK, ManagerState
    <3>3. OnlyRunningWork'
      BY <1>1, <3>1 DEF OnlyRunningWork
    <3> QED BY <3>1, <3>2, <3>3 DEF Holds
  <2>4. CASE SignalWorkers
    <3>1. /\ registered' = registered /\ running' = running /\ pc' = pc
          /\ shouldTerminate' = [w \in Workers |->
                           shouldTerminate[w] \/ SourceOf[w] \in manager.stopping]
          /\ manager' = [manager EXCEPT !.pc = "notify"]
      BY <2>4 DEF SignalWorkers
    <3>2. shouldTerminate' \in [Workers -> BOOLEAN]
      BY <3>1
    <3>3. TypeOK'
      BY <1>1, <1>2, <3>1, <3>2 DEF TypeOK, ManagerState
    <3>4. OnlyRunningWork'
      BY <1>1, <3>1 DEF OnlyRunningWork, TypeOK, ManagerState
    <3> QED BY <3>1, <3>3, <3>4 DEF Holds
  <2>5. CASE NotifyWorkers
    <3>1. /\ registered' = registered /\ running' = running
          /\ pc' = Notified /\ shouldTerminate' = shouldTerminate
          /\ manager' = [manager EXCEPT !.pc = "join"]
      BY <2>5 DEF NotifyWorkers
    <3>2. TypeOK'
      BY <1>1, <1>2, <3>1 DEF TypeOK, ManagerState, Notified
    <3>3. OnlyRunningWork'
      BY <1>1, <3>1 DEF OnlyRunningWork, TypeOK, ManagerState, Notified
    <3> QED BY <3>1, <3>2, <3>3 DEF Holds, Notified
  <2>6. CASE JoinWorkers
    <3>1. /\ registered' = registered /\ running' = running \ manager.stopping
          /\ pc' = pc /\ shouldTerminate' = shouldTerminate
          /\ manager' = [manager EXCEPT !.pc = "idle", !.stopping = {}]
          /\ \A w \in WorkersOf(manager.stopping) : pc[w] = "exited"
      BY <2>6 DEF JoinWorkers, workerVars
    <3>2. TypeOK'
      BY <1>1, <1>2, <3>1 DEF TypeOK, ManagerState
    <3>3. OnlyRunningWork'
      BY <1>1, <3>1 DEF OnlyRunningWork, TypeOK, ManagerState, WorkersOf
    <3> QED BY <3>1, <3>2, <3>3 DEF Holds
  <2> QED BY <2>1, <2>2, <2>3, <2>4, <2>5, <2>6 DEF ManagerStep
<1> QED BY <1>2, <1>3, <1>4, TilesUntouched DEF IInv

(***************************************************************************)
(* The theorems                                                            *)
(***************************************************************************)

LEMMA InitIInv == Init => IInv
<1> SUFFICES ASSUME Init PROVE IInv
  OBVIOUS
<1>1. \A r \in Requests : Size(r) \in Nat
  BY SizeIsNat
<1>2. TypeOK
  BY ServiceAssumption DEF ServiceAssumption, Init, TypeOK, InitialStatus, Status,
     CallState, ManagerState
<1>3. IndexInRange
  BY <1>1 DEF Init, IndexInRange
<1>4. \A w \in Workers : ~Holds(w)
  BY DEF Init, Holds
<1>5. JobsInRange /\ NoDoubleWork
  BY <1>4 DEF JobsInRange, NoDoubleWork
<1>6. TilesAccounted
  BY <1>4 DEF TilesAccounted, InHand, Init
<1>7. OnlyRunningWork
  BY DEF Init, OnlyRunningWork, WorkersOf
<1>8. CallsInRange
  BY DEF Init, CallsInRange
<1> QED BY <1>2, <1>3, <1>5, <1>6, <1>7, <1>8 DEF IInv

LEMMA StepIInv == IInv /\ [Next]_vars => IInv'
<1> SUFFICES ASSUME IInv, [Next]_vars PROVE IInv'
  OBVIOUS
<1>1. ASSUME NEW w \in Workers, WorkerStep(w) PROVE IInv'
  <2>1. CASE CheckJobs(w)
    <3>1. ChecksInVain(w) \/ \E r \in Requests : ChecksAndTakes(w, r)
      BY <2>1 DEF CheckJobs, ChecksInVain, ChecksAndTakes
    <3> QED BY <3>1, FindNothingKeepsIInv, TakeJobKeepsIInv
  <2>2. CASE Exit(w) \/ Block(w) \/ SpuriousWakeup(w) \/ StartJob(w) \/ FetchTile(w)
    BY <2>2, MoveKeepsIInv
  <2>3. CASE ExitWithJob(w)
    <3>1. Holds(w) /\ DropJob(w, "exited")
      BY <2>3 DEF ExitWithJob, Holds
    <3> QED BY <3>1, DropJobKeepsIInv
  <2>4. CASE FetchFails(w)
    <3>1. Holds(w) /\ DropJob(w, "check")
      BY <2>4 DEF FetchFails, Holds
    <3> QED BY <3>1, DropJobKeepsIInv
  <2>5. CASE FinishJob(w)
    BY <2>5, FinishJobKeepsIInv
  <2> QED BY <1>1, <2>1, <2>2, <2>3, <2>4, <2>5 DEF WorkerStep
<1>2. ASSUME NEW c \in Calls, CallStep(c) PROVE IInv'
  BY <1>2, CallStepKeepsIInv
<1>3. ASSUME NEW c \in Calls, NEW r \in Requests, AbortRequest(c, r) PROVE IInv'
  BY <1>3, AbortKeepsIInv
<1>4. CASE ManagerStep
  BY <1>4, ManagerStepKeepsIInv
<1>5. CASE UNCHANGED vars
  <2>1. /\ nextTileIndex' = nextTileIndex /\ delivered' = delivered /\ lost' = lost
        /\ jobsInProgress' = jobsInProgress /\ job' = job /\ pc' = pc
        /\ requests' = requests /\ ahead' = ahead /\ resultCount' = resultCount
        /\ status' = status /\ doneCalls' = doneCalls /\ aborted' = aborted
        /\ cached' = cached /\ shouldTerminate' = shouldTerminate /\ call' = call
        /\ registered' = registered /\ running' = running /\ manager' = manager
    BY <1>5 DEF vars, requestVars, workerVars, managerVars
  <2>2. TypeOK' /\ OnlyRunningWork' /\ CallsInRange'
    BY <2>1 DEF IInv, TypeOK, OnlyRunningWork, CallsInRange
  <2>3. \A w \in Workers : Holds(w)' <=> Holds(w)
    BY <2>1 DEF Holds
  <2> QED BY <2>1, <2>2, <2>3, TilesUntouched DEF IInv
<1> QED BY <1>1, <1>2, <1>3, <1>4, <1>5 DEF Next

\* The inductive invariant holds in every reachable state.
THEOREM ServiceInvariant == Spec => []IInv
BY InitIInv, StepIInv, PTL DEF Spec

\* Every variable keeps its type, for all requests, sources and workers.
THEOREM TypeCorrect == Spec => []TypeOK
<1>1. IInv => TypeOK
  BY DEF IInv
<1> QED BY <1>1, ServiceInvariant, PTL

\* No two workers ever fetch the same tile at the same time (the guard of
\* nextJob on jobsInProgress_), whatever sources come and go.
THEOREM NeverDoubleWork == Spec => []NoDoubleWork
<1>1. IInv => NoDoubleWork
  BY DEF IInv
<1> QED BY <1>1, ServiceInvariant, PTL

\* No tile of a request is skipped or handed over twice: what nextTileIndex_
\* has passed was delivered, is in hand or went down with a dropped job.
THEOREM TilesAreAccounted == Spec => []TilesAccounted
<1>1. IInv => TilesAccounted
  BY DEF IInv
<1> QED BY <1>1, ServiceInvariant, PTL

(***************************************************************************)
(* Requests: every request ends once, with the status its tiles have       *)
(* earned; a call of request() takes all of its requests or none; a key    *)
(* stays in jobsInProgress_ only for a worker that has it or has dropped   *)
(* it; and no notification is lost.                                        *)
(***************************************************************************)

\* What resultCount_, status_ and the list say about one request. A request
\* that was rejected or aborted has an index which never reaches its end: so no
\* late result turns it into a success.
Ends(r) ==
  /\ resultCount[r] = Cardinality(delivered[r])
  /\ status[r] = "Open" => doneCalls[r] = 0 /\ resultCount[r] < Size(r)
  /\ doneCalls[r] <= 1
  /\ status[r] = "Success" => resultCount[r] = Size(r)
  /\ status[r] \notin {"Open", "Success"} /\ Size(r) > 0 => nextTileIndex[r] < Size(r)
  /\ r \in requests => status[r] = "Open" /\ nextTileIndex[r] < Size(r)

\* How far the two loops of call c have come.
Checked(c, i) ==
  \/ call[c].pc \in {"add", "notify", "returned"}
  \/ call[c].pc = "access" /\ i < call[c].at
Handled(c, i) ==
  \/ call[c].pc = "returned"
  \/ call[c].pc \in {"add", "notify"} /\ i < call[c].at
  \/ call[c].pc = "notify" /\ i = call[c].at

\* What is known of the i-th request of call c while the loops go on.
InBatch(c, i) ==
  LET r == Batch[c][i]
  IN  /\ call[c].ok => status[r] \notin {"NoDataSource", "Unauthorized"}
      /\ ~(call[c].ok /\ Handled(c, i)) => r \notin requests /\ nextTileIndex[r] = 0
      /\ ~Checked(c, i) \/ (call[c].ok /\ ~Handled(c, i))
           => status[r] = InitialStatus(r) /\ doneCalls[r] = 0
      /\ ~call[c].ok /\ Handled(c, i) => status[r] # "Open"

CallsFit ==
  \A c \in Calls :
    /\ ~call[c].ok => call[c].pc \notin {"idle", "notify"}
    /\ \A i \in DOMAIN Batch[c] : InBatch(c, i)

\* The inductive invariant, beside IInv.
EndInv == (\A r \in Requests : Ends(r)) /\ CallsFit

\* What no step changes of a request that has ended.
Final(r) ==
  /\ status[r] # "Open" /\ Size(r) > 0 => status'[r] = status[r]
  /\ status[r] = "Aborted" =>
       /\ nextTileIndex'[r] = nextTileIndex[r]
       /\ delivered'[r] \subseteq delivered[r] \cup InHand(r)

(***************************************************************************)
(* Counting results                                                        *)
(***************************************************************************)
LEMMA UpTo ==
  ASSUME NEW n \in Nat
  PROVE  IsFiniteSet(1 .. n) /\ Cardinality(1 .. n) = n
<1>1. IsFiniteSet(1 .. n) /\ Cardinality(1 .. n) = IF 1 > n THEN 0 ELSE n - 1 + 1
  BY FS_Interval
<1> QED BY <1>1

\* The delivered positions are positions in front of the index, and all of
\* them exactly if there are as many.
LEMMA DeliveredInRange ==
  ASSUME IInv, NEW r \in Requests
  PROVE  /\ Size(r) \in Nat /\ nextTileIndex[r] \in Nat /\ nextTileIndex[r] <= Size(r)
         /\ IsFiniteSet(delivered[r]) /\ Cardinality(delivered[r]) \in Nat
         /\ Cardinality(delivered[r]) <= nextTileIndex[r]
         /\ delivered[r] \subseteq Positions(r)
         /\ Cardinality(delivered[r]) = Size(r) <=> delivered[r] = Positions(r)
<1>1. /\ TypeOK /\ nextTileIndex[r] \in Nat /\ nextTileIndex[r] <= Size(r)
      /\ delivered[r] \subseteq 1 .. nextTileIndex[r]
  BY DEF IInv, TypeOK, IndexInRange, TilesAccounted
<1>2. Size(r) \in Nat
  BY SizeIsNat
<1>3. /\ IsFiniteSet(1 .. nextTileIndex[r]) /\ Cardinality(1 .. nextTileIndex[r]) = nextTileIndex[r]
      /\ IsFiniteSet(Positions(r)) /\ Cardinality(Positions(r)) = Size(r)
  BY <1>1, <1>2, UpTo DEF Positions
<1>4. delivered[r] \subseteq Positions(r)
  BY <1>1, <1>2 DEF Positions
<1>5. /\ IsFiniteSet(delivered[r]) /\ Cardinality(delivered[r]) <= nextTileIndex[r]
      /\ Cardinality(delivered[r]) = Size(r) => delivered[r] = Positions(r)
  BY <1>1, <1>3, <1>4, FS_Subset
<1> QED BY <1>1, <1>2, <1>3, <1>4, <1>5, FS_CardinalityType

\* What happens to a request in a step that hands in results: its status is
\* left alone, or the last result makes it a success.
Advances(r) ==
  \/ status'[r] = status[r] /\ doneCalls'[r] = doneCalls[r]
  \/ /\ status[r] = "Open" /\ status'[r] \in {"Success", "Aborted"}
     /\ r \in requests \/ nextTileIndex'[r] > 0

LEMMA ResultsKeepEnds ==
  ASSUME IInv, IInv', \A r \in Requests : Ends(r),
         NEW n, NEW got, NotifyResults(n, got),
         \A r \in Requests : /\ n[r] \in Nat /\ IsFiniteSet(got[r])
                             /\ Cardinality(got[r]) = n[r] /\ got[r] \cap delivered[r] = {},
         requests' \subseteq requests,
         \A r \in Requests : r \notin requests => nextTileIndex'[r] = nextTileIndex[r],
         \A r \in requests' : nextTileIndex'[r] # Size(r)
  PROVE  \A r \in Requests : Ends(r)' /\ Advances(r)
<1> SUFFICES ASSUME NEW r \in Requests PROVE Ends(r)' /\ Advances(r)
  OBVIOUS
<1>1. /\ Size(r) \in Nat /\ nextTileIndex[r] \in Nat /\ nextTileIndex[r] <= Size(r)
      /\ IsFiniteSet(delivered[r]) /\ Cardinality(delivered[r]) \in Nat
  BY DeliveredInRange
<1>2. /\ nextTileIndex'[r] \in Nat /\ nextTileIndex'[r] <= Size(r)
      /\ delivered'[r] \subseteq 1 .. nextTileIndex'[r]
  BY DEF IInv, TypeOK, IndexInRange, TilesAccounted, Size
<1>3. /\ delivered'[r] = delivered[r] \cup got[r]
      /\ resultCount'[r] = resultCount[r] + n[r]
      /\ status'[r] = IF Completes(r, n[r]) THEN "Success" ELSE status[r]
      /\ doneCalls'[r] = IF Completes(r, n[r]) THEN doneCalls[r] + 1 ELSE doneCalls[r]
  BY DEF NotifyResults
<1>4. Ends(r) /\ status[r] \in Status /\ doneCalls[r] \in Nat
  BY DEF IInv, TypeOK
<1>5. resultCount'[r] = Cardinality(delivered'[r])
  <2>1. Cardinality(delivered[r] \cap got[r]) = 0
    BY FS_EmptySet
  <2>2. Cardinality(delivered[r] \cup got[r])
          = Cardinality(delivered[r]) + Cardinality(got[r]) - Cardinality(delivered[r] \cap got[r])
    BY <1>1, FS_Union
  <2> QED BY <1>1, <1>3, <1>4, <2>1, <2>2 DEF Ends
<1>6. resultCount'[r] \in Nat /\ resultCount'[r] <= nextTileIndex'[r]
  BY <1>2, <1>5, UpTo, FS_Subset, FS_CardinalityType
<1>7. resultCount[r] \in Nat /\ n[r] \in Nat
  BY <1>1, <1>4 DEF Ends
<1>8. CASE Completes(r, n[r])
  <2>1. n[r] > 0 /\ resultCount[r] + n[r] = Size(r)
    BY <1>8 DEF Completes
  <2>2. nextTileIndex'[r] = Size(r) /\ Size(r) > 0
    BY <1>1, <1>2, <1>3, <1>6, <1>7, <2>1
  <2>3. status[r] # "Success"
    BY <1>4, <1>7, <2>1 DEF Ends
  <2>4. status[r] = "Open"
    BY <1>1, <1>4, <2>2, <2>3 DEF Ends
  <2>5. r \notin requests'
    BY <2>2
  <2>6. status'[r] = "Success" /\ doneCalls'[r] = 1
    BY <1>3, <1>4, <1>8, <2>4 DEF Ends
  <2>7. Size(r)' = Size(r)
    BY DEF Size
  <2> QED BY <1>3, <1>5, <2>1, <2>2, <2>4, <2>5, <2>6, <2>7 DEF Ends, Advances
<1>9. CASE ~Completes(r, n[r])
  <2>1. status'[r] = status[r] /\ doneCalls'[r] = doneCalls[r] /\ Size(r)' = Size(r)
    BY <1>3, <1>9 DEF Size
  <2>2. ~ (n[r] > 0 /\ resultCount[r] + n[r] = Size(r))
    BY <1>9 DEF Completes
  <2>3. status[r] = "Open" => resultCount'[r] < Size(r)
    BY <1>1, <1>2, <1>3, <1>4, <1>6, <1>7, <2>2 DEF Ends
  <2>4. status[r] = "Success" => resultCount'[r] = Size(r)
    BY <1>1, <1>2, <1>3, <1>4, <1>6, <1>7 DEF Ends
  <2>5. status[r] \notin {"Open", "Success"} /\ Size(r) > 0 => nextTileIndex'[r] < Size(r)
    BY <1>4 DEF Ends
  <2>6. r \in requests' => status[r] = "Open" /\ nextTileIndex'[r] < Size(r)
    BY <1>1, <1>2, <1>4 DEF Ends
  <2>7. Ends(r)'
    BY <1>4, <1>5, <2>1, <2>3, <2>4, <2>5, <2>6 DEF Ends
  <2> QED BY <2>1, <2>7 DEF Advances
<1> QED BY <1>8, <1>9

\* A step that advances requests in the list keeps the calls in order.
LEMMA AdvancesKeepCalls ==
  ASSUME IInv, CallsFit, call' = call, requests' \subseteq requests,
         \A r \in Requests : Advances(r),
         \A r \in Requests : r \notin requests => nextTileIndex'[r] = nextTileIndex[r]
  PROVE  CallsFit'
<1>1. ASSUME NEW c \in Calls, NEW i \in DOMAIN Batch[c]
      PROVE  InBatch(c, i)'
  <2> DEFINE r == Batch[c][i]
  <2>1. r \in Requests
    BY ServiceAssumption, ElementOfSeq, LenProperties DEF ServiceAssumption
  <2>2. InBatch(c, i)
    BY DEF CallsFit
  <2>3. (Checked(c, i)' <=> Checked(c, i)) /\ (Handled(c, i)' <=> Handled(c, i))
        /\ (Checked(c, i) \/ ~Handled(c, i)) /\ (InitialStatus(r)' = InitialStatus(r))
    BY DEF Checked, Handled, InitialStatus, Size
  <2>4. Advances(r) /\ (r \notin requests => nextTileIndex'[r] = nextTileIndex[r] /\ r \notin requests')
    BY <2>1
  <2> QED BY <2>2, <2>3, <2>4 DEF InBatch, Advances
<1> QED BY <1>1 DEF CallsFit

(***************************************************************************)
(* The steps of workers                                                    *)
(***************************************************************************)
\* A worker that looks for a job hands in the cached tiles on its way.
LEMMA CheckJobsKeepsEnds ==
  ASSUME IInv, IInv', EndInv, NEW w \in Workers, CheckJobs(w)
  PROVE  EndInv' /\ \A r \in Requests : Final(r)
<1>1. TypeOK /\ IndexInRange /\ TilesAccounted /\ \A r \in Requests : Ends(r)
  BY DEF IInv, EndInv
<1>2. ASSUME NEW served, NEW taken, ServeCached(served, taken),
             \A r \in Requests : /\ served[r] \in Nat
                                 /\ r \notin requests => served[r] = 0 /\ taken[r] = nextTileIndex[r]
      PROVE  EndInv' /\ \A r \in Requests : Final(r)
  <2> DEFINE got == [r \in Requests |-> (nextTileIndex[r] + 1)..(nextTileIndex[r] + served[r])]
  <2>1. /\ NotifyResults(served, got) /\ nextTileIndex' = taken
        /\ requests' = {r \in requests : taken[r] # Size(r)}
    BY <1>2 DEF ServeCached, Unfinished
  <2>2. \A r \in Requests : /\ served[r] \in Nat /\ IsFiniteSet(got[r])
                            /\ Cardinality(got[r]) = served[r] /\ got[r] \cap delivered[r] = {}
    <3> SUFFICES ASSUME NEW r \in Requests
                 PROVE  /\ served[r] \in Nat /\ IsFiniteSet(got[r])
                        /\ Cardinality(got[r]) = served[r] /\ got[r] \cap delivered[r] = {}
      OBVIOUS
    <3>1. nextTileIndex[r] \in Nat /\ served[r] \in Nat /\ delivered[r] \subseteq 1 .. nextTileIndex[r]
      BY <1>1, <1>2 DEF TypeOK, TilesAccounted
    <3> DEFINE a == nextTileIndex[r] + 1
               b == nextTileIndex[r] + served[r]
    <3>2. a \in Int /\ b \in Int /\ (IF a > b THEN 0 ELSE b - a + 1) = served[r]
      BY <3>1
    <3>3. IsFiniteSet(a .. b) /\ Cardinality(a .. b) = IF a > b THEN 0 ELSE b - a + 1
      <4> HIDE DEF a, b
      <4> QED BY <3>2, FS_Interval
    <3>4. (a .. b) \cap delivered[r] = {}
      BY <3>1
    <3> QED BY <3>1, <3>2, <3>3, <3>4
  <2> HIDE DEF got
  <2>3. /\ requests' \subseteq requests /\ call' = call
        /\ \A r \in Requests : r \notin requests => nextTileIndex'[r] = nextTileIndex[r]
        /\ \A r \in requests' : nextTileIndex'[r] # Size(r)
    BY <1>2, <2>1 DEF CheckJobs
  <2>4. \A r \in Requests : Ends(r)' /\ Advances(r)
    BY <1>1, <2>1, <2>2, <2>3, ResultsKeepEnds
  <2>5. CallsFit'
    BY <2>3, <2>4, AdvancesKeepCalls DEF EndInv
  <2>6. ASSUME NEW r \in Requests, status[r] # "Open"
        PROVE  Final(r)
    <3>1. r \notin requests /\ status'[r] = status[r] /\ served[r] = 0 /\ nextTileIndex'[r] = nextTileIndex[r]
      BY <1>1, <1>2, <2>3, <2>4, <2>6 DEF Ends, Advances
    <3>2. Cardinality(got[r]) = 0 /\ IsFiniteSet(got[r])
      BY <2>2, <3>1
    <3>3. delivered'[r] = delivered[r]
      BY <2>1, <3>2, FS_EmptySet DEF NotifyResults
    <3> QED BY <3>1, <3>3 DEF Final
  <2>7. \A r \in Requests : Final(r)
    BY <2>6 DEF Final
  <2> QED BY <2>4, <2>5, <2>7 DEF EndInv
<1>3. CASE FindNothing(w)
  <2> DEFINE served == [q \in Requests |-> ServedWithoutJob(w, q)]
             taken  == [q \in Requests |-> TakenWithoutJob(w, q)]
  <2>1. ServeCached(served, taken)
    BY <1>3 DEF FindNothing
  <2>2. ASSUME NEW r \in Requests
        PROVE  /\ served[r] \in Nat
               /\ r \notin requests => served[r] = 0 /\ taken[r] = nextTileIndex[r]
    <3>1. ServedWithoutJob(w, r) \in 0 .. (Pass(r) - 1) /\ Pass(r) \in Nat /\ nextTileIndex[r] \in Nat
      BY <1>1, PassInRange, ServedAllInRange
    <3>2. r \notin requests => ServedWithoutJob(w, r) = 0
      BY DEF ServedWithoutJob, Wanted
    <3> QED BY <3>1, <3>2 DEF TakenWithoutJob
  <2> HIDE DEF served, taken
  <2> QED BY <1>2, <2>1, <2>2
<1>4. ASSUME NEW j \in Requests, TakeJob(w, j)
      PROVE  EndInv' /\ \A r \in Requests : Final(r)
  <2> DEFINE served == [q \in Requests |-> ServedBefore(w, q, j)]
             taken  == [q \in Requests |-> IF q = j THEN Stop(j) ELSE nextTileIndex[q] + served[q]]
  <2>1. ServeCached(served, taken) /\ j \in Takeable(w) /\ j \in requests
    BY <1>4 DEF TakeJob, IsNextJob, Takeable, Wanted
  <2>2. ASSUME NEW r \in Requests
        PROVE  /\ served[r] \in Nat
               /\ r \notin requests => served[r] = 0 /\ taken[r] = nextTileIndex[r]
    <3>1. ServedBefore(w, r, j) \in 0 .. (Pass(r) - 1) /\ Pass(r) \in Nat /\ nextTileIndex[r] \in Nat
      BY <1>1, <2>1, PassInRange, ServedInRange
    <3>2. r \notin requests => ServedBefore(w, r, j) = 0
      BY DEF ServedBefore, Wanted
    <3> QED BY <2>1, <3>1, <3>2
  <2> HIDE DEF served, taken
  <2> QED BY <1>2, <2>1, <2>2
<1> QED BY <1>3, <1>4 DEF CheckJobs

\* A worker that comes back hands in the one tile it holds.
LEMMA FinishJobKeepsEnds ==
  ASSUME IInv, IInv', EndInv, NEW w \in Workers, FinishJob(w)
  PROVE  EndInv' /\ \A r \in Requests : Final(r)
<1> DEFINE r == job[w][1]
           p == job[w][2]
           n == [q \in Requests |-> IF q = r THEN 1 ELSE 0]
           got == [q \in Requests |-> IF q = r THEN {p} ELSE {}]
<1>1. /\ NotifyResults(n, got) /\ nextTileIndex' = nextTileIndex /\ requests' = requests
      /\ call' = call /\ Holds(w)
  BY DEF FinishJob, Holds
<1>2. \A q \in Requests : Ends(q)
  BY DEF EndInv
<1>3. job[w] \in Requests \X Nat /\ p \in Positions(r)
  BY <1>1 DEF IInv, JobsInRange
<1>4. r \in Requests /\ p \in InHand(r)
  <2>1. job[w] = <<r, p>> /\ r \in Requests
    BY <1>3
  <2> QED BY <1>1, <1>3, <2>1 DEF InHand
<1>5. p \notin delivered[r]
  BY <1>4 DEF IInv, TilesAccounted
<1>6. \A q \in Requests : /\ n[q] \in Nat /\ IsFiniteSet(got[q])
                          /\ Cardinality(got[q]) = n[q] /\ got[q] \cap delivered[q] = {}
  <2> HIDE DEF r, p
  <2> QED BY <1>5, FS_EmptySet, FS_Singleton
<1> HIDE DEF n, got, r, p
<1>7. \A q \in requests' : nextTileIndex'[q] # Size(q)
  <2>1. \A q \in requests : q \in Requests /\ nextTileIndex[q] < Size(q)
    BY <1>2 DEF IInv, TypeOK, Ends
  <2>2. \A q \in Requests : nextTileIndex[q] \in Nat /\ Size(q) \in Nat
    BY DeliveredInRange
  <2> QED BY <1>1, <2>1, <2>2
<1>8. \A q \in Requests : Ends(q)' /\ Advances(q)
  BY <1>1, <1>2, <1>6, <1>7, ResultsKeepEnds
<1>9. CallsFit'
  BY <1>1, <1>8, AdvancesKeepCalls DEF EndInv
<1>10. ASSUME NEW q \in Requests
       PROVE  Final(q)
  <2>1. status[q] # "Open" => status'[q] = status[q]
    BY <1>8 DEF Advances
  <2>2. delivered'[q] = delivered[q] \cup (IF q = r THEN {p} ELSE {})
    BY <1>1 DEF NotifyResults, got
  <2> QED BY <1>1, <1>4, <2>1, <2>2 DEF Final
<1> QED BY <1>8, <1>9, <1>10 DEF EndInv

\* Nothing of it changes in the other steps of workers and of the manager.
LEMMA OthersKeepEnds ==
  ASSUME EndInv, UNCHANGED <<requests, nextTileIndex, resultCount, status, doneCalls,
                             delivered, call>>
  PROVE  EndInv'
BY DEF EndInv, Ends, CallsFit, InBatch, Checked, Handled, InitialStatus, Size

(***************************************************************************)
(* The steps of clients                                                    *)
(***************************************************************************)
\* The loops of request() go through the batch in its order.
LEMMA LoopsGoOn ==
  ASSUME IInv, NEW c \in Calls, NEW ok \in BOOLEAN, NEW i \in DOMAIN Batch[c],
         call[c].pc \in {"access", "add", "notify"},
         call' = [call EXCEPT ![c] = Advance(c, ok)]
  PROVE  /\ call'[c].ok = ok /\ call'[c].pc \notin {"idle", "notify"}
         /\ call[c].pc = "access" => ~Handled(c, i)' /\ (Checked(c, i)' <=> i <= call[c].at)
         /\ call[c].pc # "access" => Checked(c, i)' /\ (Handled(c, i)' <=> i <= call[c].at)
<1>1. call[c].at \in 1 .. Len(Batch[c]) /\ Len(Batch[c]) \in Nat /\ i \in 1 .. Len(Batch[c])
  BY ServiceAssumption, LenProperties DEF ServiceAssumption, IInv, CallsInRange
<1>2. call'[c] = Advance(c, ok)
  BY DEF IInv, TypeOK
<1>3. CASE call[c].at < Len(Batch[c])
  BY <1>1, <1>2, <1>3 DEF Advance, Handled, Checked
<1>4. CASE ~ (call[c].at < Len(Batch[c]))
  <2>1. call[c].at = Len(Batch[c])
    BY <1>1, <1>4
  <2> QED BY <1>1, <1>2, <1>4, <2>1 DEF Advance, Handled, Checked
<1> QED BY <1>3, <1>4

\* A call changes only the request it is at, which no other call has.
LEMMA OtherCallsFit ==
  ASSUME IInv, CallsFit, NEW c \in Calls, NEW at \in DOMAIN Batch[c],
         \A d \in Calls : d # c => call'[d] = call[d],
         \A r \in Requests : r # Batch[c][at] =>
           /\ status'[r] = status[r] /\ doneCalls'[r] = doneCalls[r]
           /\ nextTileIndex'[r] = nextTileIndex[r] /\ (r \in requests' <=> r \in requests),
         ~call'[c].ok => call'[c].pc \notin {"idle", "notify"},
         \A i \in DOMAIN Batch[c] : InBatch(c, i)'
  PROVE  CallsFit'
<1>1. ASSUME NEW d \in Calls, d # c, NEW i \in DOMAIN Batch[d]
      PROVE  InBatch(d, i)'
  <2>1. Batch[d][i] \in Requests
    BY ServiceAssumption, ElementOfSeq, LenProperties DEF ServiceAssumption
  <2>2. Batch[d][i] # Batch[c][at]
    BY <1>1, OneCallPerRequest DEF OneCallPerRequest
  <2>3. InBatch(d, i)
    BY DEF CallsFit
  <2>4. (Checked(d, i)' <=> Checked(d, i)) /\ (Handled(d, i)' <=> Handled(d, i))
        /\ InitialStatus(Batch[d][i])' = InitialStatus(Batch[d][i])
    BY <1>1 DEF Checked, Handled, InitialStatus, Size
  <2> QED BY <1>1, <2>1, <2>2, <2>3, <2>4 DEF InBatch
<1> QED BY <1>1 DEF CallsFit

\* Only SetStatus and addRequest touch a request without handing in results.
LEMMA OtherEndsKept ==
  ASSUME NEW q \in Requests, \A r \in Requests : Ends(r),
         UNCHANGED <<nextTileIndex, resultCount, delivered>>,
         \A r \in Requests : r # q =>
           /\ status'[r] = status[r] /\ doneCalls'[r] = doneCalls[r]
           /\ r \in requests' <=> r \in requests,
         Ends(q)'
  PROVE  \A r \in Requests : Ends(r)'
<1>1. ASSUME NEW r \in Requests, r # q
      PROVE  Ends(r)'
  BY <1>1 DEF Ends, Size
<1> QED BY <1>1

\* What the loops know of the request q they are at.
LEMMA CurrentInBatch ==
  ASSUME IInv, EndInv, NEW c \in Calls, call[c].pc \in {"access", "add", "notify"}
  PROVE  \E q \in Requests, at \in DOMAIN Batch[c] :
           /\ at = call[c].at /\ q = Current(c) /\ q = Batch[c][at] /\ at \in Nat
           /\ Ends(q) /\ InBatch(c, at)
           /\ call[c].pc = "access" => ~Checked(c, at)
           /\ call[c].pc \in {"access", "add"} => ~Handled(c, at)
           /\ Size(q) \in Nat /\ call[c].ok \in BOOLEAN
<1>1. /\ call[c].at \in 1 .. Len(Batch[c]) /\ Len(Batch[c]) \in Nat
      /\ DOMAIN Batch[c] = 1 .. Len(Batch[c])
  BY ServiceAssumption, LenProperties DEF ServiceAssumption, IInv, CallsInRange
<1>2. Current(c) \in Requests /\ Size(Current(c)) \in Nat
  BY <1>1, CurrentIsRequest, SizeIsNat
<1>3. call[c].ok \in BOOLEAN
  BY DEF IInv, TypeOK, CallState
<1>4. call[c].pc = "access" => ~Checked(c, call[c].at)
  BY <1>1 DEF Checked
<1>5. call[c].pc \in {"access", "add"} => ~Handled(c, call[c].at)
  BY <1>1 DEF Handled
<1>6. Ends(Current(c)) /\ InBatch(c, call[c].at) /\ Current(c) = Batch[c][call[c].at]
  BY <1>1, <1>2 DEF EndInv, CallsFit, Current
<1> QED BY <1>1, <1>2, <1>3, <1>4, <1>5, <1>6

LEMMA CheckAccessKeepsEnds ==
  ASSUME IInv, EndInv, NEW c \in Calls, CheckAccess(c)
  PROVE  EndInv' /\ \A r \in Requests : Final(r)
<1>1. /\ call[c].pc = "access" /\ UNCHANGED <<requests, nextTileIndex, resultCount, delivered>>
      /\ TypeOK
  BY DEF CheckAccess, IInv
<1>2. PICK q \in Requests, at \in DOMAIN Batch[c] :
         /\ at = call[c].at /\ q = Current(c) /\ q = Batch[c][at] /\ at \in Nat
         /\ Ends(q) /\ InBatch(c, at) /\ ~Checked(c, at) /\ ~Handled(c, at)
         /\ Size(q) \in Nat /\ call[c].ok \in BOOLEAN
  BY <1>1, CurrentInBatch
<1>3. PICK outcome \in AccessOutcomes(q) :
        IF outcome = "Success"
        THEN call' = [call EXCEPT ![c] = Accepted(c)] /\ UNCHANGED <<status, doneCalls>>
        ELSE call' = [call EXCEPT ![c] = Advance(c, FALSE)] /\ SetStatus(q, outcome)
  BY <1>2 DEF CheckAccess
<1>4. outcome \in {"Success", "NoDataSource", "Unauthorized"}
  BY DEF AccessOutcomes
<1>5. PICK ok \in BOOLEAN :
        /\ call' = [call EXCEPT ![c] = Advance(c, ok)]
        /\ \/ ok = call[c].ok /\ UNCHANGED <<status, doneCalls>>
           \/ ~ok /\ SetStatus(q, outcome) /\ outcome # "Success"
  BY <1>2, <1>3 DEF Accepted
<1>6. status[q] = InitialStatus(q) /\ doneCalls[q] = 0 /\ nextTileIndex[q] = 0 /\ q \notin requests
  BY <1>2 DEF InBatch
<1>7. \A r \in Requests : r # q => status'[r] = status[r] /\ doneCalls'[r] = doneCalls[r]
  BY <1>1, <1>5 DEF SetStatus, TypeOK
<1>8. \/ ok = call[c].ok /\ status'[q] = status[q] /\ doneCalls'[q] = doneCalls[q]
      \/ ~ok /\ status'[q] \in {"NoDataSource", "Unauthorized"} /\ doneCalls'[q] = 1
  BY <1>1, <1>2, <1>4, <1>5, <1>6 DEF SetStatus, TypeOK
<1>9. Ends(q)'
  <2>1. Size(q)' = Size(q)
    BY DEF Size
  <2> QED BY <1>1, <1>2, <1>6, <1>8, <2>1 DEF Ends
<1>10. \A r \in Requests : Ends(r)'
  BY <1>1, <1>2, <1>7, <1>9, OtherEndsKept DEF EndInv
<1>11. /\ call'[c].ok = ok /\ call'[c].pc \notin {"idle", "notify"}
       /\ \A i \in DOMAIN Batch[c] : ~Handled(c, i)' /\ (Checked(c, i)' <=> i <= at)
  BY <1>1, <1>2, <1>5, LoopsGoOn
<1>12. ASSUME NEW i \in DOMAIN Batch[c]
       PROVE  InBatch(c, i)'
  <2>1. /\ Batch[c][i] \in Requests /\ InBatch(c, i) /\ (i # at => Batch[c][i] # q) /\ i \in Nat
        /\ InitialStatus(Batch[c][i])' = InitialStatus(Batch[c][i])
    BY <1>2, OneCallPerRequest, ServiceAssumption, ElementOfSeq, LenProperties
       DEF OneCallPerRequest, ServiceAssumption, EndInv, CallsFit, InitialStatus, Size
  <2>2. ~Handled(c, i)' /\ (Checked(c, i)' <=> i <= at) /\ ~Handled(c, i)
    BY <1>1, <1>11 DEF Handled
  <2>3. Checked(c, i) <=> i < at
    BY <1>1, <1>2 DEF Checked
  <2>4. CASE i = at
    BY <1>1, <1>2, <1>6, <1>8, <1>11, <2>1, <2>2, <2>4 DEF InBatch
  <2>5. CASE i # at
    <3>1. status'[Batch[c][i]] = status[Batch[c][i]] /\ doneCalls'[Batch[c][i]] = doneCalls[Batch[c][i]]
      BY <1>7, <2>1, <2>5
    <3>2. ~Checked(c, i)' => ~Checked(c, i)
      BY <1>2, <2>1, <2>2, <2>3, <2>5
    <3>3. ok => call[c].ok
      BY <1>8
    <3> QED BY <1>1, <1>11, <2>1, <2>2, <3>1, <3>2, <3>3 DEF InBatch
  <2> QED BY <2>4, <2>5
<1>13. CallsFit'
  <2>1. \A d \in Calls : d # c => call'[d] = call[d]
    BY <1>1, <1>5 DEF TypeOK
  <2> QED BY <1>1, <1>2, <1>7, <1>11, <1>12, <2>1, OtherCallsFit DEF EndInv
<1>14. \A r \in Requests : Final(r)
  <2>1. status[q] # "Open" => Size(q) = 0
    BY <1>6 DEF InitialStatus
  <2>2. status[q] # "Aborted"
    BY <1>6 DEF InitialStatus
  <2> QED BY <1>1, <1>2, <1>7, <2>1, <2>2 DEF Final
<1> QED BY <1>10, <1>13, <1>14 DEF EndInv

\* The second loop: RejectRequest, AddDoneRequest or AddRequest. Each of them
\* handles request q, and leaves all others alone.
HandlesOne(c, q) ==
  \/ /\ ~call[c].ok /\ call' = [call EXCEPT ![c] = Advance(c, call[c].ok)]
     /\ requests' = requests
     /\ IF status[q] = "Open" THEN SetStatus(q, "Aborted") ELSE UNCHANGED <<status, doneCalls>>
  \/ /\ call[c].ok /\ status[q] # "Open"
     /\ call' = [call EXCEPT ![c] = Advance(c, call[c].ok)]
     /\ requests' = requests
     /\ status' = status /\ doneCalls' = [doneCalls EXCEPT ![q] = @ + 1]
  \/ /\ call[c].ok /\ status[q] = "Open"
     /\ call' = [call EXCEPT ![c].pc = "notify"]
     /\ requests' = requests \cup {q}
     /\ UNCHANGED <<status, doneCalls>>

LEMMA AddLoopKeepsEnds ==
  ASSUME IInv, EndInv, NEW c \in Calls, RejectRequest(c) \/ AddDoneRequest(c) \/ AddRequest(c)
  PROVE  EndInv' /\ \A r \in Requests : Final(r)
<1>1. /\ call[c].pc = "add" /\ UNCHANGED <<nextTileIndex, resultCount, delivered>>
      /\ TypeOK
  BY DEF RejectRequest, AddDoneRequest, AddRequest, IInv
<1>2. PICK q \in Requests, at \in DOMAIN Batch[c] :
         /\ at = call[c].at /\ q = Current(c) /\ q = Batch[c][at] /\ at \in Nat
         /\ Ends(q) /\ InBatch(c, at) /\ ~Handled(c, at)
         /\ Size(q) \in Nat /\ call[c].ok \in BOOLEAN
  BY <1>1, CurrentInBatch
<1>3. HandlesOne(c, q)
  BY <1>2 DEF RejectRequest, AddDoneRequest, AddRequest, HandlesOne
<1>4. /\ nextTileIndex[q] = 0 /\ q \notin requests
      /\ call[c].ok => status[q] = InitialStatus(q) /\ doneCalls[q] = 0
      /\ status[q] \in Status /\ doneCalls[q] \in Nat
  BY <1>1, <1>2 DEF InBatch, TypeOK
<1>5. \A r \in Requests : r # q =>
        /\ status'[r] = status[r] /\ doneCalls'[r] = doneCalls[r]
        /\ r \in requests' <=> r \in requests
  BY <1>1, <1>3 DEF HandlesOne, SetStatus, TypeOK
<1>6. \/ /\ ~call[c].ok /\ q \notin requests' /\ status'[q] # "Open"
         /\ \/ status'[q] = status[q] /\ doneCalls'[q] = doneCalls[q]
            \/ status[q] = "Open" /\ status'[q] = "Aborted" /\ doneCalls'[q] = doneCalls[q] + 1
      \/ /\ call[c].ok /\ q \notin requests' /\ status'[q] = status[q] /\ status[q] # "Open"
         /\ doneCalls'[q] = doneCalls[q] + 1
      \/ /\ call[c].ok /\ status'[q] = status[q] /\ status[q] = "Open"
         /\ doneCalls'[q] = doneCalls[q]
  BY <1>1, <1>2, <1>3, <1>4 DEF HandlesOne, SetStatus, TypeOK
<1>7. Size(q)' = Size(q) /\ resultCount[q] \in Nat
  <2>1. resultCount[q] \in Nat
    BY <1>1 DEF TypeOK
  <2> QED BY <2>1 DEF Size
<1>8. Ends(q)'
  <2>1. status[q] = "Open" => 0 < Size(q) /\ nextTileIndex'[q] = 0
    BY <1>1, <1>2, <1>4, <1>7 DEF Ends
  <2> QED BY <1>1, <1>2, <1>4, <1>6, <1>7, <2>1, SMTT(30) DEF Ends
<1>9. \A r \in Requests : Ends(r)'
  BY <1>1, <1>5, <1>8, OtherEndsKept DEF EndInv
<1>10. /\ call'[c].ok = call[c].ok /\ (~call'[c].ok => call'[c].pc \notin {"idle", "notify"})
       /\ \A i \in DOMAIN Batch[c] : Checked(c, i)' /\ (Handled(c, i)' <=> i <= at)
  <2>1. CASE call' = [call EXCEPT ![c] = Advance(c, call[c].ok)]
    BY <1>1, <1>2, <2>1, LoopsGoOn
  <2>2. CASE call' = [call EXCEPT ![c].pc = "notify"] /\ call[c].ok
    <3>1. call'[c] = [call[c] EXCEPT !.pc = "notify"] /\ call[c] \in CallState
      BY <1>1, <2>2 DEF TypeOK
    <3>2. call'[c].pc = "notify" /\ call'[c].at = at /\ call'[c].ok = call[c].ok
      BY <1>2, <3>1 DEF CallState
    <3>3. DOMAIN Batch[c] \subseteq Nat
      BY ServiceAssumption, LenProperties DEF ServiceAssumption
    <3>4. \A i \in DOMAIN Batch[c] : i < at \/ i = at <=> i <= at
      BY <1>2, <3>3
    <3> QED BY <2>2, <3>2, <3>4 DEF Checked, Handled
  <2> QED BY <1>3, <2>1, <2>2 DEF HandlesOne
<1>11. ASSUME NEW i \in DOMAIN Batch[c]
       PROVE  InBatch(c, i)'
  <2>1. /\ Batch[c][i] \in Requests /\ InBatch(c, i) /\ (i # at => Batch[c][i] # q) /\ i \in Nat
        /\ InitialStatus(Batch[c][i])' = InitialStatus(Batch[c][i])
    BY <1>2, OneCallPerRequest, ServiceAssumption, ElementOfSeq, LenProperties
       DEF OneCallPerRequest, ServiceAssumption, EndInv, CallsFit, InitialStatus, Size
  <2>2. Checked(c, i) /\ Checked(c, i)' /\ (Handled(c, i)' <=> i <= at) /\ (Handled(c, i) <=> i < at)
    BY <1>1, <1>2, <1>10 DEF Handled, Checked
  <2>3. CASE i = at
    <3>1. /\ call[c].ok => status'[q] \notin {"NoDataSource", "Unauthorized"}
          /\ ~call[c].ok => status'[q] # "Open" /\ nextTileIndex'[q] = 0 /\ q \notin requests'
      BY <1>1, <1>2, <1>4, <1>6 DEF InBatch
    <3>2. Handled(c, i)' /\ Checked(c, i)' /\ call'[c].ok = call[c].ok /\ Batch[c][i] = q
      BY <1>2, <1>10, <2>2, <2>3
    <3> QED BY <3>1, <3>2 DEF InBatch
  <2>4. CASE i # at
    <3>1. /\ status'[Batch[c][i]] = status[Batch[c][i]] /\ doneCalls'[Batch[c][i]] = doneCalls[Batch[c][i]]
          /\ Batch[c][i] \in requests' <=> Batch[c][i] \in requests
      BY <1>5, <2>1, <2>4
    <3>2. Handled(c, i)' <=> Handled(c, i)
      BY <1>2, <2>1, <2>2, <2>4
    <3> QED BY <1>1, <1>10, <2>1, <2>2, <3>1, <3>2 DEF InBatch
  <2> QED BY <2>3, <2>4
<1>12. CallsFit'
  <2>1. \A d \in Calls : d # c => call'[d] = call[d]
    BY <1>1, <1>3 DEF HandlesOne, TypeOK
  <2> QED BY <1>1, <1>2, <1>5, <1>10, <1>11, <2>1, OtherCallsFit DEF EndInv
<1>13. \A r \in Requests : Final(r)
  BY <1>1, <1>5, <1>6 DEF Final
<1> QED BY <1>9, <1>12, <1>13 DEF EndInv

\* The first and the last steps of a call, and the notification after a request
\* was added, only go on with the loops.
LEMMA CallMovesKeepEnds ==
  ASSUME IInv, EndInv, NEW c \in Calls, BeginCall(c) \/ NotifyAdded(c)
  PROVE  EndInv'
<1>1. /\ UNCHANGED <<requests, nextTileIndex, resultCount, status, doneCalls, delivered>>
      /\ TypeOK
  BY DEF BeginCall, NotifyAdded, requestVars, IInv
<1>2. \A r \in Requests : Ends(r)'
  BY <1>1 DEF EndInv, Ends, Size
<1>3. \A d \in Calls : d # c => call'[d] = call[d]
  BY <1>1 DEF BeginCall, NotifyAdded, TypeOK
<1>4. ASSUME NEW i \in DOMAIN Batch[c]
      PROVE  /\ Handled(c, i)' <=> Handled(c, i)
             /\ ~Checked(c, i)' => ~Checked(c, i)
             /\ call'[c].ok = call[c].ok
  <2>1. i \in Nat /\ 1 <= i /\ Batch[c] # <<>> /\ call[c] \in CallState
    BY <1>1, ServiceAssumption, LenProperties DEF ServiceAssumption, TypeOK
  <2>2. CASE BeginCall(c)
    <3>1. call'[c] = [call[c] EXCEPT !.pc = "access"] /\ call[c].pc = "idle" /\ call[c].at = 1
      BY <1>1, <2>1, <2>2 DEF BeginCall, TypeOK, IInv, CallsInRange
    <3>2. call'[c].pc = "access" /\ call'[c].at = 1 /\ call'[c].ok = call[c].ok
      BY <2>1, <3>1 DEF CallState
    <3> QED BY <2>1, <3>1, <3>2 DEF Handled, Checked
  <2>3. CASE NotifyAdded(c)
    <3>1. call[c].pc = "notify" /\ call' = [call EXCEPT ![c] = Advance(c, call[c].ok)]
          /\ call[c].ok \in BOOLEAN /\ call[c].at \in Nat
      BY <2>1, <2>3 DEF NotifyAdded, CallState
    <3>2. call'[c].ok = call[c].ok /\ Checked(c, i)' /\ (Handled(c, i)' <=> i <= call[c].at)
      BY <3>1, LoopsGoOn
    <3>3. Handled(c, i) <=> i <= call[c].at
      BY <2>1, <3>1 DEF Handled
    <3> QED BY <3>2, <3>3
  <2> QED BY <2>2, <2>3
<1>5. \A i \in DOMAIN Batch[c] : InBatch(c, i)'
  <2>1. \A i \in DOMAIN Batch[c] : InitialStatus(Batch[c][i])' = InitialStatus(Batch[c][i])
    BY DEF InitialStatus, Size
  <2> QED BY <1>1, <1>4, <2>1 DEF EndInv, CallsFit, InBatch
<1>6. ~call'[c].ok => call'[c].pc \notin {"idle", "notify"}
  <2>1. call[c] \in CallState /\ (~call[c].ok => call[c].pc \notin {"idle", "notify"})
    BY <1>1 DEF TypeOK, EndInv, CallsFit
  <2>2. call'[c].ok = call[c].ok \/ call[c].pc = "notify"
    BY <1>1, <2>1 DEF BeginCall, NotifyAdded, CallState, TypeOK
  <2>3. call'[c].ok
    <3>1. CASE BeginCall(c)
      BY <1>1, <2>1, <2>2, <3>1 DEF BeginCall
    <3>2. CASE NotifyAdded(c)
      <4>1. call'[c] = Advance(c, call[c].ok) /\ call[c].ok
        BY <1>1, <2>1, <3>2 DEF NotifyAdded, TypeOK, CallState
      <4> QED BY <4>1 DEF Advance
    <3> QED BY <3>1, <3>2
  <2> QED BY <2>3
<1>7. CallsFit'
  <2>1. ASSUME NEW d \in Calls, d # c, NEW i \in DOMAIN Batch[d]
        PROVE  InBatch(d, i)'
    <3>1. (Checked(d, i)' <=> Checked(d, i)) /\ (Handled(d, i)' <=> Handled(d, i))
          /\ InitialStatus(Batch[d][i])' = InitialStatus(Batch[d][i]) /\ InBatch(d, i)
      BY <1>3, <2>1 DEF Checked, Handled, InitialStatus, Size, EndInv, CallsFit
    <3> QED BY <1>1, <1>3, <2>1, <3>1 DEF InBatch
  <2> QED BY <1>3, <1>5, <1>6, <2>1 DEF CallsFit, EndInv
<1> QED BY <1>2, <1>7 DEF EndInv

\* An abort ends a request of the list, which has tiles left.
LEMMA AbortKeepsEnds ==
  ASSUME IInv, EndInv, NEW c \in Calls, NEW q \in Requests, AbortRequest(c, q)
  PROVE  EndInv' /\ \A r \in Requests : Final(r)
<1>1. /\ UNCHANGED <<nextTileIndex, resultCount, delivered, call>>
      /\ requests' = requests \ {q} /\ TypeOK
      /\ IF q \in requests THEN SetStatus(q, "Aborted") ELSE UNCHANGED <<status, doneCalls>>
  BY DEF AbortRequest, WithoutRequest, MarkAborted, IInv
<1>2. \A r \in Requests : r # q => status'[r] = status[r] /\ doneCalls'[r] = doneCalls[r]
  BY <1>1 DEF SetStatus, TypeOK
<1>3. IF q \in requests THEN status'[q] = "Aborted" /\ doneCalls'[q] = doneCalls[q] + 1
      ELSE status'[q] = status[q] /\ doneCalls'[q] = doneCalls[q]
  BY <1>1 DEF SetStatus, TypeOK
<1>4. Ends(q) /\ Size(q)' = Size(q)
  BY DEF EndInv, Size
<1>5. Ends(q)'
  BY <1>1, <1>3, <1>4 DEF Ends
<1>6. \A r \in Requests : Ends(r)'
  BY <1>1, <1>2, <1>5, OtherEndsKept DEF EndInv
<1>7. \A r \in Requests : Advances(r)
  BY <1>2, <1>3, <1>4 DEF Advances, Ends
<1>8. CallsFit'
  BY <1>1, <1>7, AdvancesKeepCalls DEF EndInv
<1>9. \A r \in Requests : Final(r)
  BY <1>1, <1>7 DEF Final, Advances
<1> QED BY <1>6, <1>8, <1>9 DEF EndInv

(***************************************************************************)
(* The manager                                                             *)
(***************************************************************************)
\* It touches no request, no job and no call ...
LEMMA ManagerTouchesNoRequest ==
  ASSUME ManagerStep
  PROVE  /\ requests' = requests /\ ahead' = ahead /\ nextTileIndex' = nextTileIndex
         /\ resultCount' = resultCount /\ status' = status /\ doneCalls' = doneCalls
         /\ delivered' = delivered /\ lost' = lost /\ aborted' = aborted
         /\ jobsInProgress' = jobsInProgress /\ cached' = cached /\ job' = job
         /\ call' = call
<1>1. CASE \E s \in Sources : AddDataSource(s) \/ RemoveDataSource(s)
  BY <1>1 DEF AddDataSource, RemoveDataSource, requestVars, workerVars
<1>2. CASE Destroy
  BY <1>2 DEF Destroy, requestVars, workerVars
<1>3. CASE SignalWorkers \/ NotifyWorkers
  BY <1>3 DEF SignalWorkers, NotifyWorkers, requestVars, workerVars
<1>4. CASE JoinWorkers
  BY <1>4 DEF JoinWorkers, requestVars, workerVars
<1> QED BY <1>1, <1>2, <1>3, <1>4 DEF ManagerStep

\* ... and starts only workers that were not running, or wakes blocked ones.
LEMMA ManagerWakes ==
  ASSUME ManagerStep, OnlyRunningWork
  PROVE  \A v \in Workers :
           \/ pc'[v] = pc[v]
           \/ pc[v] \in {"exited", "waiting"} /\ pc'[v] = "check"
<1> TAKE v \in Workers
<1>1. ASSUME NEW s \in Sources, AddDataSource(s)
      PROVE  pc'[v] = pc[v] \/ (pc[v] = "exited" /\ pc'[v] = "check")
  <2>1. /\ pc' = [w \in Workers |-> IF SourceOf[w] = s THEN "check" ELSE pc[w]]
        /\ manager.pc = "idle" /\ s \notin registered
    BY <1>1 DEF AddDataSource
  <2>2. SourceOf[v] = s => pc[v] = "exited"
    BY <2>1 DEF OnlyRunningWork
  <2> QED BY <2>1, <2>2
<1>2. ASSUME NEW s \in Sources, RemoveDataSource(s)
      PROVE  pc' = pc
  BY <1>2 DEF RemoveDataSource, workerVars
<1>3. ASSUME Destroy \/ SignalWorkers \/ JoinWorkers
      PROVE  pc' = pc
  BY <1>3 DEF Destroy, SignalWorkers, JoinWorkers, workerVars
<1>4. ASSUME NotifyWorkers
      PROVE  pc' = Notified
  BY <1>4 DEF NotifyWorkers
<1>5. pc' = Notified => pc'[v] = pc[v] \/ (pc[v] = "waiting" /\ pc'[v] = "check")
  BY DEF Notified
<1>6. CASE \E s \in Sources : AddDataSource(s) \/ RemoveDataSource(s)
  BY <1>1, <1>2, <1>6
<1>7. CASE Destroy \/ SignalWorkers \/ NotifyWorkers \/ JoinWorkers
  BY <1>3, <1>4, <1>5, <1>7
<1> QED BY <1>6, <1>7 DEF ManagerStep

(***************************************************************************)
(* The theorems                                                            *)
(***************************************************************************)
LEMMA InitEndInv == Init => EndInv
<1> SUFFICES ASSUME Init PROVE EndInv
  OBVIOUS
<1>1. ASSUME NEW r \in Requests PROVE Ends(r)
  <2>1. Size(r) \in Nat /\ Cardinality({}) = 0
    BY SizeIsNat, FS_EmptySet
  <2> QED BY <2>1 DEF Init, Ends, InitialStatus
<1>2. ASSUME NEW c \in Calls, NEW i \in DOMAIN Batch[c] PROVE InBatch(c, i)
  <2>1. Batch[c][i] \in Requests
    BY ServiceAssumption, ElementOfSeq, LenProperties DEF ServiceAssumption
  <2> QED BY <2>1 DEF Init, InBatch, Checked, Handled, InitialStatus
<1>3. \A c \in Calls : call[c].ok
  BY DEF Init
<1> QED BY <1>1, <1>2, <1>3 DEF EndInv, CallsFit

LEMMA StepEndInv == IInv /\ IInv' /\ EndInv /\ [Next]_vars => EndInv'
<1> SUFFICES ASSUME IInv, IInv', EndInv, [Next]_vars PROVE EndInv'
  OBVIOUS
<1>1. ASSUME NEW w \in Workers, WorkerStep(w) PROVE EndInv'
  <2>1. CASE CheckJobs(w)
    BY <2>1, CheckJobsKeepsEnds
  <2>2. CASE FinishJob(w)
    BY <2>2, FinishJobKeepsEnds
  <2>3. CASE Exit(w) \/ Block(w) \/ SpuriousWakeup(w) \/ StartJob(w) \/ FetchTile(w)
    BY <2>3, OthersKeepEnds DEF Exit, Block, SpuriousWakeup, StartJob, FetchTile, requestVars
  <2>4. CASE ExitWithJob(w) \/ FetchFails(w)
    BY <2>4, OthersKeepEnds DEF ExitWithJob, FetchFails, DropJob
  <2> QED BY <1>1, <2>1, <2>2, <2>3, <2>4 DEF WorkerStep
<1>2. ASSUME NEW c \in Calls, CallStep(c) PROVE EndInv'
  <2>1. CASE BeginCall(c) \/ NotifyAdded(c)
    BY <2>1, CallMovesKeepEnds
  <2>2. CASE CheckAccess(c)
    BY <2>2, CheckAccessKeepsEnds
  <2>3. CASE RejectRequest(c) \/ AddDoneRequest(c) \/ AddRequest(c)
    BY <2>3, AddLoopKeepsEnds
  <2> QED BY <1>2, <2>1, <2>2, <2>3 DEF CallStep
<1>3. ASSUME NEW c \in Calls, NEW r \in Requests, AbortRequest(c, r) PROVE EndInv'
  BY <1>3, AbortKeepsEnds
<1>4. CASE ManagerStep
  BY <1>4, ManagerTouchesNoRequest, OthersKeepEnds DEF requestVars
<1>5. CASE UNCHANGED vars
  BY <1>5, OthersKeepEnds DEF vars, requestVars
<1> QED BY <1>1, <1>2, <1>3, <1>4, <1>5 DEF Next

\* The ends of requests and the loops of calls fit together in every state.
THEOREM EndInvariant == Spec => []EndInv
BY InitEndInv, StepEndInv, ServiceInvariant, PTL DEF Spec

\* A request ends once: open while it is listed, a success exactly with its last
\* tile, and onDone_ called at most once, however abort and results race.
THEOREM EveryRequestEndsOnce == Spec => []RequestsEndOnce
<1>1. IInv /\ EndInv => RequestsEndOnce
  <2> SUFFICES ASSUME IInv, EndInv PROVE RequestsEndOnce
    OBVIOUS
  <2>1. \A r \in Requests : Ends(r)
    BY DEF EndInv
  <2>2. ListedAreOpen
    BY <2>1 DEF ListedAreOpen, Ends, IInv, TypeOK
  <2>3. ASSUME NEW r \in Requests
        PROVE  /\ status[r] = "Success" => delivered[r] = Positions(r)
               /\ Size(r) > 0 /\ delivered[r] = Positions(r) => status[r] = "Success"
    <3>1. /\ Size(r) \in Nat /\ nextTileIndex[r] \in Nat /\ Ends(r)
          /\ Cardinality(delivered[r]) \in Nat /\ Cardinality(delivered[r]) <= nextTileIndex[r]
          /\ Cardinality(delivered[r]) = Size(r) <=> delivered[r] = Positions(r)
      BY <2>1, DeliveredInRange
    <3> QED BY <3>1 DEF Ends
  <2>4. SuccessIsComplete
    BY <2>3 DEF SuccessIsComplete
  <2>5. DoneOnce
    BY <2>1 DEF DoneOnce, Ends
  <2> QED BY <2>2, <2>4, <2>5 DEF RequestsEndOnce
<1> QED BY <1>1, ServiceInvariant, EndInvariant, PTL

\* request() takes all of the requests it is given, or it looks at no tile of
\* any of them and ends each.
THEOREM CallsTakeAllOrNothing == Spec => []AllOrNothing
<1>1. CallsFit => AllOrNothing
  BY DEF CallsFit, InBatch, Handled, AllOrNothing
<1> QED BY <1>1, EndInvariant, PTL DEF EndInv

\* Once a request has ended nothing changes its status, and after an abort only
\* the tiles that workers hold at that time still arrive.
THEOREM EndsAreFinal == Spec => EndIsFinal
<1>1. IInv /\ IInv' /\ EndInv /\ [Next]_vars => [\A r \in Requests : Final(r)]_vars
  <2> SUFFICES ASSUME IInv, IInv', EndInv, [Next]_vars
               PROVE  [\A r \in Requests : Final(r)]_vars
    OBVIOUS
  <2>1. ASSUME UNCHANGED <<status, nextTileIndex, delivered>>
        PROVE  \A r \in Requests : Final(r)
    BY <2>1 DEF Final
  <2>2. ASSUME NEW w \in Workers, WorkerStep(w)
        PROVE  \A r \in Requests : Final(r)
    <3>1. CASE CheckJobs(w)
      BY <3>1, CheckJobsKeepsEnds
    <3>2. CASE FinishJob(w)
      BY <3>2, FinishJobKeepsEnds
    <3>3. CASE Exit(w) \/ Block(w) \/ SpuriousWakeup(w) \/ StartJob(w) \/ FetchTile(w)
      BY <2>1, <3>3 DEF Exit, Block, SpuriousWakeup, StartJob, FetchTile, requestVars
    <3>4. CASE ExitWithJob(w) \/ FetchFails(w)
      BY <2>1, <3>4 DEF ExitWithJob, FetchFails, DropJob
    <3> QED BY <2>2, <3>1, <3>2, <3>3, <3>4 DEF WorkerStep
  <2>3. ASSUME NEW c \in Calls, CallStep(c)
        PROVE  \A r \in Requests : Final(r)
    <3>1. CASE BeginCall(c) \/ NotifyAdded(c)
      BY <2>1, <3>1 DEF BeginCall, NotifyAdded, requestVars
    <3>2. CASE CheckAccess(c)
      BY <3>2, CheckAccessKeepsEnds
    <3>3. CASE RejectRequest(c) \/ AddDoneRequest(c) \/ AddRequest(c)
      BY <3>3, AddLoopKeepsEnds
    <3> QED BY <2>3, <3>1, <3>2, <3>3 DEF CallStep
  <2>4. ASSUME NEW c \in Calls, NEW r \in Requests, AbortRequest(c, r)
        PROVE  \A q \in Requests : Final(q)
    BY <2>4, AbortKeepsEnds
  <2>5. CASE ManagerStep
    BY <2>1, <2>5, ManagerTouchesNoRequest
  <2> QED BY <2>2, <2>3, <2>4, <2>5 DEF Next
<1>2. Spec => [][\A r \in Requests : Final(r)]_vars
  BY <1>1, ServiceInvariant, EndInvariant, PTL DEF Spec
<1> QED BY <1>2, PTL DEF EndIsFinal, Final

(***************************************************************************)
(* jobsInProgress_                                                         *)
(***************************************************************************)
\* Who works on a key, or dropped it.
Explained(k) ==
  \/ \E w \in Workers : Holds(w) /\ HeldKey(w) = k
  \/ \E r \in Requests : \E p \in lost[r] : KeyOf(r, p) = k

\* A step in which no worker gives up a job leaves every key explained.
LEMMA StaysExplained ==
  ASSUME InProgressExplained, jobsInProgress' \subseteq jobsInProgress,
         \A r \in Requests : lost[r] \subseteq lost'[r],
         \A w \in Workers : Holds(w) => Holds(w)' /\ job'[w] = job[w]
  PROVE  InProgressExplained'
<1>1. \A w \in Workers : Holds(w) => HeldKey(w)' = HeldKey(w)
  BY DEF HeldKey, KeyOf
<1>2. \A r \in Requests : \A p : KeyOf(r, p)' = KeyOf(r, p)
  BY DEF KeyOf
<1> QED BY <1>1, <1>2 DEF InProgressExplained

LEMMA StepExplained ==
  ASSUME IInv, InProgressExplained, [Next]_vars
  PROVE  InProgressExplained'
<1>1. TypeOK /\ NoDoubleWork /\ JobsInRange /\ OnlyRunningWork
  BY DEF IInv
<1>2. ASSUME NEW w \in Workers, NEW r \in Requests, ChecksAndTakes(w, r)
      PROVE  InProgressExplained'
  <2>1. /\ jobsInProgress' = jobsInProgress \cup {KeyOf(r, Stop(r))} /\ lost' = lost
        /\ job'[w] = <<r, Stop(r)>> /\ pc'[w] = "taken"
        /\ \A v \in Workers \ {w} : job'[v] = job[v] /\ pc'[v] = pc[v]
        /\ ~Holds(w)
    BY <1>1, <1>2 DEF ChecksAndTakes, TakeJob, TypeOK, Holds
  <2>2. Holds(w)' /\ HeldKey(w)' = KeyOf(r, Stop(r))
    BY <2>1 DEF Holds, HeldKey, KeyOf
  <2>3. \A v \in Workers : Holds(v) => Holds(v)' /\ HeldKey(v)' = HeldKey(v)
    BY <2>1 DEF Holds, HeldKey, KeyOf
  <2>4. \A q \in Requests : \A p : KeyOf(q, p)' = KeyOf(q, p)
    BY DEF KeyOf
  <2> QED BY <2>1, <2>2, <2>3, <2>4 DEF InProgressExplained
<1>3. ASSUME NEW w \in Workers, ChecksInVain(w)
      PROVE  InProgressExplained'
  <2>1. jobsInProgress' = jobsInProgress /\ lost' = lost /\ job' = job
        /\ \A v \in Workers : Holds(v) => pc'[v] = pc[v]
    BY <1>1, <1>3 DEF ChecksInVain, FindNothing, TypeOK, Holds
  <2> QED BY <2>1, StaysExplained DEF Holds
<1>4. ASSUME NEW w \in Workers, NEW next \in {"check", "exited"}, Holds(w), DropJob(w, next)
      PROVE  InProgressExplained'
  <2>1. job[w][1] \in Requests
    BY <1>1, <1>4 DEF JobsInRange
  <2>2. /\ jobsInProgress' = jobsInProgress
        /\ \A r \in Requests : lost'[r] = IF r = job[w][1] THEN lost[r] \cup {job[w][2]} ELSE lost[r]
        /\ \A v \in Workers \ {w} : job'[v] = job[v] /\ pc'[v] = pc[v]
    BY <1>1, <1>4, <2>1 DEF DropJob, TypeOK
  <2>3. \A v \in Workers \ {w} : Holds(v) => Holds(v)' /\ HeldKey(v)' = HeldKey(v)
    BY <2>2 DEF Holds, HeldKey, KeyOf
  <2>4. \E r \in Requests : \E p \in lost'[r] : KeyOf(r, p) = HeldKey(w)
    BY <2>1, <2>2 DEF HeldKey
  <2>5. \A q \in Requests : \A p : KeyOf(q, p)' = KeyOf(q, p)
    BY DEF KeyOf
  <2>6. \A r \in Requests : lost[r] \subseteq lost'[r]
    BY <2>2
  <2>7. ASSUME NEW k \in jobsInProgress
        PROVE  \/ \E v \in Workers : Holds(v)' /\ HeldKey(v)' = k
               \/ \E r \in Requests : \E p \in lost'[r] : KeyOf(r, p) = k
    <3>1. CASE \E v \in Workers : Holds(v) /\ HeldKey(v) = k
      BY <3>1, <2>3, <2>4
    <3>2. CASE \E r \in Requests : \E p \in lost[r] : KeyOf(r, p) = k
      BY <3>2, <2>6
    <3> QED BY <3>1, <3>2 DEF InProgressExplained
  <2> QED BY <2>2, <2>5, <2>7 DEF InProgressExplained
<1>5. ASSUME NEW w \in Workers, FinishJob(w)
      PROVE  InProgressExplained'
  <2>1. /\ jobsInProgress' = jobsInProgress \ {HeldKey(w)} /\ lost' = lost /\ Holds(w)
        /\ \A v \in Workers \ {w} : job'[v] = job[v] /\ (Holds(v) => pc'[v] = pc[v])
    BY <1>1, <1>5 DEF FinishJob, Erased, Notified, TypeOK, Holds
  <2>2. \A v \in Workers \ {w} : Holds(v) => Holds(v)' /\ HeldKey(v)' = HeldKey(v)
    BY <2>1 DEF Holds, HeldKey, KeyOf
  <2>3. \A q \in Requests : \A p : KeyOf(q, p)' = KeyOf(q, p)
    BY DEF KeyOf
  <2> QED BY <2>1, <2>2, <2>3 DEF InProgressExplained
<1>6. ASSUME NEW w \in Workers,
             Exit(w) \/ Block(w) \/ SpuriousWakeup(w) \/ StartJob(w) \/ FetchTile(w)
      PROVE  InProgressExplained'
  <2>1. jobsInProgress' = jobsInProgress /\ lost' = lost /\ job' = job
    BY <1>6 DEF Exit, Block, SpuriousWakeup, StartJob, FetchTile, requestVars
  <2>2. \A v \in Workers : Holds(v) => Holds(v)'
    BY <1>1, <1>6 DEF Exit, Block, SpuriousWakeup, StartJob, FetchTile, TypeOK, Holds
  <2> QED BY <2>1, <2>2, StaysExplained
<1>7. ASSUME \E c \in Calls : CallStep(c) \/ \E r \in Requests : AbortRequest(c, r)
      PROVE  InProgressExplained'
  <2>1. jobsInProgress' = jobsInProgress /\ lost' = lost /\ job' = job /\ (pc' = pc \/ pc' = Notified)
    BY <1>7 DEF CallStep, BeginCall, CheckAccess, RejectRequest, AddDoneRequest, AddRequest,
       NotifyAdded, AbortRequest, requestVars, workerVars
  <2>2. \A v \in Workers : Holds(v) => Holds(v)'
    BY <2>1 DEF Notified, Holds
  <2> QED BY <2>1, <2>2, StaysExplained
<1>8. CASE ManagerStep
  <2>1. jobsInProgress' = jobsInProgress /\ lost' = lost /\ job' = job
    BY <1>8, ManagerTouchesNoRequest
  <2>2. \A v \in Workers : Holds(v) => Holds(v)'
    <3>1. \A v \in Workers : pc'[v] = pc[v] \/ pc[v] \in {"exited", "waiting"}
      BY <1>1, <1>8, ManagerWakes
    <3> QED BY <3>1 DEF Holds
  <2> QED BY <2>1, <2>2, StaysExplained
<1>9. CASE UNCHANGED vars
  BY <1>9, StaysExplained DEF vars, requestVars, workerVars, Holds
<1>10. ASSUME NEW w \in Workers, WorkerStep(w)
       PROVE  InProgressExplained'
  <2>1. CASE CheckJobs(w)
    <3>1. ChecksInVain(w) \/ \E r \in Requests : ChecksAndTakes(w, r)
      BY <2>1 DEF CheckJobs, ChecksInVain, ChecksAndTakes
    <3> QED BY <1>2, <1>3, <3>1
  <2>2. CASE ExitWithJob(w) \/ FetchFails(w)
    <3>1. Holds(w) /\ \E next \in {"check", "exited"} : DropJob(w, next)
      BY <2>2 DEF ExitWithJob, FetchFails, Holds
    <3> QED BY <1>4, <3>1
  <2> QED BY <1>5, <1>6, <1>10, <2>1, <2>2 DEF WorkerStep
<1> QED BY <1>7, <1>8, <1>9, <1>10 DEF Next

\* Nobody fetches a key that is in jobsInProgress_ for another reason than that
\* a worker has it, or once had it and dropped it.
THEOREM KeysInProgressAreExplained == Spec => []InProgressExplained
<1>1. Init => InProgressExplained
  BY DEF Init, InProgressExplained
<1>2. IInv /\ InProgressExplained /\ [Next]_vars => InProgressExplained'
  BY StepExplained
<1> QED BY <1>1, <1>2, ServiceInvariant, PTL DEF Spec
(***************************************************************************)
(* No missed job                                                           *)
(***************************************************************************)
\* What lets worker w take a tile it saw no job for: a worker that has touched
\* the cache and will notify all when it hands in its result.
CacheTouched == \E v \in Workers : pc[v] = "fetched"

\* While w holds the mutex nobody adds a request or a result; once it blocks, who
\* adds one is about to notify it.
WatchesJobs(w) ==
  /\ pc[w] = "parking" => Takeable(w) = {} \/ CacheTouched
  /\ pc[w] = "waiting" => \/ Takeable(w) = {}
                          \/ CacheTouched
                          \/ \E c \in Calls : call[c].pc = "notify"

NoMissedInv == \A w \in Workers : WatchesJobs(w)

\* The tiles of r that the cache does not serve.
Missing(r) == {p \in Positions(r) : p > nextTileIndex[r] /\ KeyOf(r, p) \notin cached}

\* Handing in cached tiles moves the index, not the tile the cache stops at.
LEMMA StopIsKept ==
  ASSUME NEW r \in Requests, nextTileIndex[r] \in Nat, cached' = cached,
         nextTileIndex'[r] \in nextTileIndex[r] .. (Stop(r) - 1), Stop(r) \in Int
  PROVE  Stop(r)' = Stop(r)
<1>1. Size(r) \in Nat /\ Positions(r) \subseteq Nat
  BY SizeIsNat DEF Positions
<1>2. Missing(r) \subseteq Nat
  BY <1>1 DEF Missing
<1>3. \A p \in Missing(r) : Stop(r) <= p
  <2> SUFFICES ASSUME Missing(r) # {} PROVE \A p \in Missing(r) : Stop(r) <= p
    OBVIOUS
  <2>1. \E p \in Missing(r) : \A q \in Missing(r) : p <= q
    BY <1>2, LeastElement
  <2>2. Stop(r) = CHOOSE p \in Missing(r) : \A q \in Missing(r) : p <= q
    BY DEF Stop, Missing
  <2> QED BY <2>1, <2>2
<1>4. Missing(r)' = Missing(r)
  <2>1. ASSUME NEW p \in Positions(r)
        PROVE  p > nextTileIndex'[r] /\ KeyOf(r, p) \notin cached <=> p \in Missing(r)
    <3>1. p \in Missing(r) => p > nextTileIndex'[r]
      BY <1>1, <1>3
    <3> QED BY <1>1, <3>1 DEF Missing
  <2>2. Missing(r)' = {p \in Positions(r) : p > nextTileIndex'[r] /\ KeyOf(r, p) \notin cached}
    BY DEF Missing, Positions, Size, KeyOf
  <2> QED BY <2>1, <2>2 DEF Missing
<1>5. Stop(r) = IF Missing(r) = {} THEN Size(r) + 1
                ELSE CHOOSE p \in Missing(r) : \A q \in Missing(r) : p <= q
  BY DEF Stop, Missing
<1>6. Stop(r)' = IF Missing(r)' = {} THEN Size(r) + 1
                 ELSE CHOOSE p \in Missing(r)' : \A q \in Missing(r)' : p <= q
  BY DEF Stop, Missing, Size
<1> QED BY <1>4, <1>5, <1>6

\* Who had nothing to take has nothing to take after a step that only shortens
\* the list, marks keys and moves indices up to where the cache stops.
LEMMA NothingToTake ==
  ASSUME NEW w \in Workers, Takeable(w) = {},
         requests' \subseteq requests, jobsInProgress \subseteq jobsInProgress',
         \A r \in Requests : Stop(r)' = Stop(r) \/ r \notin Takeable(w)'
  PROVE  Takeable(w)' = {}
<1> SUFFICES ASSUME NEW r \in Requests, r \in Takeable(w)' PROVE FALSE
  BY DEF Takeable
<1>1. /\ r \in requests' /\ LayerOf[r] \in Provides[SourceOf[w]]
      /\ Stop(r)' <= Size(r) /\ KeyOf(r, Stop(r)') \notin jobsInProgress'
  BY DEF Takeable, Wanted, Size, KeyOf
<1>2. Stop(r)' = Stop(r)
  OBVIOUS
<1>3. r \in Takeable(w)
  BY <1>1, <1>2 DEF Takeable, Wanted
<1> QED BY <1>3

\* Nothing moves the tile where the cache stops but the cache and the index.
LEMMA NoneToTakeKept ==
  ASSUME NEW w \in Workers, Takeable(w) = {}, requests' \subseteq requests,
         UNCHANGED <<jobsInProgress, cached, nextTileIndex>>
  PROVE  Takeable(w)' = {}
<1>1. \A r \in Requests : Stop(r)' = Stop(r)
  BY DEF Stop, Size, Positions, KeyOf
<1> QED BY <1>1, NothingToTake

\* A step in which nobody blocks, hands in a result, adds or notifies keeps every
\* worker's watch.
LEMMA WatchIsKept ==
  ASSUME NEW w \in Workers, WatchesJobs(w), Takeable(w) = {} => Takeable(w)' = {},
         \A v \in Workers : pc[v] = "fetched" => pc'[v] = "fetched",
         \A c \in Calls : call[c].pc = "notify" => call'[c].pc = "notify",
         pc'[w] = pc[w] \/ pc'[w] \notin {"parking", "waiting"}
           \/ (pc[w] = "parking" /\ pc'[w] = "waiting")
  PROVE  WatchesJobs(w)'
BY DEF WatchesJobs, CacheTouched
LEMMA WorkersWatch ==
  ASSUME IInv, NoMissedInv, NEW v \in Workers, WorkerStep(v)
  PROVE  NoMissedInv'
<1>1. TypeOK /\ IndexInRange
  BY DEF IInv
<1>2. SUFFICES ASSUME NEW w \in Workers, WatchesJobs(w) PROVE WatchesJobs(w)'
  BY DEF NoMissedInv
<1>3. ASSUME requests' = requests, jobsInProgress' = jobsInProgress,
             cached' = cached, nextTileIndex' = nextTileIndex
      PROVE  Takeable(w) = {} => Takeable(w)' = {}
  BY <1>3, NoneToTakeKept
<1>4. \A q \in Requests : /\ Pass(q) \in Nat \ {0} /\ nextTileIndex[q] \in Nat /\ Stop(q) \in Nat
                          /\ nextTileIndex[q] + Pass(q) = Stop(q) /\ Stop(q) <= Size(q) + 1
                          /\ Size(q) \in Nat
  BY <1>1, PassInRange, SizeIsNat
<1>5. ASSUME NEW r \in Requests, ChecksAndTakes(v, r)
      PROVE  WatchesJobs(w)'
  <2>1. /\ requests' \subseteq requests /\ cached' = cached /\ call' = call
        /\ jobsInProgress' = jobsInProgress \cup {KeyOf(r, Stop(r))}
        /\ pc' = [pc EXCEPT ![v] = "taken"] /\ pc[v] = "check"
        /\ nextTileIndex' = [q \in Requests |-> IF q = r THEN Stop(r)
                               ELSE nextTileIndex[q] + ServedBefore(v, q, r)]
        /\ r \in Takeable(v)
    BY <1>5 DEF ChecksAndTakes, TakeJob, IsNextJob, ServeCached, Unfinished
  <2>2. /\ r \in requests /\ Stop(r) <= Size(r) /\ KeyOf(r, Stop(r)) \notin jobsInProgress
    BY <2>1 DEF Takeable, Wanted
  <2>3. Takeable(w) = {} => Takeable(w)' = {}
    <3>1. ASSUME NEW q \in Requests, q # r PROVE Stop(q)' = Stop(q)
      <4>1. ServedBefore(v, q, r) \in 0 .. (Pass(q) - 1)
        BY <1>1, <2>1, ServedInRange
      <4>2. nextTileIndex'[q] \in nextTileIndex[q] .. (Stop(q) - 1)
        BY <1>4, <2>1, <3>1, <4>1
      <4> QED BY <1>4, <2>1, <4>2, StopIsKept
    <3>2. Takeable(w) = {} => r \notin Takeable(w)'
      <4>1. r \in Takeable(w)' => LayerOf[r] \in Provides[SourceOf[w]]
        BY DEF Takeable, Wanted
      <4> QED BY <2>2, <4>1 DEF Takeable, Wanted
    <3> QED BY <2>1, <3>1, <3>2, NothingToTake
  <2>4. pc'[v] = "taken" /\ \A u \in Workers \ {v} : pc'[u] = pc[u]
    BY <1>1, <2>1 DEF TypeOK
  <2> QED BY <2>1, <2>3, <2>4, <1>2, WatchIsKept
<1>6. ASSUME ChecksInVain(v)
      PROVE  WatchesJobs(w)'
  <2>1. /\ requests' \subseteq requests /\ cached' = cached /\ call' = call
        /\ jobsInProgress' = jobsInProgress
        /\ pc' = [pc EXCEPT ![v] = "parking"] /\ pc[v] = "check"
        /\ nextTileIndex' = [q \in Requests |-> nextTileIndex[q] + ServedWithoutJob(v, q)]
        /\ Takeable(v) = {}
    BY <1>6 DEF ChecksInVain, FindNothing, ServeCached, Unfinished, TakenWithoutJob
  <2>2. \A u \in Workers \ {v} : pc'[u] = pc[u]
    BY <1>1, <2>1 DEF TypeOK
  <2>3. ASSUME NEW q \in Requests PROVE Stop(q)' = Stop(q)
    <3>1. ServedWithoutJob(v, q) \in 0 .. (Pass(q) - 1)
      BY <1>1, ServedAllInRange
    <3>2. nextTileIndex'[q] \in nextTileIndex[q] .. (Stop(q) - 1)
      BY <1>4, <2>1, <3>1
    <3> QED BY <1>4, <2>1, <3>2, StopIsKept
  <2>4. Takeable(w) = {} => Takeable(w)' = {}
    BY <2>1, <2>3, NothingToTake
  <2>5. CASE w = v
    BY <1>1, <2>1, <2>4, <2>5 DEF WatchesJobs, TypeOK
  <2>6. CASE w # v
    BY <1>2, <2>1, <2>2, <2>4, <2>6, WatchIsKept
  <2> QED BY <2>5, <2>6
<1>7. ASSUME FinishJob(v)
      PROVE  WatchesJobs(w)'
  <2>1. pc' = [Notified EXCEPT ![v] = "check"] /\ MutexFree
    BY <1>7 DEF FinishJob
  <2>2. pc'[w] \notin {"parking", "waiting"}
    BY <2>1 DEF Notified, MutexFree
  <2> QED BY <2>2 DEF WatchesJobs
<1>8. ASSUME FetchTile(v)
      PROVE  WatchesJobs(w)'
  <2>1. pc'[v] = "fetched"
    BY <1>1, <1>8 DEF FetchTile, TypeOK
  <2> QED BY <2>1 DEF WatchesJobs, CacheTouched
<1>9. ASSUME NEW next \in {"check", "exited"}, Holds(v), pc[v] # "fetched", DropJob(v, next)
      PROVE  WatchesJobs(w)'
  <2>1. /\ requests' = requests /\ jobsInProgress' = jobsInProgress /\ call' = call
        /\ cached' = cached /\ nextTileIndex' = nextTileIndex
        /\ pc' = [pc EXCEPT ![v] = next]
    BY <1>9 DEF DropJob
  <2>2. (\A u \in Workers \ {v} : pc'[u] = pc[u]) /\ pc'[v] = next
    BY <1>1, <2>1 DEF TypeOK
  <2> QED BY <1>2, <1>3, <1>9, <2>1, <2>2, WatchIsKept
<1>10. ASSUME Exit(v) \/ Block(v) \/ SpuriousWakeup(v) \/ StartJob(v)
       PROVE  WatchesJobs(w)'
  <2>1. /\ requests' = requests /\ jobsInProgress' = jobsInProgress /\ call' = call
        /\ cached' = cached /\ nextTileIndex' = nextTileIndex
    BY <1>10 DEF Exit, Block, SpuriousWakeup, StartJob, requestVars
  <2>2. /\ \A u \in Workers \ {v} : pc'[u] = pc[u]
        /\ \/ pc[v] = "check" /\ pc'[v] = "exited"
           \/ pc[v] = "parking" /\ pc'[v] = "waiting"
           \/ pc[v] = "waiting" /\ pc'[v] = "check"
           \/ pc[v] = "taken" /\ pc'[v] = "fetching"
    BY <1>1, <1>10 DEF Exit, Block, SpuriousWakeup, StartJob, TypeOK
  <2> QED BY <1>2, <1>3, <2>1, <2>2, WatchIsKept
<1>11. CASE CheckJobs(v)
  <2>1. ChecksInVain(v) \/ \E r \in Requests : ChecksAndTakes(v, r)
    BY <1>11 DEF CheckJobs, ChecksInVain, ChecksAndTakes
  <2> QED BY <1>5, <1>6, <2>1
<1>12. CASE ExitWithJob(v) \/ FetchFails(v)
  <2>1. Holds(v) /\ pc[v] # "fetched" /\ \E next \in {"check", "exited"} : DropJob(v, next)
    BY <1>12 DEF ExitWithJob, FetchFails, Holds
  <2> QED BY <1>9, <2>1
<1> QED BY <1>7, <1>8, <1>10, <1>11, <1>12 DEF WorkerStep

LEMMA CallsWatch ==
  ASSUME IInv, NoMissedInv, NEW c \in Calls,
         CallStep(c) \/ \E r \in Requests : AbortRequest(c, r)
  PROVE  NoMissedInv'
<1>1. TypeOK
  BY DEF IInv
<1>2. SUFFICES ASSUME NEW w \in Workers, WatchesJobs(w) PROVE WatchesJobs(w)'
  BY DEF NoMissedInv
<1>3. ASSUME requests' \subseteq requests, jobsInProgress' = jobsInProgress,
             cached' = cached, nextTileIndex' = nextTileIndex
      PROVE  Takeable(w) = {} => Takeable(w)' = {}
  BY <1>3, NoneToTakeKept
<1>4. CASE NotifyAdded(c)
  <2>1. pc' = Notified /\ requests' = requests /\ jobsInProgress' = jobsInProgress
        /\ cached' = cached /\ nextTileIndex' = nextTileIndex
    BY <1>4 DEF NotifyAdded, requestVars
  <2>2. /\ \A u \in Workers : pc[u] # "waiting" => pc'[u] = pc[u]
        /\ pc'[w] # "waiting"
    BY <2>1 DEF Notified
  <2>3. CASE pc[w] = "parking"
    BY <1>2, <1>3, <2>1, <2>2, <2>3 DEF WatchesJobs, CacheTouched
  <2>4. CASE pc[w] # "parking"
    <3>1. pc'[w] \notin {"parking", "waiting"}
      BY <2>1, <2>4 DEF Notified
    <3> QED BY <3>1 DEF WatchesJobs
  <2> QED BY <2>3, <2>4
<1>5. CASE AddRequest(c)
  <2>1. MutexFree /\ pc' = pc /\ call' = [call EXCEPT ![c].pc = "notify"]
    BY <1>5 DEF AddRequest, workerVars
  <2>2. call'[c].pc = "notify"
    BY <1>1, <2>1 DEF TypeOK, CallState
  <2> QED BY <2>1, <2>2 DEF WatchesJobs, MutexFree
<1>6. ASSUME NEW r \in Requests, AbortRequest(c, r)
      PROVE  WatchesJobs(w)'
  <2>1. pc' = pc /\ call' = call /\ requests' \subseteq requests
        /\ jobsInProgress' = jobsInProgress /\ cached' = cached /\ nextTileIndex' = nextTileIndex
    BY <1>6 DEF AbortRequest, WithoutRequest, workerVars
  <2> QED BY <1>2, <1>3, <2>1, WatchIsKept
<1>7. CASE BeginCall(c) \/ CheckAccess(c) \/ RejectRequest(c) \/ AddDoneRequest(c)
  <2>1. pc' = pc /\ requests' = requests
        /\ jobsInProgress' = jobsInProgress /\ cached' = cached /\ nextTileIndex' = nextTileIndex
    BY <1>7 DEF BeginCall, CheckAccess, RejectRequest, AddDoneRequest, requestVars, workerVars
  <2>2. call[c].pc # "notify" /\ \A d \in Calls \ {c} : call'[d] = call[d]
    BY <1>1, <1>7 DEF BeginCall, CheckAccess, RejectRequest, AddDoneRequest, TypeOK
  <2> QED BY <1>2, <1>3, <2>1, <2>2, WatchIsKept
<1> QED BY <1>4, <1>5, <1>6, <1>7 DEF CallStep

LEMMA ManagerWatches ==
  ASSUME IInv, NoMissedInv, ManagerStep
  PROVE  NoMissedInv'
<1>1. SUFFICES ASSUME NEW w \in Workers, WatchesJobs(w) PROVE WatchesJobs(w)'
  BY DEF NoMissedInv
<1>2. /\ requests' = requests /\ jobsInProgress' = jobsInProgress /\ call' = call
      /\ cached' = cached /\ nextTileIndex' = nextTileIndex
  BY ManagerTouchesNoRequest
<1>3. Takeable(w) = {} => Takeable(w)' = {}
  BY <1>2, NoneToTakeKept
<1>4. \A u \in Workers : \/ pc'[u] = pc[u]
                         \/ pc[u] \in {"exited", "waiting"} /\ pc'[u] = "check"
  BY ManagerWakes DEF IInv
<1> QED BY <1>1, <1>2, <1>3, <1>4, WatchIsKept

\* No notification is lost: a worker is blocked only while it has nothing to take,
\* or while the thread that changed that has yet to notify it.
THEOREM NoJobIsMissed == Spec => []NoMissedJob
<1>1. Init => NoMissedInv
  BY DEF Init, NoMissedInv, WatchesJobs
<1>2. IInv /\ NoMissedInv /\ [Next]_vars => NoMissedInv'
  <2> SUFFICES ASSUME IInv, NoMissedInv, [Next]_vars PROVE NoMissedInv'
    OBVIOUS
  <2>1. CASE UNCHANGED vars
    <3>1. /\ requests' = requests /\ pc' = pc /\ call' = call
          /\ UNCHANGED <<jobsInProgress, cached, nextTileIndex>>
      BY <2>1 DEF vars, requestVars, workerVars
    <3> QED BY <3>1, NoneToTakeKept, WatchIsKept DEF NoMissedInv
  <2> QED BY <2>1, WorkersWatch, CallsWatch, ManagerWatches DEF Next
<1>3. NoMissedInv => NoMissedJob
  BY DEF NoMissedInv, WatchesJobs, CacheTouched, NoMissedJob
<1> QED BY <1>1, <1>2, <1>3, ServiceInvariant, PTL DEF Spec
===============================================================================
