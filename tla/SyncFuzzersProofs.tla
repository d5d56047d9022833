--------------------------- MODULE SyncFuzzersProofs ---------------------------
(***************************************************************************)
(* Proofs about SyncFuzzers for any number of instances and test cases.    *)
(* An instance works from a listing of its peer's queue made earlier, and  *)
(* while it does the peer goes on, ends or starts anew.  The listing may   *)
(* lack a file, and the cursor counts names.  The invariant says what the  *)
(* listing still has to do with the queue, where the count will end, and   *)
(* why a test case that is passed over for its name is known already.      *)
(***************************************************************************)
EXTENDS SyncFuzzers, SetLemmas

Total == Cardinality(Cases)
Name  == [case : Cases, from : Nodes \cup {NoNode}]

SyncState == [at : {"idle", "loop", "unlink", "scan", "import"}, todo : SUBSET Nodes,
              synced : BOOLEAN, entries : BOOLEAN, peer : Nodes \cup {NoNode},
              names : SUBSET Nat, life : Nat, next : Nat]

--------------------------------------------------------------------------------
(* The inductive invariant                                                  *)

Typed ==
    /\ fleet \in Fleets
    /\ alive \in [Nodes -> BOOLEAN] /\ fresh \in [Nodes -> BOOLEAN]
    /\ is_main \in [Nodes -> BOOLEAN] /\ marker \in [Nodes -> BOOLEAN]
    /\ gone \in [Nodes -> BOOLEAN]
    /\ life \in [Nodes -> Nat \ {0}] /\ trims \in [Nodes -> 0..fleet.trims]
    /\ queue \in [Nodes -> Seq(Name)] /\ flux \in [Nodes -> 0..Total]
    /\ known \in [Nodes -> SUBSET Cases] /\ missed \in [Nodes -> SUBSET Cases]
    /\ cursor \in [Nodes -> [Nodes -> 0..Total]]
    /\ max_start \in [Nodes -> [Nodes -> 0..Total \cup {NoMax}]]
    /\ sync \in [Nodes -> SyncState]

\* A queue holds each test case its instance knows once.
QueueOK(n) ==
    /\ Len(queue[n]) = Cardinality(known[n])
    /\ \A i \in DOMAIN queue[n] : queue[n][i].case \in known[n]

\* A file with the name of a peer came from there.
FromOK(n, m) == life[m] = 1 =>
    \A i \in DOMAIN queue[n] : queue[n][i].from = m => queue[n][i].case \in known[m]

\* The first k files of a queue, but the open ones, have been dealt with.
Dealt(n, p, k, open) ==
    \A i \in 1..k : i \in open \/ queue[p][i].case \in known[n] \cup missed[n]

\* What the count will be when a listing is worked off.
EndOf(s) == s.next + Cardinality(s.names)

\* While a listing is worked off, its files are in the peer's queue unless the peer has
\* started anew, and those before the end of the count are dealt with or to come.
ListingOK(n, s) ==
    /\ s.at \in {"unlink", "scan", "import"} => s.peer \in Nodes
    /\ s.at = "import" =>
         /\ IsFiniteSet(s.names) /\ EndOf(s) <= Total /\ s.life \in 1..life[s.peer]
         /\ s.life = life[s.peer] =>
              s.names \subseteq DOMAIN queue[s.peer] /\ EndOf(s) <= Len(queue[s.peer])
         /\ life[n] = 1 /\ life[s.peer] = 1 => Dealt(n, s.peer, EndOf(s), s.names)

\* CursorIsHonest, and the cursor lies within the queue.
CursorOK(n, p) == life[n] = 1 /\ life[p] = 1 =>
    cursor[n][p] <= Len(queue[p]) /\ Dealt(n, p, cursor[n][p], {})

FleetInv ==
    /\ Typed /\ Ends <= fleet.ends
    /\ \A n \in Nodes : QueueOK(n) /\ ListingOK(n, sync[n])
    /\ \A n, m \in Nodes : FromOK(n, m) /\ CursorOK(n, m)

--------------------------------------------------------------------------------
(* Counting                                                                 *)

\* There are finitely many of everything.
LEMMA Finite ==
    /\ IsFiniteSet(Nodes) /\ Total \in Nat
    /\ \A K \in SUBSET Cases : IsFiniteSet(K) /\ Cardinality(K) \in 0..Total
    /\ \A f \in Fleets : f.nodes \in SUBSET Nodes /\ f.ends \in Nat /\ f.trims \in Nat
<1>1. IsFiniteSet(Nodes) /\ IsFiniteSet(Cases)
  BY SyncAssumption
<1>2. Total \in Nat
  BY <1>1, FS_CardinalityType DEF Total
<1>3. ASSUME NEW K \in SUBSET Cases PROVE IsFiniteSet(K) /\ Cardinality(K) \in 0..Total
  <2>1. IsFiniteSet(K) /\ Cardinality(K) <= Total
    BY <1>1, FS_Subset DEF Total
  <2>2. Cardinality(K) \in Nat
    BY <2>1, FS_CardinalityType
  <2> QED
    BY <1>2, <2>1, <2>2
<1>4. \A f \in Fleets : f.nodes \in SUBSET Nodes /\ f.ends \in Nat /\ f.trims \in Nat
  BY SyncAssumption DEF Fleet
<1> QED
  BY <1>1, <1>2, <1>3, <1>4

Restarts == [n \in Nodes |-> life[n] - 1]
Down     == {n \in fleet.nodes : ~alive[n]}

\* The two summands of Ends.
LEMMA EndsFacts ==
    ASSUME Typed
    PROVE  /\ Ends = Cardinality(Down) + SumFunctionOnSet(Restarts, Nodes)
           /\ IsFiniteSet(Down) /\ Cardinality(Down) \in Nat
           /\ Restarts \in [Nodes -> Nat] /\ SumFunctionOnSet(Restarts, Nodes) \in Nat
<1>1. IsFiniteSet(Down)
  BY Finite, FS_Subset DEF Typed, Down
<1>2. Restarts \in [Nodes -> Nat]
  BY DEF Typed, Restarts
<1> QED
  BY <1>1, <1>2, Finite, FS_CardinalityType, SumNat DEF Ends, Down, Restarts

\* An end counts one more.
LEMMA EndCounts ==
    ASSUME Typed, Typed', NEW n \in Nodes, Ends < fleet.ends,
           alive' = [alive EXCEPT ![n] = FALSE], UNCHANGED <<fleet, life>>
    PROVE  (Ends <= fleet.ends)'
<1>1. /\ Ends = Cardinality(Down) + SumFunctionOnSet(Restarts, Nodes)
      /\ IsFiniteSet(Down) /\ Cardinality(Down) \in Nat
      /\ SumFunctionOnSet(Restarts, Nodes) \in Nat
  BY EndsFacts
<1>2. Ends' = Cardinality(Down') + SumFunctionOnSet(Restarts, Nodes)
  BY DEF Ends, Down, Restarts
<1>3. IsFiniteSet(Down \cup {n}) /\ Cardinality(Down \cup {n}) <= Cardinality(Down) + 1
  BY <1>1, FS_AddElement
<1>4. Down' \subseteq Down \cup {n}
  BY DEF Down, Typed
<1>5. /\ Cardinality(Down') <= Cardinality(Down \cup {n}) /\ Cardinality(Down') \in Nat
      /\ Cardinality(Down \cup {n}) \in Nat
  BY <1>3, <1>4, FS_Subset, FS_CardinalityType
<1>6. fleet.ends \in Nat /\ fleet' = fleet
  BY Finite DEF Typed
<1> QED
  BY <1>1, <1>2, <1>3, <1>5, <1>6

\* A start after an end does not count again.
LEMMA StartCounts ==
    ASSUME Typed, Typed', NEW n \in fleet.nodes, ~alive[n], Ends <= fleet.ends,
           alive' = [alive EXCEPT ![n] = TRUE], life' = [life EXCEPT ![n] = @ + 1], fleet' = fleet
    PROVE  (Ends <= fleet.ends)'
<1> DEFINE rest == Nodes \ {n}
<1>1. /\ Ends = Cardinality(Down) + SumFunctionOnSet(Restarts, Nodes)
      /\ IsFiniteSet(Down) /\ Cardinality(Down) \in Nat
      /\ Restarts \in [Nodes -> Nat] /\ SumFunctionOnSet(Restarts, Nodes) \in Nat
  BY EndsFacts
<1>2. Ends' = Cardinality(Down') + SumFunctionOnSet(Restarts', Nodes)
  BY DEF Ends, Down, Restarts
<1>3. n \in Nodes /\ n \in Down
  BY Finite DEF Typed, Down
<1>4. /\ Restarts' \in [Nodes -> Nat] /\ Restarts'[n] = Restarts[n] + 1
      /\ \A m \in rest : Restarts'[m] = Restarts[m]
  <2>1. /\ life \in [Nodes -> Nat \ {0}] /\ life' \in [Nodes -> Nat \ {0}]
        /\ life'[n] = life[n] + 1 /\ \A m \in rest : life'[m] = life[m]
    BY <1>3 DEF Typed
  <2>2. Restarts' = [m \in Nodes |-> life'[m] - 1]
    BY DEF Restarts
  <2> QED
    BY <1>3, <2>1, <2>2 DEF Restarts
<1>5. Down' = Down \ {n}
  BY DEF Down, Typed
<1>6. Cardinality(Down') = Cardinality(Down) - 1
  BY <1>1, <1>3, <1>5, FS_RemoveElement
<1>7. IsFiniteSet(Nodes) /\ IsFiniteSet(rest)
  BY Finite, FS_Subset
<1>8. /\ SumFunctionOnSet(Restarts, Nodes) = Restarts[n] + SumFunctionOnSet(Restarts, rest)
      /\ SumFunctionOnSet(Restarts, rest) \in Nat
  BY <1>1, <1>3, <1>7, SumRemove, SumNat
<1>9. SumFunctionOnSet(Restarts', Nodes) = Restarts'[n] + SumFunctionOnSet(Restarts', rest)
  BY <1>3, <1>4, <1>7, SumRemove
<1>10. SumFunctionOnSet(Restarts', rest) = SumFunctionOnSet(Restarts, rest)
  BY <1>4, <1>7, SumSame
<1>11. Restarts[n] \in Nat
  BY <1>1, <1>3
<1> QED
  BY <1>1, <1>2, <1>4, <1>6, <1>8, <1>9, <1>10, <1>11

\* No instance is started more often than all together end, plus once.
LEMMA LifeBound ==
    ASSUME Typed, Ends <= fleet.ends, NEW n \in Nodes
    PROVE  life[n] \in 1..(fleet.ends + 1)
<1> DEFINE rest == Nodes \ {n}
<1>1. /\ Ends = Cardinality(Down) + SumFunctionOnSet(Restarts, Nodes)
      /\ Cardinality(Down) \in Nat /\ Restarts \in [Nodes -> Nat]
  BY EndsFacts
<1>2. IsFiniteSet(Nodes) /\ IsFiniteSet(rest)
  BY Finite, FS_Subset
<1>3. /\ SumFunctionOnSet(Restarts, Nodes) = Restarts[n] + SumFunctionOnSet(Restarts, rest)
      /\ SumFunctionOnSet(Restarts, rest) \in Nat
  BY <1>1, <1>2, SumRemove, SumNat
<1>4. Restarts[n] = life[n] - 1 /\ life[n] \in Nat \ {0} /\ fleet.ends \in Nat
  BY Finite DEF Restarts, Typed
<1> QED
  BY <1>1, <1>3, <1>4

--------------------------------------------------------------------------------
(* What others do meanwhile                                                 *)

\* Without a start, queues only get longer and knowledge grows.
Evolves ==
    /\ life' = life
    /\ \A m \in Nodes :
         /\ Len(queue[m]) <= Len(queue'[m])
         /\ \A i \in DOMAIN queue[m] : queue'[m][i] = queue[m][i]
         /\ known[m] \subseteq known'[m] /\ missed[m] \subseteq missed'[m]

\* What has been dealt with remains dealt with.
LEMMA DealtStays ==
    ASSUME Typed, Typed', Evolves, NEW n \in Nodes, NEW p \in Nodes, NEW k \in Nat, NEW open,
           k <= Len(queue[p]), Dealt(n, p, k, open)
    PROVE  k <= Len(queue'[p]) /\ Dealt(n, p, k, open)'
<1>1. /\ queue[p] \in Seq(Name) /\ queue'[p] \in Seq(Name) /\ Len(queue[p]) <= Len(queue'[p])
      /\ \A i \in DOMAIN queue[p] : queue'[p][i] = queue[p][i]
      /\ known[n] \subseteq known'[n] /\ missed[n] \subseteq missed'[n]
  BY DEF Typed, Evolves
<1>2. 1..k \subseteq DOMAIN queue[p] /\ k <= Len(queue'[p])
  BY <1>1
<1> QED
  BY <1>1, <1>2 DEF Dealt

\* The count of a listing is a number.
LEMMA EndType ==
    ASSUME NEW s \in SyncState, IsFiniteSet(s.names)
    PROVE  EndOf(s) \in Nat /\ s.next \in Nat /\ Cardinality(s.names) \in Nat
BY FS_CardinalityType DEF EndOf, SyncState

\* A listing stays as good as it was.
LEMMA ListingStays ==
    ASSUME Typed, Typed', Evolves, NEW n \in Nodes, NEW s \in SyncState, ListingOK(n, s)
    PROVE  ListingOK(n, s)'
<1>1. s.at \in {"unlink", "scan", "import"} => s.peer \in Nodes
  BY DEF ListingOK
<1>2. ASSUME s.at = "import"
      PROVE  /\ IsFiniteSet(s.names) /\ EndOf(s) <= Total /\ s.life \in 1..life'[s.peer]
             /\ s.life = life'[s.peer] =>
                  s.names \subseteq DOMAIN queue'[s.peer] /\ EndOf(s) <= Len(queue'[s.peer])
             /\ life'[n] = 1 /\ life'[s.peer] = 1 => Dealt(n, s.peer, EndOf(s), s.names)'
  <2>1. PICK p \in Nodes : p = s.peer
    BY <1>1, <1>2
  <2>2. /\ IsFiniteSet(s.names) /\ EndOf(s) <= Total /\ s.life \in 1..life[p]
        /\ s.life = life[p] => s.names \subseteq DOMAIN queue[p] /\ EndOf(s) <= Len(queue[p])
        /\ life[n] = 1 /\ life[p] = 1 => Dealt(n, p, EndOf(s), s.names)
    BY <1>2, <2>1 DEF ListingOK
  <2>3. PICK k \in Nat : k = EndOf(s)
    BY <2>2, EndType
  <2>4. /\ life' = life /\ queue[p] \in Seq(Name) /\ queue'[p] \in Seq(Name)
        /\ Len(queue[p]) <= Len(queue'[p]) /\ life[p] \in Nat \ {0} /\ s.life \in Nat
    BY DEF Evolves, Typed, SyncState
  <2>5. s.life = life[p] => s.names \subseteq DOMAIN queue'[p] /\ k <= Len(queue'[p])
    <3>1. DOMAIN queue[p] \subseteq DOMAIN queue'[p]
      BY <2>4
    <3> QED
      BY <2>2, <2>3, <2>4, <3>1
  <2>6. ASSUME life[n] = 1, life[p] = 1 PROVE Dealt(n, p, k, s.names)'
    <3>1. s.life = life[p]
      BY <2>2, <2>4, <2>6
    <3>2. PICK open : open = s.names
      OBVIOUS
    <3>3. Dealt(n, p, k, open) /\ k <= Len(queue[p])
      BY <2>2, <2>3, <2>6, <3>1, <3>2
    <3>4. Dealt(n, p, k, open)'
      BY <3>3, DealtStays
    <3> QED
      BY <3>2, <3>4
  <2> QED
    BY <2>1, <2>2, <2>3, <2>4, <2>5, <2>6
<1> QED
  BY <1>1, <1>2 DEF ListingOK

\* A cursor that is not moved stays honest.
LEMMA CursorStays ==
    ASSUME Typed, Typed', Evolves, NEW n \in Nodes, NEW p \in Nodes, CursorOK(n, p),
           cursor'[n][p] = cursor[n][p]
    PROVE  CursorOK(n, p)'
<1> SUFFICES ASSUME life'[n] = 1, life'[p] = 1
             PROVE  cursor'[n][p] <= Len(queue'[p]) /\ Dealt(n, p, cursor[n][p], {})'
  BY DEF CursorOK
<1>1. PICK k \in Nat : k = cursor[n][p] /\ k = cursor'[n][p]
  <2>1. cursor[n][p] \in 0..Total
    BY DEF Typed
  <2> QED
    BY <2>1, Finite
<1>2. k <= Len(queue[p]) /\ Dealt(n, p, k, {})
  BY <1>1 DEF CursorOK, Evolves
<1>3. k <= Len(queue'[p]) /\ Dealt(n, p, k, {})'
  BY <1>2, DealtStays
<1> QED
  BY <1>1, <1>3

\* A step of n: the listings and cursors of the others need no further argument.
LEMMA EvolveKeeps ==
    ASSUME FleetInv, NEW n \in Nodes, Typed', (Ends <= fleet.ends)', Evolves,
           \A m \in Nodes : QueueOK(m)', \A m, p \in Nodes : FromOK(m, p)',
           \A m \in Nodes \ {n} : sync'[m] = sync[m], ListingOK(n, sync[n])',
           \A m, p \in Nodes : cursor'[m][p] = cursor[m][p] \/ CursorOK(m, p)'
    PROVE  FleetInv'
<1>1. Typed
  BY DEF FleetInv
<1>2. ASSUME NEW m \in Nodes PROVE ListingOK(m, sync[m])'
  <2>1. CASE m # n
    <3>1. PICK s \in SyncState : s = sync[m] /\ s = sync'[m]
      BY <1>1, <2>1 DEF Typed
    <3>2. ListingOK(m, s)'
      BY <1>1, <3>1, ListingStays DEF FleetInv
    <3> QED
      BY <3>1, <3>2 DEF ListingOK, Dealt, EndOf
  <2> QED
    BY <2>1
<1>3. ASSUME NEW m \in Nodes, NEW p \in Nodes PROVE CursorOK(m, p)'
  BY <1>1, CursorStays DEF FleetInv
<1> QED
  BY <1>2, <1>3 DEF FleetInv

\* If it also leaves the queues alone, all that is left to show is about its own
\* listing, and the cursors it moves.
LEMMA QuietKeeps ==
    ASSUME FleetInv, NEW n \in Nodes, Typed', (Ends <= fleet.ends)',
           UNCHANGED <<life, queue, known>>, \A m \in Nodes : missed[m] \subseteq missed'[m],
           \A m \in Nodes \ {n} : sync'[m] = sync[m], ListingOK(n, sync[n])',
           \A m, p \in Nodes : cursor'[m][p] = cursor[m][p] \/ CursorOK(m, p)'
    PROVE  FleetInv'
<1>1. Evolves
  <2>1. \A m \in Nodes : queue[m] \in Seq(Name)
    BY DEF FleetInv, Typed
  <2> QED
    BY <2>1 DEF Evolves
<1>2. \A m \in Nodes : QueueOK(m)'
  BY DEF FleetInv, QueueOK
<1>3. \A m, p \in Nodes : FromOK(m, p)'
  BY DEF FleetInv, FromOK
<1> QED
  BY <1>1, <1>2, <1>3, EvolveKeeps

\* Such a step that leaves the listing of n alone as well, or ends it.
LEMMA IdleKeeps ==
    ASSUME FleetInv, NEW n \in Nodes, Typed', (Ends <= fleet.ends)',
           UNCHANGED <<life, queue, known, missed, cursor>>,
           \A m \in Nodes : sync'[m] = sync[m] \/ sync'[m].at \in {"idle", "loop"}
    PROVE  FleetInv'
<1>1. ASSUME NEW m \in Nodes PROVE ListingOK(m, sync[m])'
  <2>1. CASE sync'[m] = sync[m]
    BY <2>1 DEF FleetInv, ListingOK, Dealt
  <2>2. CASE sync'[m].at \in {"idle", "loop"}
    BY <2>2 DEF ListingOK
  <2> QED
    BY <2>1, <2>2
<1>2. \A m \in Nodes : QueueOK(m)'
  BY DEF FleetInv, QueueOK
<1>3. \A m, p \in Nodes : (FromOK(m, p) /\ CursorOK(m, p))'
  BY DEF FleetInv, FromOK, CursorOK, Dealt
<1> QED
  BY <1>1, <1>2, <1>3 DEF FleetInv

\* The bound on ends is not touched while nobody ends or starts.
LEMMA SameEnds ==
    ASSUME FleetInv, UNCHANGED <<fleet, alive, life>>
    PROVE  (Ends <= fleet.ends)'
BY DEF FleetInv, Ends

--------------------------------------------------------------------------------
(* Steps that add no file                                                   *)

\* What lies idle.
LEMMA IdleFacts == Idle \in SyncState /\ Idle.at = "idle"
BY DEF Idle, SyncState

\* A file is unlinked, there again, and complete.
LEMMA FluxKeeps ==
    ASSUME FleetInv, NEW n \in Nodes, Trim(n) \/ Created(n) \/ Written(n)
    PROVE  FleetInv'
<1>1. UNCHANGED <<lifeVars, is_main, marker, queue, known, cursor, max_start, sync, missed>>
  BY DEF Trim, Created, Written
<1>2. /\ flux' \in [Nodes -> 0..Total] /\ trims' \in [Nodes -> 0..fleet.trims]
      /\ gone' \in [Nodes -> BOOLEAN]
  <2>1. CASE Created(n)
    BY <2>1 DEF Created, FleetInv, Typed
  <2>2. CASE Written(n)
    BY <2>2, Finite DEF Written, FleetInv, Typed
  <2>3. CASE Trim(n)
    <3>1. PICK i \in DOMAIN queue[n] : flux' = [flux EXCEPT ![n] = i]
      BY <2>3 DEF Trim
    <3>2. queue[n] \in Seq(Name) /\ Len(queue[n]) \in 0..Total
      BY Finite DEF FleetInv, Typed, QueueOK
    <3>3. i \in 0..Total
      BY <3>2, Finite
    <3>4. /\ fleet.trims \in Nat /\ trims \in [Nodes -> 0..fleet.trims]
          /\ flux \in [Nodes -> 0..Total] /\ gone \in [Nodes -> BOOLEAN]
      BY Finite DEF FleetInv, Typed
    <3> QED
      BY <2>3, <3>1, <3>3, <3>4 DEF Trim
  <2> QED
    BY <2>1, <2>2, <2>3
<1>3. Typed'
  BY <1>1, <1>2 DEF FleetInv, Typed, lifeVars
<1> QED
  BY <1>1, <1>3, SameEnds, IdleKeeps DEF lifeVars

\* A sync begins.
LEMMA SyncStartKeeps ==
    ASSUME FleetInv, NEW n \in Nodes, SyncStart(n)
    PROVE  FleetInv'
<1>1. PICK s : s = [Idle EXCEPT !.at = "loop", !.todo = Others(n)]
  OBVIOUS
<1>2. /\ sync' = [sync EXCEPT ![n] = s]
      /\ UNCHANGED <<lifeVars, is_main, diskVars, cursor, max_start, missed>>
  BY <1>1 DEF SyncStart
<1>3. s \in SyncState /\ s.at = "loop"
  <2>1. Others(n) \in SUBSET Nodes
    BY Finite DEF Others, FleetInv, Typed
  <2> QED
    BY <1>1, <2>1, IdleFacts DEF SyncState
<1>4. sync' \in [Nodes -> SyncState] /\ \A m \in Nodes : sync'[m] = sync[m] \/ sync'[m].at = "loop"
  BY <1>2, <1>3 DEF FleetInv, Typed
<1>5. Typed'
  BY <1>2, <1>4 DEF FleetInv, Typed, lifeVars, diskVars
<1> QED
  BY <1>2, <1>4, <1>5, SameEnds, IdleKeeps DEF lifeVars, diskVars

\* The next directory: if its queue is to be read, it is the directory of a peer.
LEMMA LookKeeps ==
    ASSUME FleetInv, NEW n \in Nodes, Look(n)
    PROVE  FleetInv'
<1> DEFINE p == Min(sync[n].todo)
           s == [sync[n] EXCEPT
                   !.todo = sync[n].todo \ {p}, !.entries = TRUE,
                   !.synced = sync[n].synced \/ ~Skips(n, p),
                   !.peer = IF Skips(n, p) THEN NoNode ELSE p,
                   !.at = IF Skips(n, p) THEN "loop"
                          ELSE IF is_main'[n] # is_main[n] THEN "unlink" ELSE "scan"]
<1>1. sync' = [sync EXCEPT ![n] = s]
  BY DEF Look
<1>2. /\ sync[n].todo # {} /\ is_main' = [is_main EXCEPT ![n] = MainAfter(n, p)]
      /\ UNCHANGED <<lifeVars, diskVars, cursor, max_start, missed>>
  BY DEF Look
<1>3. sync[n] \in SyncState /\ sync[n].todo \in SUBSET Nodes /\ Typed
  BY DEF FleetInv, Typed, SyncState
<1>4. p \in Nodes
  <2>1. \E x \in sync[n].todo : \A y \in sync[n].todo : x <= y
    BY <1>2, <1>3, SyncAssumption, LeastOf
  <2> QED
    BY <1>3, <2>1 DEF Min
<1> HIDE DEF p
<1>5. /\ s \in SyncState /\ s.at \in {"loop", "unlink", "scan"}
      /\ s.at # "loop" => s.peer \in Nodes
  BY <1>3, <1>4 DEF SyncState
<1> HIDE DEF s
<1>6. /\ sync' \in [Nodes -> SyncState] /\ sync'[n] = s
      /\ \A m \in Nodes \ {n} : sync'[m] = sync[m]
  BY <1>1, <1>3, <1>5 DEF Typed
<1>7. is_main' \in [Nodes -> BOOLEAN]
  BY <1>2, <1>3 DEF Typed, MainAfter
<1>8. Typed'
  BY <1>2, <1>3, <1>6, <1>7 DEF Typed, lifeVars, diskVars
<1>9. ListingOK(n, sync[n])'
  BY <1>5, <1>6 DEF ListingOK
<1> QED
  BY <1>2, <1>6, <1>8, <1>9, SameEnds, QuietKeeps DEF lifeVars, diskVars

\* A temporary main node takes its file away; the directory it looks at stays the same.
LEMMA UnlinkKeeps ==
    ASSUME FleetInv, NEW n \in Nodes, Unlink(n)
    PROVE  FleetInv'
<1>1. /\ sync[n].at = "unlink" /\ sync' = [sync EXCEPT ![n].at = "scan"]
      /\ marker' = [marker EXCEPT ![n] = FALSE]
      /\ UNCHANGED <<lifeVars, is_main, queue, flux, gone, known, trims, cursor, max_start,
                     missed>>
  BY DEF Unlink
<1>2. /\ Typed /\ sync[n] \in SyncState /\ sync[n].peer \in Nodes
  BY <1>1 DEF FleetInv, Typed, ListingOK
<1> DEFINE s == [sync[n] EXCEPT !.at = "scan"]
<1>3. s \in SyncState /\ s.at = "scan" /\ s.peer \in Nodes
  BY <1>2 DEF SyncState
<1>4. sync' = [sync EXCEPT ![n] = s]
  BY <1>1
<1> HIDE DEF s
<1>5. /\ sync' \in [Nodes -> SyncState] /\ sync'[n] = s
      /\ \A m \in Nodes \ {n} : sync'[m] = sync[m]
  BY <1>2, <1>3, <1>4 DEF Typed
<1>6. Typed'
  BY <1>1, <1>2, <1>5 DEF Typed, lifeVars
<1>7. ListingOK(n, sync[n])'
  BY <1>3, <1>5 DEF ListingOK
<1> QED
  BY <1>1, <1>5, <1>6, <1>7, SameEnds, QuietKeeps DEF lifeVars

\* What is to be read: from the cursor on, all up to where the count will end, except
\* a file in the middle that is unlinked.
LEMMA ToReadFacts ==
    ASSUME FleetInv, NEW n \in Nodes, NEW p \in Nodes, NEW c \in Nat, c = cursor[n][p],
           NEW R, R = ToRead(n, p), R # {}
    PROVE  /\ R \subseteq DOMAIN queue[p] /\ IsFiniteSet(R) /\ Cardinality(R) \in Nat
           /\ c + Cardinality(R) <= Len(queue[p])
           /\ \A i \in 1..(c + Cardinality(R)) :
                i \in 1..c \/ i \in R \/ (i = Unlinked(p) /\ i \in (c + 2)..(Len(queue[p]) - 1))
<1> DEFINE L == Len(queue[p])
           u == Unlinked(p)
           I == (c + 1)..L
<1>1. queue[p] \in Seq(Name) /\ L \in Nat /\ DOMAIN queue[p] = 1..L
  BY DEF FleetInv, Typed
<1>2. c + 1 \in 1..L /\ c + 1 # u /\ R = {i \in (1..L) \ {u} : i > c}
  BY <1>1 DEF ToRead, Listing
<1> HIDE DEF u
<1>3. R = I \ {u} /\ c + 1 <= L
  BY <1>1, <1>2
<1>4. IsFiniteSet(I) /\ Cardinality(I) = L - c
  <2>1. IsFiniteSet(I) /\ Cardinality(I) = IF c + 1 > L THEN 0 ELSE L - (c + 1) + 1
    <3>1. c + 1 \in Int /\ L \in Int
      BY <1>1
    <3> QED
      BY <3>1, FS_Interval
  <2> QED
    BY <1>1, <1>3, <2>1
<1>5. CASE u \in I
  <2>1. IsFiniteSet(R) /\ Cardinality(R) = L - c - 1
    BY <1>3, <1>4, <1>5, FS_RemoveElement
  <2> HIDE DEF L
  <2>2. /\ Cardinality(R) \in Nat /\ c + Cardinality(R) = L - 1 /\ R \subseteq 1..L
    BY <1>1, <1>3, <2>1
  <2>3. ASSUME NEW i \in 1..(L - 1) PROVE i \in 1..c \/ i \in R \/ (i = u /\ i \in (c + 2)..(L - 1))
    BY <1>1, <1>2, <1>3
  <2> QED
    BY <1>1, <2>1, <2>2, <2>3 DEF L, u
<1>6. CASE u \notin I
  <2>1. R = I
    BY <1>3, <1>6
  <2> HIDE DEF L
  <2>2. Cardinality(R) \in Nat /\ c + Cardinality(R) = L /\ R \subseteq 1..L
    <3>1. Cardinality(R) = L - c
      BY <1>4, <2>1 DEF L
    <3>2. R \subseteq 1..L
      BY <1>1, <2>1 DEF L
    <3> QED
      BY <1>1, <1>3, <3>1, <3>2 DEF L
  <2>3. \A i \in 1..L : i \in 1..c \/ i \in R
    BY <1>1, <2>1
  <2> QED
    BY <1>1, <1>4, <2>1, <2>2, <2>3 DEF L
<1> QED
  BY <1>5, <1>6

\* What is passed over are test cases.
LEMMA PassedType ==
    ASSUME FleetInv, NEW n \in Nodes, NEW p \in Nodes
    PROVE  PassedOver(n, p) \subseteq Cases
<1>1. queue[p] \in Seq(Name) /\ cursor[n][p] \in 0..Total /\ Total \in Nat
  BY Finite DEF FleetInv, Typed
<1>2. \A i \in (cursor[n][p] + 2)..(Len(queue[p]) - 1) : i \in DOMAIN queue[p] /\ queue[p][i] \in Name
  BY <1>1
<1> QED
  BY <1>2 DEF PassedOver, Name

\* The listing is made: what lies before the cursor has been dealt with, the rest is
\* listed, but for a file that is missed from now on.
LEMMA ScanKeeps ==
    ASSUME FleetInv, NEW n \in Nodes, Scan(n)
    PROVE  FleetInv'
<1> DEFINE p == sync[n].peer
<1>1. sync[n].at = "scan" /\ UNCHANGED <<lifeVars, is_main, diskVars>>
  BY DEF Scan
<1>2. Typed /\ sync[n] \in SyncState /\ p \in Nodes
  BY <1>1 DEF FleetInv, Typed, ListingOK
<1>3. CASE Restarted(p)
  <2>1. cursor' = [cursor EXCEPT ![n][p] = 0] /\ UNCHANGED <<max_start, missed>>
        /\ sync' = [sync EXCEPT ![n].at = "loop"]
    BY <1>3 DEF Scan
  <2> HIDE DEF p
  <2>2. /\ cursor' \in [Nodes -> [Nodes -> 0..Total]] /\ cursor'[n][p] = 0
        /\ \A m, q \in Nodes : cursor'[m][q] = cursor[m][q] \/ (m = n /\ q = p)
    BY <1>2, <2>1, Finite DEF Typed
  <2>3. /\ sync' \in [Nodes -> SyncState] /\ sync'[n].at = "loop"
        /\ \A m \in Nodes \ {n} : sync'[m] = sync[m]
    BY <1>2, <2>1 DEF Typed, SyncState
  <2>4. Typed'
    BY <1>1, <1>2, <2>1, <2>2, <2>3 DEF Typed, lifeVars, diskVars
  <2>5. ASSUME NEW m \in Nodes, NEW q \in Nodes
        PROVE  cursor'[m][q] = cursor[m][q] \/ CursorOK(m, q)'
    <3>1. queue'[q] \in Seq(Name)
      BY <2>4 DEF Typed
    <3>2. 0 <= Len(queue'[q]) /\ 1..0 = {}
      BY <3>1
    <3>3. cursor'[m][q] = cursor[m][q] \/ cursor'[m][q] = 0
      BY <2>2
    <3> QED
      BY <3>2, <3>3 DEF CursorOK, Dealt
  <2>6. ListingOK(n, sync[n])'
    BY <2>3 DEF ListingOK
  <2> QED
    BY <1>1, <2>1, <2>3, <2>4, <2>5, <2>6, SameEnds, QuietKeeps DEF lifeVars, diskVars
<1>4. CASE ~Restarted(p)
  <2> DEFINE R == ToRead(n, p)
             s == [sync[n] EXCEPT
                     !.at = IF R # {} THEN "import" ELSE "loop",
                     !.names = R, !.life = life[p], !.next = cursor[n][p]]
  <2>1. /\ cursor' = cursor /\ sync' = [sync EXCEPT ![n] = s]
        /\ max_start' = [max_start EXCEPT ![n][p] =
                            IF max_start[n][p] < cursor[n][p] THEN NoMax ELSE max_start[n][p]]
        /\ missed' = [missed EXCEPT ![n] = @ \cup PassedOver(n, p)]
    BY <1>4 DEF Scan
  <2> HIDE DEF p
  <2>2. /\ queue[p] \in Seq(Name) /\ life[p] \in Nat \ {0} /\ cursor[n][p] \in Nat
        /\ Len(queue[p]) \in 0..Total /\ Total \in Nat
    <3>1. cursor[n][p] \in 0..Total
      BY <1>2 DEF Typed
    <3> QED
      BY <1>2, <3>1, Finite DEF FleetInv, Typed, QueueOK
  <2>3. R \in SUBSET Nat
    BY <2>2 DEF ToRead, Listing
  <2> HIDE DEF R
  <2>4. /\ s \in SyncState /\ s.at \in {"import", "loop"} /\ s.peer = p /\ s.names = R
        /\ s.life = life[p] /\ s.next = cursor[n][p]
        /\ s.at = "import" => R # {}
    BY <1>2, <2>2, <2>3 DEF SyncState, p
  <2> HIDE DEF s
  <2>5. /\ sync' \in [Nodes -> SyncState] /\ sync'[n] = s
        /\ \A m \in Nodes \ {n} : sync'[m] = sync[m]
    BY <1>2, <2>1, <2>4 DEF Typed
  <2>6. max_start' \in [Nodes -> [Nodes -> 0..Total \cup {NoMax}]]
    BY <1>2, <2>1 DEF Typed
  <2>7. /\ missed' \in [Nodes -> SUBSET Cases] /\ \A m \in Nodes : missed[m] \subseteq missed'[m]
        /\ PassedOver(n, p) \subseteq missed'[n]
    BY <1>2, <2>1, PassedType DEF Typed
  <2>8. Typed'
    BY <1>1, <1>2, <2>1, <2>5, <2>6, <2>7 DEF Typed, lifeVars, diskVars
  <2>9. ListingOK(n, sync[n])'
    <3>1. CASE R = {}
      BY <2>4, <2>5, <3>1 DEF ListingOK
    <3>2. CASE R # {}
      <4>0. PICK q \in Nodes : q = p
        BY <1>2
      <4>1. PICK c \in Nat : c = cursor[n][q]
        BY <2>2, <4>0
      <4>2. PICK names : names = R
        OBVIOUS
      <4>3. /\ names \subseteq DOMAIN queue[q] /\ IsFiniteSet(names) /\ Cardinality(names) \in Nat
            /\ c + Cardinality(names) <= Len(queue[q])
            /\ \A i \in 1..(c + Cardinality(names)) :
                 \/ i \in 1..c \/ i \in names
                 \/ i = Unlinked(q) /\ i \in (c + 2)..(Len(queue[q]) - 1)
        BY <3>2, <4>0, <4>1, <4>2, ToReadFacts DEF R
      <4>4. PICK k \in Nat : k = c + Cardinality(names)
        BY <4>3
      <4>5. PICK new \in SyncState : new = s
        BY <2>4
      <4>6. /\ new.at \in {"import", "loop"} /\ new.peer = q /\ new.names = names
            /\ new.life = life[q] /\ EndOf(new) = k
        BY <2>4, <4>0, <4>1, <4>2, <4>4, <4>5 DEF EndOf
      <4>7. ASSUME life[n] = 1, life[q] = 1 PROVE Dealt(n, q, k, names)'
        <5>1. \A i \in 1..c : queue[q][i].case \in known[n] \cup missed[n]
          BY <4>1, <4>7 DEF FleetInv, CursorOK, Dealt
        <5>2. \A i \in (c + 2)..(Len(queue[q]) - 1) :
                i = Unlinked(q) => queue[q][i].case \in missed'[n]
          BY <2>7, <4>0, <4>1 DEF PassedOver
        <5>3. queue' = queue /\ known' = known /\ missed[n] \subseteq missed'[n]
          BY <1>1, <2>7 DEF diskVars
        <5>4. \A i \in 1..k : i \in names \/ queue[q][i].case \in known[n] \cup missed'[n]
          BY <4>3, <4>4, <5>1, <5>2, <5>3
        <5> QED
          BY <5>3, <5>4 DEF Dealt
      <4>8. new.life \in 1..life[q] /\ k <= Total
        BY <2>2, <4>0, <4>3, <4>4, <4>6
      <4>9. life' = life /\ queue' = queue /\ k <= Len(queue[q])
        BY <1>1, <4>3, <4>4 DEF lifeVars, diskVars
      <4>10. ListingOK(n, new)'
        BY <4>3, <4>6, <4>7, <4>8, <4>9 DEF ListingOK
      <4> QED
        BY <2>5, <4>5, <4>10 DEF ListingOK, Dealt, EndOf
    <3> QED
      BY <3>1, <3>2
  <2> QED
    BY <1>1, <2>1, <2>5, <2>7, <2>8, <2>9, SameEnds, QuietKeeps DEF lifeVars, diskVars
<1> QED
  BY <1>3, <1>4

\* The cursor is written when the listing is worked off.
LEMMA CloseKeeps ==
    ASSUME FleetInv, NEW n \in Nodes, Close(n)
    PROVE  FleetInv'
<1> DEFINE p == sync[n].peer
           k == sync[n].next
           s == [Idle EXCEPT !.at = "loop", !.todo = sync[n].todo, !.synced = sync[n].synced,
                             !.entries = TRUE]
<1>1. /\ sync[n].at = "import" /\ sync[n].names = {}
      /\ cursor' = [cursor EXCEPT ![n][p] = k] /\ sync' = [sync EXCEPT ![n] = s]
      /\ UNCHANGED <<lifeVars, is_main, diskVars, max_start, missed>>
  BY DEF Close, CursorAfter
<1>2. /\ Typed /\ sync[n] \in SyncState /\ p \in Nodes /\ k \in Nat
      /\ life[p] \in Nat \ {0} /\ sync[n].life \in Nat
  BY <1>1 DEF FleetInv, Typed, ListingOK, SyncState
<1>3. /\ k <= Total /\ sync[n].life \in 1..life[p]
      /\ sync[n].life = life[p] => k <= Len(queue[p])
      /\ life[n] = 1 /\ life[p] = 1 => Dealt(n, p, k, {})
  <2>1. EndOf(sync[n]) = k
    BY <1>1, <1>2, FS_EmptySet DEF EndOf
  <2> QED
    BY <1>1, <2>1 DEF FleetInv, ListingOK
<1>4. s \in SyncState /\ s.at = "loop"
  BY <1>2, IdleFacts DEF SyncState
<1>5. k \in 0..Total
  BY <1>1, <1>2, <1>3, Finite
<1> HIDE DEF p, k, s
<1>6. /\ sync' \in [Nodes -> SyncState] /\ sync'[n].at = "loop"
      /\ \A m \in Nodes \ {n} : sync'[m] = sync[m]
  BY <1>1, <1>2, <1>4 DEF Typed
<1>7. /\ cursor' \in [Nodes -> [Nodes -> 0..Total]] /\ cursor'[n][p] = k
      /\ \A m, q \in Nodes : cursor'[m][q] = cursor[m][q] \/ (m = n /\ q = p)
  BY <1>1, <1>2, <1>5 DEF Typed
<1>8. Typed'
  BY <1>1, <1>2, <1>6, <1>7 DEF Typed, lifeVars, diskVars
<1>9. ListingOK(n, sync[n])'
  BY <1>6 DEF ListingOK
<1>10. ASSUME NEW m \in Nodes, NEW q \in Nodes
       PROVE  cursor'[m][q] = cursor[m][q] \/ CursorOK(m, q)'
  <2> SUFFICES ASSUME m = n, q = p, life[n] = 1, life[p] = 1
               PROVE  k <= Len(queue[p]) /\ Dealt(n, p, k, {})
    BY <1>1, <1>7 DEF CursorOK, Dealt, lifeVars, diskVars
  <2>1. sync[n].life = life[p]
    BY <1>2, <1>3
  <2> QED
    BY <1>3, <2>1
<1> QED
  BY <1>1, <1>6, <1>8, <1>9, <1>10, SameEnds, QuietKeeps DEF lifeVars, diskVars

\* The sync is over; a secondary that found no main node takes the office.
LEMMA SyncEndKeeps ==
    ASSUME FleetInv, NEW n \in Nodes, SyncEnd(n)
    PROVE  FleetInv'
<1>1. /\ is_main' = [is_main EXCEPT ![n] = @ \/ Elected(n)]
      /\ marker' = [marker EXCEPT ![n] = @ \/ Elected(n)]
      /\ sync' = [sync EXCEPT ![n] = Idle]
      /\ UNCHANGED <<lifeVars, queue, flux, gone, known, trims, cursor, max_start, missed>>
  BY DEF SyncEnd
<1>2. /\ sync' \in [Nodes -> SyncState]
      /\ \A m \in Nodes : sync'[m] = sync[m] \/ sync'[m].at = "idle"
  BY <1>1, IdleFacts DEF FleetInv, Typed
<1>3. is_main' \in [Nodes -> BOOLEAN] /\ marker' \in [Nodes -> BOOLEAN]
  BY <1>1 DEF FleetInv, Typed
<1>4. Typed'
  BY <1>1, <1>2, <1>3 DEF FleetInv, Typed, lifeVars
<1> QED
  BY <1>1, <1>2, <1>4, SameEnds, IdleKeeps DEF lifeVars

\* A second passes.
LEMMA TickKeeps ==
    ASSUME FleetInv, NEW n \in Nodes, Tick(n)
    PROVE  FleetInv'
<1>1. /\ fresh' = [fresh EXCEPT ![n] = FALSE]
      /\ UNCHANGED <<fleet, alive, life, is_main, diskVars, cursor, max_start, sync, missed>>
  BY DEF Tick
<1>2. Typed'
  BY <1>1 DEF FleetInv, Typed, diskVars
<1> QED
  BY <1>1, <1>2, SameEnds, IdleKeeps DEF diskVars

\* An instance ends, in whatever way: what it has not written is lost with the listing.
LEMMA EndKeeps ==
    ASSUME FleetInv, NEW n \in Nodes, Exit(n) \/ Die(n)
    PROVE  FleetInv'
<1>1. /\ Ends < fleet.ends /\ alive' = [alive EXCEPT ![n] = FALSE]
      /\ sync' = [sync EXCEPT ![n] = Idle]
      /\ marker' \in {marker, [marker EXCEPT ![n] = @ /\ ~is_main[n]]}
      /\ UNCHANGED <<fleet, life, fresh, is_main, queue, flux, gone, known, trims, cursor,
                     max_start, missed>>
  BY DEF Exit, Die, diskVars
<1>2. /\ sync' \in [Nodes -> SyncState]
      /\ \A m \in Nodes : sync'[m] = sync[m] \/ sync'[m].at = "idle"
  BY <1>1, IdleFacts DEF FleetInv, Typed
<1>3. alive' \in [Nodes -> BOOLEAN] /\ marker' \in [Nodes -> BOOLEAN]
  BY <1>1 DEF FleetInv, Typed
<1>4. Typed /\ Typed'
  BY <1>1, <1>2, <1>3 DEF FleetInv, Typed
<1>5. (Ends <= fleet.ends)'
  BY <1>1, <1>4, EndCounts
<1> QED
  BY <1>1, <1>2, <1>4, <1>5, IdleKeeps

--------------------------------------------------------------------------------
(* Steps that add or remove files                                           *)

\* A new file in the queue of n.
LEMMA FileAdded ==
    ASSUME FleetInv, NEW n \in Nodes, NEW c \in Cases \ known[n], NEW from \in Nodes \cup {NoNode},
           from \in Nodes /\ life[from] = 1 => c \in known[from],
           known' = [known EXCEPT ![n] = @ \cup {c}],
           queue' = [queue EXCEPT ![n] = Append(@, [case |-> c, from |-> from])],
           life' = life, \A m \in Nodes : missed[m] \subseteq missed'[m]
    PROVE  /\ known' \in [Nodes -> SUBSET Cases] /\ queue' \in [Nodes -> Seq(Name)]
           /\ Len(queue'[n]) \in 0..Total /\ Evolves
           /\ \A m \in Nodes : QueueOK(m)'
           /\ \A m, q \in Nodes : FromOK(m, q)'
<1>1. PICK x \in Name : x = [case |-> c, from |-> from]
  BY DEF Name
<1>2. x.case = c /\ x.from = from
  BY <1>1
<1>3. /\ known \in [Nodes -> SUBSET Cases] /\ queue \in [Nodes -> Seq(Name)]
      /\ queue[n] \in Seq(Name)
  BY DEF FleetInv, Typed
<1>4. /\ known'[n] = known[n] \cup {c}
      /\ \A m \in Nodes \ {n} : known'[m] = known[m] /\ queue'[m] = queue[m]
      /\ queue'[n] = Append(queue[n], x)
  BY <1>1, <1>3
<1>5. known' \in [Nodes -> SUBSET Cases] /\ queue' \in [Nodes -> Seq(Name)]
  BY <1>1, <1>3
<1>6. /\ Len(queue'[n]) = Len(queue[n]) + 1 /\ Len(queue[n]) \in Nat
      /\ DOMAIN queue'[n] = DOMAIN queue[n] \cup {Len(queue[n]) + 1}
      /\ \A i \in DOMAIN queue[n] : queue'[n][i] = queue[n][i]
      /\ queue'[n][Len(queue[n]) + 1] = x
  BY <1>3, <1>4
<1>7. Cardinality(known'[n]) = Cardinality(known[n]) + 1
  BY <1>3, <1>4, Finite, FS_AddElement
<1>8. QueueOK(n)
  BY DEF FleetInv
<1>9. Len(queue'[n]) = Cardinality(known'[n])
  BY <1>6, <1>7, <1>8 DEF QueueOK
<1>10. Len(queue'[n]) \in 0..Total
  BY <1>5, <1>9, Finite
<1>11. ASSUME NEW m \in Nodes PROVE QueueOK(m)'
  <2>1. CASE m = n
    BY <1>2, <1>4, <1>6, <1>8, <1>9, <2>1 DEF QueueOK
  <2>2. CASE m # n
    BY <1>4, <2>2 DEF FleetInv, QueueOK
  <2> QED
    BY <2>1, <2>2
<1>12. Evolves
  <2>1. \A m \in Nodes : Len(queue[m]) \in Nat
    BY <1>3
  <2> QED
    BY <1>4, <1>6, <2>1 DEF Evolves
<1>13. ASSUME NEW m \in Nodes, NEW q \in Nodes PROVE FromOK(m, q)'
  <2> SUFFICES ASSUME life[q] = 1, NEW i \in DOMAIN queue'[m], queue'[m][i].from = q
               PROVE  queue'[m][i].case \in known'[q]
    BY DEF FromOK
  <2>1. known[q] \subseteq known'[q]
    BY <1>12 DEF Evolves
  <2>2. CASE i \in DOMAIN queue[m]
    <3>1. queue'[m][i] = queue[m][i]
      BY <1>12, <2>2 DEF Evolves
    <3> QED
      BY <2>1, <2>2, <3>1 DEF FleetInv, FromOK
  <2>3. CASE i \notin DOMAIN queue[m]
    <3>1. m = n /\ queue'[m][i] = x
      BY <1>4, <1>6, <2>3
    <3> QED
      BY <1>2, <2>1, <3>1
  <2> QED
    BY <2>2, <2>3
<1> QED
  BY <1>5, <1>10, <1>11, <1>12, <1>13

\* A new test case is saved.
LEMMA FindKeeps ==
    ASSUME FleetInv, NEW n \in Nodes, Find(n)
    PROVE  FleetInv'
<1>1. PICK c \in fleet.cases[n] \ known[n] :
         /\ known' = [known EXCEPT ![n] = @ \cup {c}]
         /\ queue' = [queue EXCEPT ![n] = Append(@, [case |-> c, from |-> NoNode])]
  BY DEF Find
<1>2. /\ flux' = [flux EXCEPT ![n] = Len(queue'[n])]
      /\ UNCHANGED <<lifeVars, is_main, marker, gone, trims, cursor, max_start, sync, missed>>
  BY DEF Find
<1>3. c \in Cases \ known[n] /\ NoNode \notin Nodes
  BY SyncAssumption DEF FleetInv, Typed, Fleet
<1>4. /\ known' \in [Nodes -> SUBSET Cases] /\ queue' \in [Nodes -> Seq(Name)]
      /\ Len(queue'[n]) \in 0..Total /\ Evolves
      /\ \A m \in Nodes : QueueOK(m)'
      /\ \A m, q \in Nodes : FromOK(m, q)'
  <2>1. PICK from \in Nodes \cup {NoNode} : from = NoNode
    OBVIOUS
  <2>2. life' = life /\ \A m \in Nodes : missed[m] \subseteq missed'[m]
    BY <1>2 DEF lifeVars
  <2> QED
    BY <1>1, <1>3, <2>1, <2>2, FileAdded
<1>5. Typed'
  BY <1>2, <1>4 DEF FleetInv, Typed, lifeVars
<1>6. ListingOK(n, sync[n])'
  <2>1. PICK s \in SyncState : s = sync[n] /\ s = sync'[n]
    BY <1>2 DEF FleetInv, Typed
  <2>2. ListingOK(n, s)'
    BY <1>4, <1>5, <2>1, ListingStays DEF FleetInv
  <2> QED
    BY <2>1, <2>2 DEF ListingOK, Dealt, EndOf
<1> QED
  BY <1>2, <1>4, <1>5, <1>6, SameEnds, EvolveKeeps DEF lifeVars

\* One file of the listing: afterwards its test case is known, or was met in flux.
LEMMA ImportKeeps ==
    ASSUME FleetInv, NEW n \in Nodes, Import(n)
    PROVE  FleetInv'
<1> DEFINE p     == sync[n].peer
           i     == Min(sync[n].names)
           name  == queue[p][i]
           same  == life[p] = sync[n].life
           there == same /\ flux[p] # i
           want  == Wanted(n, p, sync[n].next + 1, name)
           keep  == there /\ want /\ name.case \notin known[n]
           s     == [sync[n] EXCEPT !.names = sync[n].names \ {i}, !.next = sync[n].next + 1]
<1>1. /\ sync[n].at = "import" /\ sync[n].names # {}
      /\ missed' = IF same /\ ~there THEN [missed EXCEPT ![n] = @ \cup {name.case}] ELSE missed
      /\ known' = IF keep THEN [known EXCEPT ![n] = @ \cup {name.case}] ELSE known
      /\ queue' = IF keep THEN [queue EXCEPT ![n] = Append(@, [case |-> name.case, from |-> p])]
                  ELSE queue
      /\ flux' = IF keep THEN [flux EXCEPT ![n] = Len(queue'[n])] ELSE flux
      /\ sync' = [sync EXCEPT ![n] = s]
      /\ UNCHANGED <<lifeVars, is_main, marker, gone, trims, cursor, max_start>>
  BY DEF Import
<1>2. /\ Typed /\ sync[n] \in SyncState /\ p \in Nodes /\ sync[n].names \in SUBSET Nat
      /\ sync[n].next \in Nat /\ life[p] \in Nat \ {0} /\ sync[n].life \in Nat
  BY <1>1 DEF FleetInv, Typed, ListingOK, SyncState
<1>3. i \in sync[n].names /\ i \in Nat
  <2>1. \E x \in sync[n].names : \A y \in sync[n].names : x <= y
    BY <1>1, <1>2, LeastOf
  <2> QED
    BY <1>2, <2>1 DEF Min
<1>4. ListingOK(n, sync[n])
  BY DEF FleetInv
<1> HIDE DEF i
<1>5. same => i \in DOMAIN queue[p] /\ name \in Name /\ name.case \in Cases
  <2>1. same => i \in DOMAIN queue[p]
    BY <1>1, <1>3, <1>4 DEF ListingOK
  <2>2. queue[p] \in Seq(Name)
    BY <1>2 DEF Typed
  <2>3. same => name \in Name
    BY <2>1, <2>2
  <2> QED
    BY <2>1, <2>3 DEF Name
<1>6. /\ s \in SyncState /\ s.at = "import" /\ s.peer = p /\ s.names = sync[n].names \ {i}
      /\ s.life = sync[n].life /\ s.next = sync[n].next + 1
  <2> HIDE DEF p
  <2>1. sync[n].names \ {i} \in SUBSET Nat /\ sync[n].next + 1 \in Nat
    BY <1>2
  <2>2. s \in SyncState
    BY <1>2, <2>1 DEF SyncState
  <2> QED
    BY <1>1, <1>2, <2>2 DEF SyncState, p
<1> HIDE DEF s, want
<1>7. /\ sync' \in [Nodes -> SyncState] /\ sync'[n] = s
      /\ \A m \in Nodes \ {n} : sync'[m] = sync[m]
  BY <1>1, <1>2, <1>6 DEF Typed
<1>8. /\ missed' \in [Nodes -> SUBSET Cases] /\ \A m \in Nodes : missed[m] \subseteq missed'[m]
      /\ same /\ ~there => name.case \in missed'[n]
  <2> HIDE DEF same, there, name
  <2> QED
    BY <1>1, <1>2, <1>5 DEF Typed
<1>9. /\ known' \in [Nodes -> SUBSET Cases] /\ queue' \in [Nodes -> Seq(Name)]
      /\ flux' \in [Nodes -> 0..Total] /\ Evolves
      /\ \A m \in Nodes : QueueOK(m)'
      /\ \A m, q \in Nodes : FromOK(m, q)'
      /\ keep => name.case \in known'[n]
  <2>1. CASE keep
    <3>1. PICK c \in Cases \ known[n] : c = name.case
      BY <1>5, <2>1
    <3>2. c \in known[p]
      BY <1>2, <1>5, <2>1, <3>1 DEF FleetInv, QueueOK
    <3>3. PICK from \in Nodes : from = p
      BY <1>2
    <3>4. /\ known' = [known EXCEPT ![n] = @ \cup {c}]
          /\ queue' = [queue EXCEPT ![n] = Append(@, [case |-> c, from |-> from])]
          /\ flux' = [flux EXCEPT ![n] = Len(queue'[n])] /\ life' = life
      BY <1>1, <2>1, <3>1, <3>3 DEF lifeVars
    <3>5. /\ known' \in [Nodes -> SUBSET Cases] /\ queue' \in [Nodes -> Seq(Name)]
          /\ Len(queue'[n]) \in 0..Total /\ Evolves
          /\ \A m \in Nodes : QueueOK(m)'
          /\ \A m, q \in Nodes : FromOK(m, q)'
      BY <1>8, <3>2, <3>3, <3>4, FileAdded
    <3>6. c \in known'[n] /\ flux' \in [Nodes -> 0..Total]
      BY <1>2, <3>4, <3>5 DEF Typed
    <3> QED
      BY <3>1, <3>5, <3>6
  <2>2. CASE ~keep
    <3>1. UNCHANGED <<life, known, queue, flux>>
      BY <1>1, <2>2 DEF lifeVars
    <3>2. \A m \in Nodes : queue[m] \in Seq(Name)
      BY <1>2 DEF Typed
    <3>3. Evolves
      BY <1>8, <3>1, <3>2 DEF Evolves
    <3>4. \A m \in Nodes : QueueOK(m)'
      BY <3>1 DEF FleetInv, QueueOK
    <3>5. \A m, q \in Nodes : FromOK(m, q)'
      BY <3>1 DEF FleetInv, FromOK
    <3> QED
      BY <1>2, <2>2, <3>1, <3>3, <3>4, <3>5 DEF Typed
  <2> QED
    BY <2>1, <2>2
<1>10. Typed'
  BY <1>1, <1>2, <1>7, <1>8, <1>9 DEF Typed, lifeVars
<1>11. life[n] = 1 /\ life[p] = 1 => same /\ name.case \in known'[n] \cup missed'[n]
  <2> SUFFICES ASSUME life[n] = 1, life[p] = 1
               PROVE  same /\ name.case \in known'[n] \cup missed'[n]
    OBVIOUS
  <2>1. same
    BY <1>1, <1>2, <1>4 DEF ListingOK
  <2>2. known[n] \subseteq known'[n]
    BY <1>9 DEF Evolves
  <2>3. CASE ~there \/ keep
    BY <1>8, <1>9, <2>1, <2>3
  <2>4. CASE name.case \in known[n]
    BY <2>1, <2>2, <2>4
  <2>5. CASE ~want
    <3>1. name.from = n
      BY <2>5 DEF want, Wanted
    <3> QED
      BY <1>2, <1>5, <2>1, <2>2, <3>1 DEF FleetInv, FromOK
  <2> QED
    BY <2>3, <2>4, <2>5
<1>12. ListingOK(n, sync[n])'
  <2>1. PICK old \in SyncState : old = sync[n]
    BY <1>2
  <2>2. ListingOK(n, old)'
    BY <1>2, <1>4, <1>9, <1>10, <2>1, ListingStays
  <2>3. PICK new \in SyncState : new = sync'[n]
    BY <1>6, <1>7
  <2>4. PICK q \in Nodes, x \in Nat : q = p /\ x = i
    BY <1>2, <1>3
  <2>5. /\ new.at = "import" /\ old.at = "import" /\ new.peer = q /\ old.peer = q
        /\ x \in old.names /\ new.names = old.names \ {x} /\ new.life = old.life
        /\ new.next = old.next + 1 /\ old.next \in Nat
    BY <1>1, <1>2, <1>3, <1>6, <1>7, <2>1, <2>3, <2>4
  <2>6. IsFiniteSet(old.names) /\ IsFiniteSet(new.names) /\ EndOf(new) = EndOf(old)
    <3>1. IsFiniteSet(old.names)
      BY <2>2, <2>5 DEF ListingOK
    <3>2. /\ IsFiniteSet(new.names) /\ Cardinality(new.names) = Cardinality(old.names) - 1
          /\ Cardinality(old.names) \in Nat
      BY <2>5, <3>1, FS_RemoveElement, FS_CardinalityType
    <3> QED
      BY <2>5, <3>1, <3>2 DEF EndOf
  <2>7. life'[n] = 1 /\ life'[q] = 1 => queue'[q][x].case \in known'[n] \cup missed'[n]
    <3> SUFFICES ASSUME life'[n] = 1, life'[q] = 1
                 PROVE  queue'[q][x].case \in known'[n] \cup missed'[n]
      OBVIOUS
    <3>1. same /\ name.case \in known'[n] \cup missed'[n]
      BY <1>1, <1>11, <2>4 DEF lifeVars
    <3>2. queue'[q][x] = name
      BY <1>5, <1>9, <2>4, <3>1 DEF Evolves
    <3> QED
      BY <3>1, <3>2
  <2> HIDE DEF p, name, same, there, keep
  <2>8. ListingOK(n, new)'
    <3>1. life'[n] = 1 /\ life'[q] = 1 => Dealt(n, q, EndOf(old), old.names)'
      BY <2>2, <2>5 DEF ListingOK
    <3>2. life'[n] = 1 /\ life'[q] = 1 => Dealt(n, q, EndOf(new), new.names)'
      BY <2>5, <2>6, <2>7, <3>1 DEF Dealt
    <3> QED
      BY <2>2, <2>5, <2>6, <3>2 DEF ListingOK
  <2> QED
    BY <2>3, <2>8 DEF ListingOK, Dealt, EndOf
<1> QED
  BY <1>1, <1>7, <1>9, <1>10, <1>12, SameEnds, EvolveKeeps DEF lifeVars

\* An instance starts anew with an empty queue: nobody's cursor or name speaks of its
\* earlier life, and a listing of the queue it had is recognised by its age.
LEMMA StartKeeps ==
    ASSUME FleetInv, NEW n \in Nodes, Start(n)
    PROVE  FleetInv'
<1>1. /\ n \in fleet.nodes /\ ~alive[n] /\ fleet' = fleet
      /\ alive' = [alive EXCEPT ![n] = TRUE] /\ life' = [life EXCEPT ![n] = @ + 1]
      /\ fresh' = [fresh EXCEPT ![n] = TRUE]
      /\ queue' = [queue EXCEPT ![n] = <<>>] /\ flux' = [flux EXCEPT ![n] = 0]
      /\ known' = [known EXCEPT ![n] = {}] /\ missed' = [missed EXCEPT ![n] = {}]
      /\ gone' = [gone EXCEPT ![n] = FALSE] /\ trims' = [trims EXCEPT ![n] = 0]
      /\ cursor' = [cursor EXCEPT ![n] = [p \in Nodes |-> 0]]
      /\ max_start' = [max_start EXCEPT ![n] = [p \in Nodes |->
            IF p # n /\ Listing(p) # {} THEN Cardinality(Listing(p)) - 1 ELSE NoMax]]
      /\ sync' = [sync EXCEPT ![n] = Idle]
  BY DEF Start
<1>2. Typed /\ Total \in Nat
  BY Finite DEF FleetInv
<1>3. is_main' \in [Nodes -> BOOLEAN] /\ marker' \in [Nodes -> BOOLEAN]
  BY <1>2 DEF Start, Typed
<1>4. max_start' \in [Nodes -> [Nodes -> 0..Total \cup {NoMax}]]
  <2>1. ASSUME NEW p \in Nodes, Listing(p) # {} PROVE Cardinality(Listing(p)) - 1 \in 0..Total
    <3>1. queue[p] \in Seq(Name) /\ Len(queue[p]) \in 0..Total
      BY Finite DEF FleetInv, Typed, QueueOK
    <3>2. /\ IsFiniteSet(1..Len(queue[p])) /\ Cardinality(1..Len(queue[p])) = Len(queue[p])
      BY <3>1, FS_Interval
    <3>3. Listing(p) \subseteq 1..Len(queue[p])
      BY <3>1 DEF Listing
    <3>4. IsFiniteSet(Listing(p)) /\ Cardinality(Listing(p)) <= Len(queue[p])
      BY <3>2, <3>3, FS_Subset
    <3>5. Cardinality(Listing(p)) \in Nat \ {0}
      BY <2>1, <3>4, FS_CardinalityType, FS_EmptySet
    <3> QED
      BY <1>2, <3>1, <3>4, <3>5
  <2>2. [p \in Nodes |-> IF p # n /\ Listing(p) # {} THEN Cardinality(Listing(p)) - 1 ELSE NoMax]
           \in [Nodes -> 0..Total \cup {NoMax}]
    BY <2>1
  <2> QED
    BY <1>1, <1>2, <2>2 DEF Typed
<1>5. Typed'
  <2>1. /\ life' \in [Nodes -> Nat \ {0}] /\ flux' \in [Nodes -> 0..Total]
        /\ trims' \in [Nodes -> 0..fleet.trims] /\ alive' \in [Nodes -> BOOLEAN]
        /\ fresh' \in [Nodes -> BOOLEAN] /\ gone' \in [Nodes -> BOOLEAN]
    BY <1>1, <1>2, Finite DEF Typed
  <2>2. /\ queue' \in [Nodes -> Seq(Name)] /\ known' \in [Nodes -> SUBSET Cases]
        /\ missed' \in [Nodes -> SUBSET Cases]
    BY <1>1, <1>2 DEF Typed
  <2>3. cursor' \in [Nodes -> [Nodes -> 0..Total]] /\ sync' \in [Nodes -> SyncState]
    BY <1>1, <1>2, IdleFacts DEF Typed
  <2> QED
    BY <1>1, <1>2, <1>3, <1>4, <2>1, <2>2, <2>3 DEF Typed
<1>6. (Ends <= fleet.ends)'
  BY <1>1, <1>2, <1>5, StartCounts DEF FleetInv
<1>7. /\ life[n] \in Nat \ {0} /\ life'[n] = life[n] + 1 /\ life'[n] # 1
      /\ queue'[n] = <<>> /\ known'[n] = {} /\ sync'[n] = Idle
      /\ \A m \in Nodes \ {n} :
           /\ life'[m] = life[m] /\ queue'[m] = queue[m] /\ known'[m] = known[m]
           /\ missed'[m] = missed[m] /\ cursor'[m] = cursor[m] /\ sync'[m] = sync[m]
  <2>1. life[n] \in Nat \ {0} /\ life'[n] = life[n] + 1
    BY <1>1, <1>2 DEF Typed
  <2>2. life'[n] # 1
    BY <2>1
  <2> QED
    BY <1>1, <1>2, <2>1, <2>2 DEF Typed
<1>8. ASSUME NEW m \in Nodes PROVE QueueOK(m)'
  <2>1. CASE m = n
    <3>1. Cardinality({}) = 0 /\ Len(<<>>) = 0 /\ DOMAIN <<>> = {}
      BY FS_EmptySet
    <3>2. queue'[m] = <<>> /\ known'[m] = {}
      BY <1>7, <2>1
    <3>3. Len(queue'[m]) = Cardinality(known'[m]) /\ DOMAIN queue'[m] = {}
      BY <3>1, <3>2
    <3> QED
      BY <3>3 DEF QueueOK
  <2>2. CASE m # n
    BY <1>7, <2>2 DEF FleetInv, QueueOK
  <2> QED
    BY <2>1, <2>2
<1>9. ASSUME NEW m \in Nodes, NEW q \in Nodes PROVE FromOK(m, q)'
  <2>1. CASE m = n
    BY <1>7, <2>1 DEF FromOK
  <2>2. CASE m # n /\ q = n
    BY <1>7, <2>2 DEF FromOK
  <2>3. CASE m # n /\ q # n
    BY <1>7, <2>3 DEF FleetInv, FromOK
  <2> QED
    BY <2>1, <2>2, <2>3
<1>10. ASSUME NEW m \in Nodes, NEW q \in Nodes PROVE CursorOK(m, q)'
  <2>1. CASE m = n \/ q = n
    BY <1>7, <2>1 DEF CursorOK
  <2>2. CASE m # n /\ q # n
    BY <1>7, <2>2 DEF FleetInv, CursorOK, Dealt
  <2> QED
    BY <2>1, <2>2
<1>11. ASSUME NEW m \in Nodes PROVE ListingOK(m, sync[m])'
  <2>1. CASE m = n
    BY <1>7, <2>1, IdleFacts DEF ListingOK
  <2>2. CASE m # n
    <3>1. PICK s \in SyncState : s = sync[m] /\ s = sync'[m]
      BY <1>2, <1>7, <2>2 DEF Typed
    <3>2. ListingOK(m, s) /\ s.life \in Nat
      BY <3>1 DEF FleetInv, SyncState
    <3>3. CASE s.at # "import" \/ s.peer # n
      BY <1>7, <2>2, <3>1, <3>2, <3>3 DEF ListingOK, Dealt, EndOf
    <3>4. CASE s.at = "import" /\ s.peer = n
      <4>1. IsFiniteSet(s.names) /\ EndOf(s) <= Total /\ s.life \in 1..life[n]
        BY <3>2, <3>4 DEF ListingOK
      <4>2. s.life \in 1..life'[n] /\ s.life # life'[n]
        BY <1>7, <3>2, <4>1
      <4> QED
        BY <1>7, <3>1, <3>4, <4>1, <4>2 DEF ListingOK, EndOf
    <3> QED
      BY <3>3, <3>4
  <2> QED
    BY <2>1, <2>2
<1> QED
  BY <1>5, <1>6, <1>8, <1>9, <1>10, <1>11 DEF FleetInv

--------------------------------------------------------------------------------
(* The theorems                                                             *)

\* In the beginning nobody has ended.
LEMMA InitKeeps == Init => FleetInv
<1> SUFFICES ASSUME Init PROVE FleetInv
  OBVIOUS
<1>1. fleet \in Fleets /\ fleet.ends \in Nat /\ fleet.trims \in Nat /\ Total \in Nat
  BY Finite DEF Init
<1>2. Typed
  <2>1. /\ trims = [n \in Nodes |-> 0] /\ flux = trims /\ cursor = [n \in Nodes |-> trims]
        /\ life = [n \in Nodes |-> 1] /\ queue = [n \in Nodes |-> <<>>]
        /\ known = [n \in Nodes |-> {}] /\ missed = known
        /\ max_start = [n \in Nodes |-> [p \in Nodes |-> NoMax]]
        /\ sync = [n \in Nodes |-> Idle]
    BY DEF Init
  <2>2. /\ alive \in [Nodes -> BOOLEAN] /\ fresh \in [Nodes -> BOOLEAN]
        /\ is_main \in [Nodes -> BOOLEAN] /\ marker \in [Nodes -> BOOLEAN]
        /\ gone \in [Nodes -> BOOLEAN]
    BY DEF Init
  <2>3. /\ trims \in [Nodes -> 0..fleet.trims] /\ flux \in [Nodes -> 0..Total]
        /\ cursor \in [Nodes -> [Nodes -> 0..Total]] /\ life \in [Nodes -> Nat \ {0}]
    BY <1>1, <2>1
  <2>4. /\ queue \in [Nodes -> Seq(Name)] /\ known \in [Nodes -> SUBSET Cases]
        /\ missed \in [Nodes -> SUBSET Cases] /\ sync \in [Nodes -> SyncState]
        /\ max_start \in [Nodes -> [Nodes -> 0..Total \cup {NoMax}]]
    BY <2>1, IdleFacts
  <2> QED
    BY <1>1, <2>2, <2>3, <2>4 DEF Typed
<1>3. Ends <= fleet.ends
  <2>1. Down = {} /\ Restarts = [n \in Nodes |-> 0]
    <3>1. Down = {}
      BY <1>1, Finite DEF Init, Down
    <3> QED
      BY <3>1 DEF Init, Restarts
  <2>2. SumFunctionOnSet(Restarts, Nodes) = 0
    BY <2>1, Finite, SumZero
  <2> QED
    BY <1>1, <1>2, <2>1, <2>2, EndsFacts, FS_EmptySet
<1>4. ASSUME NEW n \in Nodes
      PROVE  QueueOK(n) /\ ListingOK(n, sync[n]) /\ \A m \in Nodes : FromOK(n, m) /\ CursorOK(n, m)
  <2>1. /\ queue[n] = <<>> /\ known[n] = {} /\ sync[n] = Idle
        /\ \A m \in Nodes : cursor[n][m] = 0 /\ queue[m] = <<>>
    BY DEF Init
  <2>2. QueueOK(n) /\ \A m \in Nodes : FromOK(n, m)
    BY <2>1, FS_EmptySet DEF QueueOK, FromOK
  <2>3. ListingOK(n, sync[n])
    BY <2>1, IdleFacts DEF ListingOK
  <2>4. \A m \in Nodes : CursorOK(n, m)
    BY <2>1 DEF CursorOK, Dealt
  <2> QED
    BY <2>2, <2>3, <2>4
<1> QED
  BY <1>2, <1>3, <1>4 DEF FleetInv

\* The invariant holds throughout, however many instances run, end and start anew.
THEOREM FleetHolds == Spec => []FleetInv
<1>1. FleetInv /\ [Next]_vars => FleetInv'
  <2> SUFFICES ASSUME FleetInv, [Next]_vars PROVE FleetInv'
    OBVIOUS
  <2>1. CASE UNCHANGED vars
    BY <2>1 DEF FleetInv, Typed, Ends, QueueOK, FromOK, Dealt, EndOf, ListingOK,
                CursorOK, vars, lifeVars, diskVars
  <2>2. CASE Next
    BY <2>2, FindKeeps, FluxKeeps, SyncStartKeeps, LookKeeps, UnlinkKeeps, ScanKeeps, ImportKeeps,
       CloseKeeps, SyncEndKeeps, StartKeeps, TickKeeps, EndKeeps DEF Next
  <2> QED
    BY <2>1, <2>2
<1> QED
  BY <1>1, InitKeeps, PTL DEF Spec

\* sync_fuzzers() never moves a cursor over a file it has not dealt with: as long as
\* neither side is started anew, what lies before a cursor is known or was in flux.
THEOREM CursorsCorrect == Spec => []CursorsSound
<1>1. FleetInv => CursorsSound
  <2> SUFFICES ASSUME FleetInv PROVE CursorsSound
    OBVIOUS
  <2>1. Typed /\ Ends <= fleet.ends
    BY DEF FleetInv
  <2>2. life \in [Nodes -> 1..(fleet.ends + 1)]
    BY <2>1, LifeBound DEF Typed
  <2>3. TypeOK
    <3>1. \A n \in Nodes : sync[n].at \in {"idle", "loop", "unlink", "scan", "import"}
      BY <2>1 DEF Typed, SyncState
    <3>2. {alive, fresh, is_main, marker, gone} \subseteq [Nodes -> BOOLEAN]
      BY <2>1 DEF Typed
    <3> QED
      BY <2>1, <2>2, <3>1, <3>2 DEF TypeOK, Typed, Total, Name
  <2>4. CursorIsHonest
    BY DEF CursorIsHonest, FleetInv, CursorOK, Dealt
  <2> QED
    BY <2>3, <2>4 DEF CursorsSound
<1> QED
  BY <1>1, FleetHolds, PTL

================================================================================
