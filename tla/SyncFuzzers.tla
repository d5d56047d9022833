------------------------------ MODULE SyncFuzzers ------------------------------
(***************************************************************************)
(* Several afl-fuzz instances that share a sync directory: sync_fuzzers(), *)
(* check_sync_fuzzers(), and the is_main_node files by which a main node   *)
(* is found or elected.  There are no messages and no locks: an instance   *)
(* reads the directories of the others while they write them, keeps a      *)
(* cursor per peer, and may exit, be killed or be started anew.            *)
(*                                                                         *)
(* A test case is its coverage: save_if_interesting() keeps it if it is    *)
(* not known yet.  A queue file is complete or in flux: created and not    *)
(* yet written, or unlinked by trim_case() and so absent from a listing.   *)
(* File times have a resolution of a second, during which an instance that *)
(* has just started is "fresh".                                            *)
(***************************************************************************)
EXTENDS Naturals, Sequences, FiniteSets, FiniteSetsExt, Functions

CONSTANTS
    Nodes,     \* the instances, numbered in the order readdir() lists them
    Mains,     \* the ones started with -M; the others are secondaries
    NoNode,
    Cases,     \* test cases, each with coverage of its own
    Fleets     \* what to explore: see Fleet

\* Some instances, the test cases each may find, and the bounds on exits and deaths
\* of all together and on the files one of them rewrites.
Fleet == [nodes : SUBSET Nodes, cases : [Nodes -> SUBSET Cases], ends : Nat, trims : Nat]

ASSUME SyncAssumption ==
    /\ Nodes \subseteq Nat /\ Mains \subseteq Nodes /\ Mains # {} /\ NoNode \notin Nodes
    /\ IsFiniteSet(Nodes) /\ IsFiniteSet(Cases) /\ Fleets \subseteq Fleet

VARIABLES
    fleet,
    \* per instance: running or not, how often started, started in this second,
    \* files rewritten
    alive, life, fresh, trims,
    \* is_main_node of afl_state_t, and the file of that name in its directory
    is_main, marker,
    \* the files in queue/ with the peer in their name, if any; the one in flux (by its
    \* position), and whether that one is unlinked
    queue, flux, gone,
    \* the coverage an instance has in this life
    known,
    \* .synced/<peer>, .synced/<peer>.max
    cursor, max_start,
    \* sync_fuzzers(): where each instance is in it
    sync,
    \* history: what an instance passed over because the file was in flux
    missed

diskVars == <<marker, queue, flux, gone, known, trims>>
lifeVars == <<fleet, alive, life, fresh>>
vars     == <<lifeVars, is_main, diskVars, cursor, max_start, sync, missed>>

NoMax == 99
Idle  == [at |-> "idle", todo |-> {}, synced |-> FALSE, entries |-> FALSE,
          peer |-> NoNode, names |-> {}, life |-> 0, next |-> 0]

Secondary(n)  == n \notin Mains
Others(n)     == fleet.nodes \ {n}   \* the directories of the peers
Free(n)       == alive[n] /\ sync[n].at = "idle" /\ flux[n] = 0
Unlinked(p)   == IF gone[p] THEN flux[p] ELSE 0
Listing(p)    == DOMAIN queue[p] \ {Unlinked(p)}   \* what readdir() gives, by position

--------------------------------------------------------------------------------
(* Fuzzing: what the peers can see of it                                    *)

\* save_if_interesting(): the file is created, then written.
Find(n) ==
    /\ Free(n)
    /\ \E c \in fleet.cases[n] \ known[n] :
          /\ known' = [known EXCEPT ![n] = @ \cup {c}]
          /\ queue' = [queue EXCEPT ![n] = Append(@, [case |-> c, from |-> NoNode])]
    /\ flux' = [flux EXCEPT ![n] = Len(queue'[n])]
    /\ UNCHANGED <<lifeVars, is_main, marker, gone, trims, cursor, max_start, sync, missed>>

\* trim_case() unlinks a file, creates it again and writes it.
Trim(n) ==
    /\ Free(n) /\ trims[n] < fleet.trims
    /\ \E i \in DOMAIN queue[n] : flux' = [flux EXCEPT ![n] = i]
    /\ gone' = [gone EXCEPT ![n] = TRUE]
    /\ trims' = [trims EXCEPT ![n] = @ + 1]
    /\ UNCHANGED <<lifeVars, is_main, marker, queue, known, cursor, max_start, sync, missed>>

Created(n) ==
    /\ alive[n] /\ gone[n]
    /\ gone' = [gone EXCEPT ![n] = FALSE]
    /\ UNCHANGED <<lifeVars, is_main, marker, queue, flux, known, trims, cursor, max_start,
                   sync, missed>>

Written(n) ==
    /\ alive[n] /\ flux[n] # 0 /\ ~gone[n]
    /\ flux' = [flux EXCEPT ![n] = 0]
    /\ UNCHANGED <<lifeVars, is_main, marker, queue, gone, known, trims, cursor, max_start,
                   sync, missed>>

--------------------------------------------------------------------------------
(* sync_fuzzers()                                                           *)

SyncStart(n) ==
    /\ Free(n)
    /\ sync' = [sync EXCEPT ![n] = [Idle EXCEPT !.at = "loop", !.todo = Others(n)]]
    /\ UNCHANGED <<lifeVars, is_main, diskVars, cursor, max_start, missed>>

\* Fault: a temporary main node does not give way.
StaysMain(n, p) == is_main[n]

\* A temporary main node that sees another main node steps down.
MainAfter(n, p) == is_main[n] /\ ~(Secondary(n) /\ marker[p])

\* Fault: not even a main node syncs from the others.
SkipsUnmarked(n, p) == ~marker[p]

\* "secondary nodes only syncs from main, the main node syncs from everyone"
Skips(n, p) == Secondary(n) /\ ~is_main[n] /\ ~marker[p]

\* The next directory.
Look(n) ==
    /\ alive[n] /\ sync[n].at = "loop"
    /\ sync[n].todo # {}
    /\ LET p    == Min(sync[n].todo)
           skip == Skips(n, p)
       IN /\ is_main' = [is_main EXCEPT ![n] = MainAfter(n, p)]
          /\ sync' = [sync EXCEPT ![n] = [@ EXCEPT
                         !.todo = sync[n].todo \ {p}, !.entries = TRUE,
                         !.synced = sync[n].synced \/ ~skip,
                         !.peer = IF skip THEN NoNode ELSE p,
                         !.at = IF skip THEN "loop"
                                ELSE IF is_main'[n] # is_main[n] THEN "unlink" ELSE "scan"]]
    /\ UNCHANGED <<lifeVars, diskVars, cursor, max_start, missed>>

\* Having stepped down, take the is_main_node file away.
Unlink(n) ==
    /\ alive[n] /\ sync[n].at = "unlink"
    /\ marker' = [marker EXCEPT ![n] = FALSE]
    /\ sync' = [sync EXCEPT ![n].at = "scan"]
    /\ UNCHANGED <<lifeVars, is_main, queue, flux, gone, known, trims, cursor, max_start,
                   missed>>

\* The restart check: the .last file has just been truncated, so its time is now,
\* and the peer's cmdline is not older only within the same second.
Restarted(p) == fresh[p]

\* Fault: the files after the cursor, whether or not the cursor's own is listed.
ToReadAny(n, p) == {i \in Listing(p) : i > cursor[n][p]}

\* The files to look at: from the one with the number of the cursor on, if that one
\* is listed; "nothing new" if it is not.
ToRead(n, p) ==
    IF cursor[n][p] + 1 \in Listing(p) THEN {i \in Listing(p) : i > cursor[n][p]} ELSE {}

\* History: a file that is unlinked at the time of the listing and has others before
\* and after it is not looked at, but the count of those that are goes past it.
PassedOver(n, p) ==
    {queue[p][i].case : i \in {Unlinked(p)} \cap (cursor[n][p] + 2)..(Len(queue[p]) - 1)}

\* List the peer's queue and find the file with the number of the cursor.
Scan(n) ==
    /\ alive[n] /\ sync[n].at = "scan"
    /\ LET p == sync[n].peer IN
          \/ /\ Restarted(p)
             /\ cursor' = [cursor EXCEPT ![n][p] = 0]
             /\ sync' = [sync EXCEPT ![n].at = "loop"]
             /\ UNCHANGED <<max_start, missed>>
          \/ /\ ~Restarted(p)
             /\ max_start' = [max_start EXCEPT ![n][p] =
                                 IF @ < cursor[n][p] THEN NoMax ELSE @]
             /\ sync' = [sync EXCEPT ![n] = [@ EXCEPT
                   !.at = IF ToRead(n, p) # {} THEN "import" ELSE "loop",
                   !.names = ToRead(n, p), !.life = life[p], !.next = cursor[n][p]]]
             /\ missed' = [missed EXCEPT ![n] = @ \cup PassedOver(n, p)]
             /\ UNCHANGED cursor
    /\ UNCHANGED <<lifeVars, is_main, diskVars>>

\* is_known_case(): by its name it came from here; but what was there at the start
\* is imported all the same.
Wanted(n, p, count, name) ==
    name.from # n \/ (max_start[n][p] # NoMax /\ count < max_start[n][p])

\* One file: it may be gone or empty, or the queue it was in may be.  The files are
\* counted, whatever the numbers in their names.
Import(n) ==
    /\ alive[n] /\ sync[n].at = "import" /\ flux[n] = 0
    /\ sync[n].names # {}
    /\ LET p     == sync[n].peer
           i     == Min(sync[n].names)
           name  == queue[p][i]
           same  == life[p] = sync[n].life
           there == same /\ flux[p] # i
           keep  == there /\ Wanted(n, p, sync[n].next + 1, name) /\ name.case \notin known[n]
       IN  /\ missed' = IF same /\ ~there THEN [missed EXCEPT ![n] = @ \cup {name.case}]
                        ELSE missed
           /\ known' = IF keep THEN [known EXCEPT ![n] = @ \cup {name.case}] ELSE known
           /\ queue' = IF keep
                       THEN [queue EXCEPT ![n] = Append(@, [case |-> name.case, from |-> p])]
                       ELSE queue
           /\ flux' = IF keep THEN [flux EXCEPT ![n] = Len(queue'[n])] ELSE flux
           /\ sync' = [sync EXCEPT ![n] = [@ EXCEPT !.names = sync[n].names \ {i},
                                                   !.next = sync[n].next + 1]]
    /\ UNCHANGED <<lifeVars, is_main, marker, gone, trims, cursor, max_start>>

\* Fault: the cursor is moved to the end of the queue as it is by now.
CursorAtEnd(n, p) == Len(queue[p])

CursorAfter(n, p) == sync[n].next

\* All files of the scan are done: the cursor is written.
Close(n) ==
    /\ alive[n] /\ sync[n].at = "import" /\ flux[n] = 0
    /\ sync[n].names = {}
    /\ cursor' = [cursor EXCEPT ![n][sync[n].peer] = CursorAfter(n, sync[n].peer)]
    /\ sync' = [sync EXCEPT ![n] = [Idle EXCEPT !.at = "loop", !.todo = sync[n].todo,
                                       !.synced = sync[n].synced, !.entries = TRUE]]
    /\ UNCHANGED <<lifeVars, is_main, diskVars, max_start, missed>>

\* Fault: a secondary waits for a main node to show up.
NeverElected(n) == FALSE

Elected(n) == ~sync[n].synced /\ sync[n].entries /\ Secondary(n)

\* "If we are a secondary and no main was found to sync then become the main"
SyncEnd(n) ==
    /\ alive[n] /\ sync[n].at = "loop" /\ sync[n].todo = {}
    /\ is_main' = [is_main EXCEPT ![n] = @ \/ Elected(n)]
    /\ marker' = [marker EXCEPT ![n] = @ \/ Elected(n)]
    /\ sync' = [sync EXCEPT ![n] = Idle]
    /\ UNCHANGED <<lifeVars, queue, flux, gone, known, trims, cursor, max_start, missed>>

--------------------------------------------------------------------------------
(* Start, exit and death                                                    *)

\* handle_existing_out_dir(), setup_dirs_fds() and check_sync_fuzzers().  Without a
\* main node in sight a secondary takes the office, but creates the is_main_node
\* file in the directory of the peer it looked at last.
Start(n) ==
    /\ n \in fleet.nodes /\ ~alive[n]
    /\ alive' = [alive EXCEPT ![n] = TRUE]
    /\ life' = [life EXCEPT ![n] = @ + 1]
    /\ fresh' = [fresh EXCEPT ![n] = TRUE]
    /\ LET lonely == Secondary(n) /\ \A p \in Others(n) : ~marker[p] IN
          /\ is_main' = [is_main EXCEPT ![n] = n \in Mains \/ lonely]
          /\ IF lonely /\ Others(n) # {}
             THEN marker' = [marker EXCEPT ![Max(Others(n))] = TRUE]
             ELSE marker' = [marker EXCEPT ![n] = @ \/ n \in Mains]
    /\ queue' = [queue EXCEPT ![n] = <<>>] /\ flux' = [flux EXCEPT ![n] = 0]
    /\ known' = [known EXCEPT ![n] = {}] /\ missed' = [missed EXCEPT ![n] = {}]
    /\ gone' = [gone EXCEPT ![n] = FALSE] /\ trims' = [trims EXCEPT ![n] = 0]
    /\ cursor' = [cursor EXCEPT ![n] = [p \in Nodes |-> 0]]
    /\ max_start' = [max_start EXCEPT ![n] = [p \in Nodes |->
          IF p # n /\ Listing(p) # {} THEN Cardinality(Listing(p)) - 1 ELSE NoMax]]
    /\ sync' = [sync EXCEPT ![n] = Idle]
    /\ UNCHANGED fleet

\* The second of the start is over.
Tick(n) ==
    /\ fresh[n]
    /\ fresh' = [fresh EXCEPT ![n] = FALSE]
    /\ UNCHANGED <<fleet, alive, life, is_main, diskVars, cursor, max_start, sync, missed>>

\* Exits and deaths so far: those that were followed by a start, and those that
\* were not.
Ends == Cardinality({n \in fleet.nodes : ~alive[n]})
        + SumFunctionOnSet([n \in Nodes |-> life[n] - 1], Nodes)

\* stop_soon and the end of main(): a sync is broken off without writing the cursor,
\* and a main node takes its file away.
Exit(n) ==
    /\ alive[n] /\ flux[n] = 0 /\ Ends < fleet.ends
    /\ alive' = [alive EXCEPT ![n] = FALSE]
    /\ marker' = [marker EXCEPT ![n] = @ /\ ~is_main[n]]
    /\ sync' = [sync EXCEPT ![n] = Idle]
    /\ UNCHANGED <<fleet, life, fresh, is_main, queue, flux, gone, known, trims, cursor,
                   max_start, missed>>

\* Killed: everything on disk stays as it is.
Die(n) ==
    /\ alive[n] /\ Ends < fleet.ends
    /\ alive' = [alive EXCEPT ![n] = FALSE]
    /\ sync' = [sync EXCEPT ![n] = Idle]
    /\ UNCHANGED <<fleet, life, fresh, is_main, diskVars, cursor, max_start, missed>>

--------------------------------------------------------------------------------
\* All instances are up, the main nodes first.
Init ==
    /\ fleet \in Fleets
    /\ alive = [n \in Nodes |-> n \in fleet.nodes] /\ life = [n \in Nodes |-> 1]
    /\ is_main = [n \in Nodes |-> n \in Mains /\ alive[n]] /\ marker = is_main
    /\ fresh = [n \in Nodes |-> FALSE] /\ gone = fresh
    /\ trims = [n \in Nodes |-> 0] /\ flux = trims
    /\ queue = [n \in Nodes |-> <<>>]
    /\ known = [n \in Nodes |-> {}] /\ missed = known
    /\ cursor = [n \in Nodes |-> trims]
    /\ max_start = [n \in Nodes |-> [p \in Nodes |-> NoMax]]
    /\ sync = [n \in Nodes |-> Idle]

Sync(n) == Look(n) \/ Unlink(n) \/ Scan(n) \/ Import(n) \/ Close(n) \/ SyncEnd(n)

Next == \E n \in Nodes :
           \/ Find(n) \/ Trim(n) \/ Created(n) \/ Written(n)
           \/ SyncStart(n) \/ Look(n) \/ Unlink(n) \/ Scan(n) \/ Import(n) \/ Close(n) \/ SyncEnd(n)
           \/ Start(n) \/ Tick(n) \/ Exit(n) \/ Die(n)

Spec == Init /\ [][Next]_vars

\* An instance that runs comes back to sync_fuzzers() time and again, finishes it and
\* the file it is writing, and seconds pass.  Nobody has to find anything or to end.
Fairness == \A n \in Nodes :
    /\ SF_vars(SyncStart(n)) /\ WF_vars(Sync(n) \/ Created(n) \/ Written(n)) /\ WF_vars(Tick(n))

FairSpec == Spec /\ Fairness

--------------------------------------------------------------------------------
(* Properties                                                               *)

\* Every variable keeps its type.
TypeOK ==
    /\ {alive, fresh, is_main, marker, gone} \subseteq [Nodes -> BOOLEAN]
    /\ life \in [Nodes -> 1..(fleet.ends + 1)] /\ trims \in [Nodes -> 0..fleet.trims]
    /\ \A n \in Nodes : queue[n] \in Seq([case : Cases, from : Nodes \cup {NoNode}])
    /\ flux \in [Nodes -> 0..Cardinality(Cases)]
    /\ known \in [Nodes -> SUBSET Cases] /\ missed \in [Nodes -> SUBSET Cases]
    /\ cursor \in [Nodes -> [Nodes -> 0..Cardinality(Cases)]]
    /\ max_start \in [Nodes -> [Nodes -> 0..Cardinality(Cases) \cup {NoMax}]]
    /\ \A n \in Nodes : sync[n].at \in {"idle", "loop", "unlink", "scan", "import"}

\* What lies before a cursor has been dealt with: as long as neither side was
\* started anew, every test case an instance will never look at again is known to
\* it, or was met in flux.
CursorIsHonest ==
    \A n, p \in Nodes : life[n] = 1 /\ life[p] = 1 =>
       \A i \in 1..cursor[n][p] : queue[p][i].case \in known[n] \cup missed[n]

\* The state of the fleet is sound: typed, and every cursor honest.
CursorsSound == TypeOK /\ CursorIsHonest

\* What one instance finds reaches all, secondaries through the main node, as long
\* as the main node is there and nobody starts anew or meets a file in flux.
Settled   == /\ \A n \in fleet.nodes : alive[n] /\ life[n] = 1 /\ missed[n] = {}
             /\ \E n \in Mains : is_main[n]
Converges == \A c \in Cases :
    []((\E n \in Nodes : c \in known[n]) /\ Settled
         => <>((\A n \in fleet.nodes : c \in known[n]) \/ ~Settled))

\* Temporary main nodes step down for a real one: "until a real main nodes shows up".
RealMain  == \E n \in Mains : alive[n]
MainRules == <>[]RealMain => <>[](\A n \in Nodes : alive[n] /\ is_main[n] => n \in Mains)

\* docs/Changelog.md: "If no main node is present at a sync one secondary node
\* automatically becomes a temporary main node until a real main nodes shows up".
\* Nobody is without a main node for good, unless all are gone or the is_main_node
\* file of a dead instance stands.
Leader       == \E n \in Nodes : alive[n] /\ is_main[n]
StaleMarker  == \E n \in Nodes : ~alive[n] /\ marker[n]
SomeoneLeads == []<>(Leader \/ StaleMarker \/ \A n \in Nodes : ~alive[n])

\* Through exits, deaths and restarts, the election of sync_fuzzers() brings a main
\* node about again and again, unless an is_main_node file lies in the directory of an
\* instance that is dead or not a main node and misleads the others.
Misleading    == \E n \in Nodes : marker[n] /\ ~(alive[n] /\ is_main[n])
ElectionWorks == []<>(Leader \/ Misleading \/ \A n \in Nodes : ~alive[n])

\* Comment in sync_fuzzers(): "instance was restarted - we have to reset our counter".
\* A cursor never lies beyond what was read in the present life of the peer.
RestartIsNoticed ==
    \A n, p \in Nodes : alive[n] /\ alive[p] /\ sync[n].at = "idle" /\ life[n] = 1 =>
       \A i \in 1..cursor[n][p] :
          i \in DOMAIN queue[p] => queue[p][i].case \in known[n] \cup missed[n]

================================================================================
