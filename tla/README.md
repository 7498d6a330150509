# TLA+ models of the graph servers

The repository is a TCP server that keeps one weighted graph for all its clients
and answers their commands (`Newgraph`, `Newedge`, `Updateedge`, `Removeedge`,
`MST`, `Exit`, `Kill`). It exists twice: `main.cpp` runs the commands on a
leader/follower thread pool, `pl_main.cpp` on a reactor thread that passes the
algorithms to active objects. The three concurrency patterns are classes of
their own under `pattern_library/`.

This directory holds TLA+ modules of the patterns, of the graph and of the
commands, TLC runs of small instances, and proofs for all instances. Paths
below are relative to `src/`.

## 1. Inventory

| Component | State | Operations | Hard part | What makes it correct |
|---|---|---|---|---|
| `pattern_library/leader_follower.*` | `running`, `has_leader`, `leader_mutex` + `leader_cond`, `pfds`/`handlers`/`fds_count` under `vectors_mutex`, the threads | `follow`, `lead`, `promote_leader`, `add_fd`, `remove_fd`, destructor | two mutexes, a condition variable, flags written without a mutex, vectors used after the unlock, descriptors that are closed and reused | one leader; a vacant seat is taken; no lost wakeup; entries consistent; destructor returns |
| `pattern_library/reactor.*` | `running` under `running_mutex`, `thread`, the vectors under `vectors_mutex` | `start`, `stop`, `add_fd`, `remove_fd`, `reactor_main` | actions performed after the unlock; restart; handlers that block or close | handlers find their input; every ready descriptor is served; `stop` leaves nothing behind |
| `pattern_library/active_object.hpp` | queue of method objects under `queue_mutex`, `done` without one, promises | `invoke`, `processing_loop`, destructor | `wait_for` with a timeout, calls during destruction | FIFO, once each; each future is resolved; destructor returns |
| `graphs/AdjacencyGraph.*` | the matrix | constructor, `set_edge`, `remove_edge`, readers | boundaries, exceptions, redundancy of the matrix | an undirected graph |
| `main.cpp` | `g`, `graph_mutex` (shared), `running`, connections | the commands, accept loop, end of the program | graph read under one lock and used under another, blocking reads under a lock, early returns and exceptions in locked scopes, order of destruction | no change under a reader; the lock is released on every path; which commands end |
| `pl_main.cpp` | `g`, `graph_mutex`, reactor, six active objects, `running` | the same commands; main's accept loop and exits | futures waited for on the reactor thread, pointers to a stack object handed to other threads, `g` deleted before it is replaced, three ways out of main and static destruction | nothing is used after its end; the program ends; commands take effect one at a time |
| `algorithms/Prim`, `Kruskal`, `Utilities`, `MSTFactory` | none | pure functions of a graph | union-find that changes with every question, costs updated by one vertex at a time, empty and disconnected graphs | minimality; distances |
| `graphs/Subgraph.*` | vertices and neighbour lists, reference to the supergraph | add/remove vertex and edge, readers | two lists per edge, one of them tested; dangling entries after `remove_vertex` | an undirected subgraph |
| `Tests/`, `*_test.cpp`, Makefiles, `valgrind_results/` | | | | not modelled |

How they interact. In `main.cpp` the main thread accepts connections and calls
`lf.add_fd`; threads of the pool call `message_handler(fd)`, which reads a
command, may close the descriptor and call `lf.remove_fd`, and works on `g`
under `graph_mutex`. `Kill` sets `running`; main returns and the static objects
are destroyed: `graph_mutex`, then `lf` (which joins its threads), then `g`. In
`pl_main.cpp` the reactor thread is the only one that runs handlers, and calls
the active objects' `invoke` and waits for the futures.

`PROJECT.json` lists the hazards of this code line by line, each with the
properties that would catch it.

## 2. Modules

| Module | Models | Abstract specification | Proofs |
|---|---|---|---|
| `LeaderFollower` | `leader_follower.cpp` and its use by `main.cpp` | `WorkerPool` | `LeaderFollowerProofs` |
| `Reactor` | `reactor.cpp` and its use by `pl_main.cpp` | | `ReactorProofs` |
| `ActiveObject` | `active_object.hpp` | `SerialExecutor` | `ActiveObjectProofs` |
| `AdjacencyGraph` | `AdjacencyGraph.cpp` | `WeightedGraph` | `SpanningTreesProofs` |
| `Subgraph` (extends `AdjacencyGraph`) | `Subgraph.cpp` | | `SpanningTreesProofs` |
| `Kruskal`, `Prim` (extend `Subgraph`) | `Kruskal.cpp`, `Prim.cpp` | | `SpanningTreesProofs` |
| `SpanningTrees` (extends both) | their composition: a graph, one algorithm, changes to its tree | definition of a minimum spanning tree | `SpanningTreesProofs` |
| `Utilities` (extends `SpanningTrees`) | `Utilities.cpp` | definitions of connectivity and distance | `SpanningTreesProofs` |
| `GraphCommands` | what both servers ask of the graph, without state | | `GraphCommandLemmas` |
| `GraphServer` (extends `GraphCommands`) | the commands of `main.cpp` on `g` and `graph_mutex`, and the end of the program | `GraphService` | `GraphServerProofs` |
| `PLServer` (extends `GraphCommands`) | `pl_main.cpp`: the reactor's handler, six active objects, main, static destruction | `GraphService` | `PLServerProofs` |

`MC...` modules hold the constants of the runs. `DataLemmas` has facts about
sequences, sets of numbers and finite sums that the proof modules share. Definitions whose
comment begins with "Mutant" are deliberately wrong variants of the definition
that follows them; they are in no specification and show that the properties
notice such mistakes.

### LeaderFollower

A step is what a thread does between two points at which another thread can
observe it. `pc[t]` follows a pool thread through `follow` (`LockLeader`,
`FollowWhile`, `CheckLeader`, `Block`, `Reacquire`, `Recheck`, `TakeSeat`),
`lead` (`LeadWhile`, `LockVectors`, `Poll`, `PromoteLeader`, `UnlockVectors`,
`CallHandler`) and the handler (`HandlerRead`, `HandlerClose`, `RemoveFd`).
`mpc` follows main through `Accept`, `AddFd`, `GreetClient` and the destructor
(`StopRunning`, `VacateSeat`, `NotifyAll`, `Join`).

* `running` and `has_leader` are written by the destructor without a mutex. That
  is a data race; the build targets x86, aligned one-byte stores and loads that
  a compiler cannot merge over the calls between them, so each access is a step
  of its own and its effect is seen at once. Weaker orders are not modelled.
* `pfds` stands for `pfds`, `handlers` and `fds_count`, which change together.
  A read of the vectors without the mutex (`leader_follower.cpp:135`) may find
  the entries of the moment, a slot that an `erase` left behind, with whatever
  descriptor, or be undefined (`CallUndefined`) while they are being changed.
* `poll` is a snapshot, taken with the scan that follows it: input cannot
  disappear from an open descriptor while the leader owns the seat without
  another thread's handler having been sent to it first, and the result of the
  scan is the first entry that is readable or closed.
* The kernel hands out the lowest free descriptor; a client may send or hang up
  at any time (`ClientSends`). A `read` on a descriptor without input blocks.
  When another thread closes that descriptor, the `read` stays on the old
  connection on Linux; the model lets it fail at any later time, or continue on
  the connection that got the number. What it would still read from the old
  connection is not modelled. The liveness run of the pool has no closes. A handler
  reads once; the further reads of a `Newgraph` (`main.cpp:155`) are in `GraphServer`,
  where they may be without end.
* Handlers are `message_handler`, seen from the pool: they answer ("command"),
  close and unregister ("exit", also the failing answer to an unknown command),
  only close ("hangup"), or are left by an exception, which nothing catches: the
  process ends ("throw"). What they do to the graph is in `GraphServer`.
* The destructor may run at any time, not only after `Kill`:
  `leader_follower_test.cpp` destroys a pool that is in use after ten seconds.

### Reactor

`pc` follows the reactor thread through its loop (`CheckRunning`, `Poll`,
`PerformRemove`, `PerformNone`, `ActionsDone`) and the handler; `apc` follows
the application thread through `start` (`CallStart`, `StopRunning`, `Join`,
`Clear`, `SetRunning`, `Spawn`), `stop`, and the accept loop. Each access under
one of the two mutexes is one step, because neither is held over anything
another thread could see. `actions` is the vector of the same name, with a
placeholder ("none") for each descriptor on which nothing was reported; it makes
the batch the image of `pfds`. The application may call `start` `MaxStarts`
times and add descriptors before the first one.

### ActiveObject

One dispatcher, callers that make each call of `Calls` once, and an owner. The
constant `Returns` selects the specialisation; `LateCalls` lets callers call
while and after the destructor runs, as the reactor thread can during the static
destruction of `pl_main.cpp`. `wait_for` may time out at any moment; a spurious
wakeup only evaluates the predicate again and is no step. `log` and `ran` are
history.

### AdjacencyGraph

The matrix and the constructor's two loops, one iteration per step, then
operations with arguments that may be out of range. Weights are the values the
code distinguishes: 0, the others, `no_edge`. A call that throws has the result
`Threw`. Vertex numbers are unsigned in the code, hence natural numbers here.

### Subgraph, Kruskal, Prim, SpanningTrees

`stage` says what is going on: operations on the graph ("graph"), the loop of one
of the algorithms, changes to the tree that was returned ("edited"), or the
exception of Prim ("threw"). The graph is not changed once an algorithm has
begun: its callers hold `graph_mutex` (`GraphServer`, `PLServer`).

* A neighbour list is the number of times each vertex is in it. No function
  depends on the order: the traversals and sums of `Utilities` do not, the answers
  of the servers list edges in the order of the vertices only.
* `Subgraph::remove_edge` is `drop_edge`, because `AdjacencyGraph` has a
  `remove_edge`. Readers are the operators `Neighbors`, `TreeEdges` and
  `has_vertex`.
* `stale` is history: a vertex was removed or added again while others listed it,
  which leaves half of its edges. `SubgraphConsistent` says that this is the only
  way in which the lists can come apart.
* `std::sort` is not stable and compares weights only, so `KruskalLoop` takes any
  of the lightest edges. `std::min_element` takes the first, so `IsMin` does.
* The structure of the union-find and the costs are dropped when the algorithm
  returns; the tree is the result.
* `Joins(E)` relates the vertices that the edges `E` connect: those that no border
  (set of vertices with no edge of `E` from inside to outside) separates. The proofs
  reason about borders; that paths connect the same vertices is `JoinsByPaths`, an
  assumption of `MCUtilities` that TLC evaluates for every set of edges of the run.
* `MstInv` is the inductive invariant of the whole, and is checked by the run.
  `SpanningInv`, the largest part of it, says why the tree is a minimum one while it
  grows: each of its edges is a lightest one across a border that no other edge of
  the tree crosses (`CutOptimal`). `NoLoops` says that no vertex is in its own list,
  which callers may change afterwards, and the algorithms never do.

### Utilities

The functions as operators and, where the code recurses, as recursive functions,
applied to every graph and every tree of the run. A loop over neighbours that makes
recursive calls is the second argument of such a function: the set of neighbours
still to visit (`DFS`, whose order is that of the matrix) or visited already
(`longest_and_farthest`, `set_descendents`, in any order, since a list is only a
number of entries here). The values are the local variables after that part of the
loop, and `Visited` and `Counted` are its body. `UtilitiesRight` compares them with definitions that
have nothing in common with the code: connection as `Joins`, and the distance of
two vertices as the weight of the edges that separate them. `distances_sum` is
the sum before the division; the divisor counts each vertex's path to itself by
intention (`Utilities.cpp:122`).

### GraphCommands and GraphService

`main.cpp` and `pl_main.cpp` repeat the same commands. `GraphCommands` has them as
operators on graphs: what `MST` says of a graph (`Refusal`), what an edge command
does (`EdgeEffect`), whether it throws (`EdgeAccepted`), what it answers
(`EdgeReply`), what `Newgraph` makes of a list of edges (`Construct`).

`GraphService` is the promise of a server: a command takes effect at one moment
between its arrival and its answer, on the graph that the earlier ones left, and
the answer is about that graph. `Forests` says whether the one exception the
thread pool makes is allowed (`GraphServer_mst` below).

### GraphServer

`Handlers` are the calls of `message_handler` that run at the same time (at most
one per thread of the pool). Each is idle or at a place between two lock
operations of its command; commands are records whose parameters may be
`Missing`. `graph` is the contents of `g`, without the diagonal, whose value
`AdjacencyGraph` settles (`SelfEdgesZero`). A command takes effect, in the sense of
`GraphService`, at `EdgeWrite`, `Replace` and `MstRun`, or at the test that refuses
it; `AnswerOf` reads the answer off the place of the call.

* The first shared lock of `MST` and of the edge commands is taken and released
  within one step (`MstCheck`, `EdgeCheck`): nothing but a read of `g` and a
  send lies between.
* `Newgraph` receives its edges one `read` per step with the lock held; a text that
  is no edge is skipped; the end of the connection ends the loop. The next edge may
  never come, although the client has sent it: of several edges in one `read` only
  the first is parsed, and the pool sends other threads to the same descriptor
  (`leader_follower.cpp:133-135`), whose calls take edges for commands.
* A failing `send_message` ends the process in the places where the code throws
  (nothing catches) or, in the model too, where `SIGPIPE` would. So does a
  constructor or an edge operation that throws.
* `reply` is the last message in answer to the command, until the prompt.
* After `Kill`, main returns at some time (`MainReturns`), threads that are
  still at work finish or begin commands, and `Destroy` is the destruction of
  `g`, once all have been joined. The destructor of `graph_mutex` runs earlier in
  the code; it has no effect on the platforms the Makefile builds for and is not
  part of the model.

### PLServer

One thread runs `message_handler` (`pc`), for the descriptors of a batch one after
the other; six active objects have a call, a dispatcher and a life each (`calls`,
`dispatch`, `life`); main is in its loop or on one of three ways out (`mpc`).

* The two patterns are reduced to what this program can tell of them. Each active
  object is called by one thread that waits for the future, so its queue has at
  most one entry; `ActiveObject` has the queue, the lock and the condition
  variable. The reactor's batch is a number of calls still to make; `Reactor` has
  the descriptors. `Take`, `Return`, `TimeOut` and the destructor's steps `SetDone`,
  `Join`, `DestroyMembers` are `ActiveObject`'s actions of similar names, `Poll` and
  `BatchDone` the loop of `reactor_main`.
* The handler hands out pointers: of `g` to Prim or Kruskal, of the local
  `MST_Graph` to the four others. `PointersValid` says that it is still in the
  block that owns them when an object has a call. `delete g` comes before the new
  graph is built; `dangling` marks the time between.
* A call of an object that is gone is undefined. The model lets it crash or leave
  a future that nobody resolves ("lost"); a promise that dies in the queue of its
  object is "broken", and `get()` throws.
* `Return` is the end of the object's function. Its outcome, "tree" or "forest",
  is that of `SpanningTrees`; that Prim and two of the distances fail on a graph
  without vertices, and Prim on one that is not connected, ends the process
  (`Fatal`): the exception leaves the dispatcher's thread.
* After `Kill` main returns and destroys the objects, in the reverse order of their
  definition, while the reactor still runs; after a failing `accept()` it stops the
  reactor first and then exits; after a failing greeting it stops the reactor and
  throws.

## 3. Runs

Passing runs, in `PROJECT.json` with their properties:

| Run | Instance | States | Question |
|---|---|---|---|
| `LeaderFollower_safety` | 2 threads, 2 descriptors, all outcomes, destructor | 260 032 | seat, wakeups, vectors, `WorkerPool` |
| `LeaderFollower_live` | 2 threads, 2 descriptors, answering handlers, destructor | 8 535 | seat is taken, leader stops, input is read |
| `ActiveObject_calls` | 4 calls, exceptions, late calls | 3 796 | order, futures, destructor, `SerialExecutor` |
| `Reactor_all` | 3 descriptors, 2 starts, all outcomes | 249 618 | batches, fairness between descriptors, `stop` |
| `Graph_mst` | 4 vertices, weights 0 and 1, 1 constructor edge, any operations, 2 changes of the tree, one invalid vertex | 149 650 | `WeightedGraph`, minimum spanning trees, distances, lists |
| `GraphServer_safety` | 2 calls, graphs of 0 or 2 vertices, up to 2 edges per `Newgraph` | 1.75 million | locks, graph, reports, `GraphService` |
| `GraphServer_live` | 3 calls, graphs of 2 vertices, one edge, one command of each kind, no `Kill` | 115 212 | which commands end |
| `PLServer` | graphs of 0 or 2 vertices, 1 edge per `Newgraph`, 2 calls per poll | 109 615 | pointers, exits, the program ends, `GraphService` |

`Graph_mst` reaches every graph with four vertices whose edges weigh 0 or 1: four
vertices are the fewest on which union by size, path compression (a vertex two
below its root), a cost that is lowered twice, and a longest path that does not
pass through vertex 0 all occur. Equal weights leave several minimum spanning
trees, different ones tell them apart. The action constraint `StartOncePerGraph`
starts an algorithm only in the state of a graph in which the last result was
`no_edge`; the algorithms do not read `result`, and each graph has such a state
(the removal of an edge that is not there), so no graph is left out.

Why the bounds are enough. The interesting cases of the pool need a leader and a
follower or handler, and a descriptor before another one (shifted indices); of
the reactor, a batch of three actions of which one removes or closes another;
of the active object, one call in hand and two in the queue besides one that
comes late; of the graph, a vertex that is out of range, two edges of one pair,
a third vertex that is not touched; of the servers, a reader or writer against
one other call, a graph with and without its edge, the empty graph, and of the
reactor a call before and one after the end of an object. All the safety
properties of the passing runs are also proved for every value of the constants.
Symmetry is used in safety runs only, over
threads and calls that run the same code. `GraphServer_live` has three calls, because
two readers and a writer are the fewest with which readers can keep a writer out for
ever; its action constraint `OneOfEachCommand` takes one command for each way of
using `graph_mutex`, and restricts nothing that fairness speaks of. Either exception
of `CommandAnswered` is necessary: without it TLC finds a counterexample in this
run.

Runs that expect a violation, each about a statement of the repository that the
code does not keep:

| Run | Statement | What happens |
|---|---|---|
| `LeaderFollower_destructor` | `leader_follower.hpp:54` "Will block until leader stops and all running handlers finish." | `running`, `has_leader` and the notification are not under `leader_mutex`. A follower that is between its check (90) and its wait (95) misses the only notification; one that has passed line 98 takes the seat back after line 24, and the others wait for a vacancy that nobody announces. `join` never returns. |
| `LeaderFollower_closed` | `leader_follower.cpp:141` "if found one with error" / `:143` "remove it from the set" | `remove_fd` locks `vectors_mutex`, which the leader holds. The leader blocks for good. One client that disconnects is enough (`main.cpp:306` closes without `remove_fd`). |
| `LeaderFollower_stale` | `leader_follower.hpp:26` "receives as an argument the file descriptor on which the event occured" | The index is used after the unlock, when another handler may have erased an entry. |
| `GraphServer_mst` | `main.cpp:82` "The graph is not connected, therefore has no MST", `:114` "The MST is:" | The test and the algorithm run under different locks; a `Removeedge` between them makes Kruskal's forest "the MST". |

The models show more behaviour of this kind, of which no run asserts the
contrary: after a `Kill`, an MST command that the reactor still carries out may
wait for an active object that is gone, and `~Reactor()` for the handler, so that
the process never ends (`pl_main.cpp:38`; `ServerEnds` excepts it by name, and is
false without the exception); a connection whose number is reused while its predecessor is being
unregistered is orphaned (`main.cpp:272`, `pl_main.cpp:293`); a busy client on
an early descriptor starves later ones in the pool (`leader_follower.cpp:129`),
which is why `InputConsumed` speaks of a sole ready descriptor; a command that
is answered with "Not enough parameters detected, command ignored" is carried
out with zeros (`main.cpp:139`); "Edge was created" is the answer also for an
edge that existed (`main.cpp:207`), and "Edge does not exist" for one of weight
0 (`main.cpp:252`); a `Newgraph` that waits for an edge blocks the others, for ever
if the edge was read by another call or together with the one before it
(`main.cpp:155`), and in `pl_main.cpp` the reactor and its `stop` (`pl_main.cpp:176`);
readers that overlap keep a writer out (`main.cpp:146`). `CommandAnswered` names the
last two, and says that nothing else keeps a command of `main.cpp` from its end.

### Fairness

* Threads run. A step that takes a mutex gets strong fairness: `leader_mutex` is
  held for a few statements, and between two polls the leader sleeps 10 ms with
  `vectors_mutex` released (`leader_follower.cpp:146-147`), so who asks finds
  each of them free again and again. Steps without a lock get weak fairness.
* `GraphServer`: a thread that asks for `graph_mutex` gets it if again and again
  nobody holds it who excludes it. For readers that is the policy of the
  platform's lock, which lets them in whenever no writer owns it, and for a writer the
  hand-over by the last reader or writer that leaves. A lock that is passed from
  reader to reader is never free, so nothing is assumed of a writer in front of it.
  The receipt of an edge (`ReceiveEdge`) has no fairness.
* `wait_for` times out, by weak fairness of the dispatcher.
* Nothing is assumed of clients, of new connections, of the decision to stop or
  of callers, with one exception: in the reactor's program a client that began a
  `Newgraph` goes on sending until there have been as many reads as it announced
  edges, or closes. There one thread reads all that clients send. In `PLServer` this
  is part of the fairness of the handler, in `Reactor` weak fairness of a client whose
  handler is reading, and strong fairness of the end of the loop, which the number of
  edges bounds.
* `PLServer`: the reactor's thread, each dispatcher, and main on its way out have
  weak fairness; nobody can take a lock or a future away from who waits for it. A
  failing `accept()`, a failing greeting and a `Kill` may never happen.

## 4. Proofs

All theorems are checked by TLAPS for all values of the constants, from the
named assumptions on the constants: `PoolAssumption`, `ReactorAssumption`,
`ActiveObjectAssumption`, `GraphAssumption`, `SubgraphAssumption`,
`PrimAssumption`, `CommandAssumption`, `NoGraphAssumption`, `ServerAssumption` and
`PLAssumption`. These say that markers such as `None` are not among the
values they are told apart from, and give the sorts of the rest; the number of
threads, descriptors, calls, vertices and commands is arbitrary.

* **LeaderFollower.** `IInv` is inductive. `AtMostOneLeader` is not by itself:
  it needs that a thread at `seat` knows the seat to be empty (`SeatInv`), which
  needs that it owns `leader_mutex` (`MutexInv`), and that `has_leader` tells the
  truth while `running`; that the destructor falsifies `has_leader` is harmless
  because `running` is false before (`RunningInv`) and the check of line 98
  follows the wait. The case that shows why line 98 is there is a thread at
  `recheck` after the destructor's write; the mutant without that check breaks
  the refinement. `ScanStable` and `NoDuplicateFds` follow from the ownership of
  `vectors_mutex`. `Implements` shows by cases of `Next`, under `IInv`, that each
  step is a step of `WorkerPool` or leaves the roles alone.
* **ActiveObject.** `MethodObjectInv` (a call has one method object, in the queue
  or in hand, as long as its future is unresolved) makes the rest inductive.
* **Reactor.** `BatchInv` is the strengthening: the actions of a batch have
  different descriptors, so a handler cannot take the input of a later one, and
  only main can close a descriptor under the batch, when it gives up and stops.
* **SpanningTrees, structure.** `IInv`: types, symmetry and self edges of the matrix; then
  agreement of `get_edges` and `get_neighbors`, and the refinement of
  `WeightedGraph`, whose edge of a pair is the entry above the diagonal. `TreeInv`
  carries the rest. That both lists of an edge agree needs that both algorithms
  give `add_edge` two different vertices of the tree, joined by an edge;
  `CostsOfCut` needs the symmetry of the matrix, because `modify_neighbours` looks
  an edge up from one end and compares what the loop has stored from the other.
* **SpanningTrees, minimality.** `MstReturned` says that the tree an algorithm
  returns is a minimum spanning one of the graph's edges (a minimum spanning forest,
  from Kruskal on a graph that is not connected), `UnionFindHolds` that two vertices
  have the same root exactly when the tree joins them, `InvariantHolds` that `MstInv`
  is invariant. `ReturnsMst` only speaks of the end; the parts that make it
  inductive are:
  * `CutOptimal`, for both algorithms. When Kruskal adds an edge, the border is the
    class of one end in the union-find, when Prim adds one, it is `members`; a
    border of an earlier edge that the new edge happens to cross is replaced by its
    symmetric difference with the new one (`CutExtended`). The edge Kruskal takes is
    the lightest because the list is used up in order and whatever has been used
    lies within a class; Prim's because `CostsOfCut` says what the costs are.
    `CutOptimalIsMinimum` is the exchange: of the spanning sets that are no
    heavier than some lighter rival, the one that differs least from the tree can be
    brought nearer still, by an edge that crosses a border (`OnTheWay`).
  * `UnionFindInv`, for Kruskal: from each vertex the parents lead to a root
    (`Rooted`: no set of vertices but the empty one is closed under parents and has
    no root), and vertices have equal roots if and only if the tree joins them.
    `RootsUnique` shows that this determines `Root`, `CompressionKeepsRoots` that
    path compression changes no root, `RootsAre` that a union moves one class.
  * `NoLoops`, and the lists of `TreeInv`: what traversals of the result rely on.

  The installed provers cannot use a principle of induction. Its place is taken by
  the smallest counterexample: among the sets with a property there is one none of
  whose proper subsets has it (`SmallestSubset`, from the well-foundedness of the
  subset ordering of finite sets), and what is recursive (`Above`, the sum
  `WeightOf`) is shown to be the one function that satisfies its equation.
* **Utilities.** `UtilitiesHold` is the whole of `UtilitiesRight`. The code visits
  each vertex once; the definitions speak of all pairs of them. The argument is:
  * `DFS` returns the smallest set that has what it starts with and is closed under
    the neighbours of what it adds (`DFSFinds`). No edge crosses the border of such
    a set, and vertex 0 is in it, so it is everything exactly if `Joins` relates
    all vertices (`ConnectedRight`).
  * `MstInv` makes a returned tree one in which each edge alone crosses some border
    (`ReturnedIsTree`). Hence an edge has two sides (`AwayIs`), the branches of a
    vertex are disjoint and contain all others (`BranchesDisjoint`, `BranchesAll`),
    and a branch is what the call for its first vertex meets (`BehindIsReach`).
  * Two functions that agree before every loop and whose iterations keep the
    agreement are equal (`Traversal`: of the branches on which they differ, one has
    no smaller one in it). So it is enough to find a closed form that satisfies the
    equation of a traversal: for the three variables of `longest_and_farthest` these
    are the farthest distance, the farthest one into a second branch and the longest
    one within a branch (`VariablesAfterVisit`, for an iteration, with its ties), for
    `set_descendents` the numbers of vertices below (`DescendentsStep`).
  * A longest path has its ends in one branch of vertex 0, or in two (`LongestRight`).
    The shortest distance is the lightest edge because no path weighs less than one
    of its edges, which takes weights that are not negative (`ShortestRight`). The
    sum of the distances counts an edge once for each pair it separates, and the
    code's `m * (n - m)` is the number of these pairs, whichever end is the lower
    one (`PathsThroughIs`, `SumTwice`, `SumRight`).
* **GraphServer.** `LockDiscipline` carries the rest: a writer excludes readers,
  hence `ReportOfOneGraph` and `UndisturbedWhileRead`; no step sets `g` back to
  null except `Destroy`, hence `GraphPresent`. `CommandInv` says to which command a
  place belongs and what is known of it there. `Implements` maps each step to the
  effect or the answer of one call, or to a stutter, and so needs that a `Replace`
  makes a graph of the size that was asked for (`ConstructGraph`).
* **PLServer.** `IInv` has, besides the properties, the coherence of an object's
  call, dispatcher and life (`ObjectInv`), the order of the shutdown (`MainInv`) and
  `CommandInv`. `PointersValid` is inductive with `CommandInv`, because an object
  is called at the place where the handler is about to wait for it, and
  `MstGather` needs all four futures. `CleanExit` rests on `MainInv`: the reactor's
  thread has left its loop before either `exit`. In the refinement, the reactor is
  the only caller, and the MST takes effect when its future is read: the graph is
  still the one that was found connected, so that no forest is reported.

Only model-checked: the liveness properties (`LeaderElected`, `LeaderStops`,
`InputConsumed`, `FuturesResolve`, the two `DestructorReturns`, `EventHandled`,
`ClosedFdRemoved`, `StopReturns`, `CommandAnswered`, `ServerEnds`), which need
fairness and `ENABLED`. That `Joins` is what paths connect is checked for the run's
sets of edges.

## 5. Not modelled

* Set-up of the listening socket, parsing of commands (a parameter is present or
  missing, a text is an edge or none), output, and the layout of a report: they
  carry no state from one command to another.
* Infinite, NaN and overflowing weights, and a weight that equals `no_edge`, the
  largest double. `strtod` accepts them all; weights are integers here. An edge of
  infinite weight counts for `is_connected` and is never taken by Prim, which then
  throws on a connected graph.
* Negative weights in the longest and the shortest distance (`UtilitiesRight` leaves
  them out; the sum of the distances is proved for all integers). With negative
  ones `shortest_distance_between_two_vertices` returns the lightest edge and not
  the shortest path, whatever one takes that to be.
* Memory exhaustion, signals other than the end of the process by `SIGPIPE`, and
  memory orders weaker than interleaving.
* Builds, tests and profiles: no behaviour of the program.

What could be added: a composition of `LeaderFollower` and `GraphServer` through
the handler, to relate blocked commands to free threads of the pool; its parts are
bound by the handler's call alone, and the product of the two state spaces is
beyond TLC at the bounds at which either is interesting.
