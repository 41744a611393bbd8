# A verification project for game-memo

The repository is a collection of C++ programs and headers: small network
programs on Boost.Asio, Beast and libuv under `test/`, and containers,
algorithms and network helpers under `include/` (paths here leave out the
leading `src/`). This directory models the parts that keep state and whose
order of events matters, checks the models with TLC and proves the central
results with TLAPS.

## 1. Inventory

### What runs and how it interacts

| Part | State | Operations | Talks to |
|---|---|---|---|
| chat server, `test/asio_tcp_server_timeout` | per session: socket, input buffer, output queue, three timers | accept; read a line, await output, write a line, check two deadlines, stop | clients by TCP; the other sessions and the broadcaster through `net::channel` |
| channel, `include/experimental/network/utility.hpp` | the set of subscribers | join, leave, deliver | calls `deliver` of each subscriber, synchronously |
| UDP broadcaster, `network/udp.hpp` | a socket | deliver | sends a datagram, ignores errors |
| chat client, `test/asio_tcp_client_timeout` | endpoints, socket, `stopped_`, two timers, input buffer | start, connect, read, heartbeat, check the deadline, stop | the chat server |
| pinger, `network/ping.hpp` | sequence number, number of replies, one timer | send, time-out, receive | ICMP |
| ring queue, `container/queue.hpp` | a buffer, head, tail, capacity | push, pop, destructor | its user |
| skew heap, `container/skew_heap.hpp` | a pool of nodes, root, size | push, pop, destructor | its user |
| AVL tree, `container/avl_tree.hpp` | a pool of nodes, root, size | find, insert, erase, traverse, destructor | its user |
| stack, `container/stack.hpp` | a buffer, top | push, pop, destructor | its user |
| HTTP server, `test/beast_http_server` | listener; per session a request, a response, a buffer | accept, read, handle, write, close | HTTP clients; several threads, one strand per session |
| third-party I/O, `test/asio_third_party_io` | two in-progress flags, the library's read/write state | wait for reading or writing, read, write, close | one client |
| composed write, `test/asio_write_fsm`, `asio_write_coro` | a state, a repeat count, a timer | delay, write, complete | its caller |
| libuv ping-pong, `test/uv_ping_pong` | position in the pattern, number of pongs | connect, write, read, close | an echo server |
| singleton, `singleton/singleton.hpp` | one pointer | get, create, destroy | re-entrant constructors and destructors |
| intro sort, `sort/intro_sort.hpp` | an array, iterators, the pending ranges | sort | its caller |
| hashes, `secure/hash/` | one call: padded message, schedule, words | `hash` of SHA-1, 256, 384, 512 | `bit/bit.hpp` |
| modular arithmetic, checksum, random numbers, easing and interpolation | none, or a generator's words | pure functions | their callers |

The chat programs run all handlers on one thread. What makes them hard is not
parallelism but order: a session is four actors, each of which always has one
asynchronous operation outstanding; every operation can complete, fail or be
cancelled while another handler is already queued; and moving the expiry of a
timer, which is how one actor wakes another, also runs the handler of whoever
waits on it. Of time-outs the hard part is that a result and the deadline that
guards it can both be queued. The containers, the sort and the hashes are sequential: what is
hard there is a long sequence of legal calls (wrap-around, rotations, a pool
whose free nodes are not where it looks for them, a singleton that is called
again by its own object), scans that check no bound, and boundaries of length.

### What makes each part correct

* *Server.* No message posted to the channel is lost, repeated or reordered for
  any open session; a sleeping output actor has nothing to send; a write never
  loses the line it was given; a session ends only for a reason, leaves the
  channel when it does, and is destroyed.
* *Client.* Every attempt and every read ends; a late connect is not taken for
  a connection; a closed connection stops the client, and nothing runs after
  `stop()`.
* *Pinger.* Requests keep their distance, a late or repeated reply is not
  counted for the wrong request, a time-out is reported only when there was
  one, and the pings go on.
* *Queue, stack, heap, tree.* They are a bounded FIFO, a bounded LIFO, a
  priority queue and a map, and the structure the destructor relies on is there
  in every state.
* *Singleton.* However constructors and destructors call back, every object is
  deleted at most once, and one that is complete is deleted or the instance.
* *HTTP server.* One response per request, in order, and none after one that
  ends the connection; a client that stops sending or reading does not hold its
  session.
* *Third-party I/O.* Whatever is cut short is echoed in order and once, and the
  connection waits for exactly what the library wants, until a wait for reading
  fails.
* *Composed write.* State machine and coroutine do the same: delay and write
  alternate, an error ends it, it completes once and frees nothing in use.
* *Ping-pong.* However reads are cut, the pinger stays in step and ends.
* *Sort.* A sorted permutation, from scans that stay inside their range.
* *Hashes.* The digest of the standard, of a padding that follows the comments.

The hazards, each at its line and with the properties aimed at it, are listed
in `PROJECT.json`.

## 2. Modules

| Module | What it is | Source |
|---|---|---|
| `TcpServer` | sessions, channel, network and clock | `test/asio_tcp_server_timeout`, `network/utility.hpp` |
| `OrderedBroadcast` | what the server promises: one log, read in order from the point of joining | abstract |
| `TcpClient` | the client's actors, network and clock | `test/asio_tcp_client_timeout` |
| `Pinger` | requests, replies and the timer | `network/ping.hpp` |
| `RingQueue`, `BoundedFifo` | the ring with the bytes and the lifetime of each slot, and what it promises | `container/queue.hpp` |
| `Stack`, `BoundedLifo` | the same for the stack | `container/stack.hpp` |
| `SkewHeap`, `PriorityQueue` | the heap with its pool, and what it promises | `container/skew_heap.hpp` |
| `AvlTree`, `FiniteMap` | the tree with its pool, a call, return or rotation a step, and what it promises | `container/avl_tree.hpp` |
| `Singleton` | the pointer and the calls in progress | `singleton/singleton.hpp` |
| `IntroSort` | the sort, one turn of an inner loop a step | `sort/intro_sort.hpp` |
| `Padding` | `padding()` of the four hashes, and what their comments say of it | `secure/hash/*.hpp` |
| `Bits` | words of w bits, rotations, addition | `bit/bit.hpp` |
| `Sha` | the loops of `hash()`, which the four have in common | `secure/hash/*.hpp` |
| `Sha1`, `Sha2`, `Sha256`, `Sha384`, `Sha512` | the functions and tables of each; `Sha2` what the last three share | `secure/hash/*.hpp` |
| `Hashes` | a call of one of the four | `secure/hash/*.hpp` |
| `HttpServer`, `HttpConnection` | listener, sessions, responses; and what a client may expect | `test/beast_http_server` |
| `ThirdPartyIo` | the connection and the library session | `test/asio_third_party_io` |
| `WriteMessage`, `RepeatedWrite` | both forms of the composed write, and the operation they implement | `test/asio_write_fsm`, `asio_write_coro` |
| `PingPong` | the libuv pinger and the echo server it talks to | `test/uv_ping_pong`, `uv_tcp_echo_server` |
| `TcpServerProofs`, `TcpClientProofs`, `PingerProofs`, `RingQueueProofs`, `AlgorithmProofs`, `SkewHeapProofs`, `AvlTreeProofs`, `ProgramsProofs` | theorems | |
| `Programs` | HTTP server, third-party I/O, composed write, ping-pong, stack and singleton side by side: a behaviour is a use of one of them, the others keep their initial states | |
| `Containers` | the heap and the tree, side by side in the same way | |
| `MCPrograms`, `MCContainers` | the instances of these two for TLC | |
| `MCAlgorithms` | sort and hashes, side by side in the same way | |
| the other `MC...` | instances for TLC | |

**Handlers are actions.** In the network modules a step is one handler
run to its end, or one thing that Asio, libuv, the network or the clock does
between handlers. An asynchronous operation is `"idle"` when none is
outstanding, `"pending"`, and then ready, holding what its handler will be told.
Ready handlers run in any order, which includes every order `io_context` can
choose. Cancelling a timer or moving its expiry makes the pending wait ready;
closing a socket makes the pending operations on it ready with an error; an
operation that had already succeeded keeps its result, which is how a late
connect or a line that crosses its deadline comes about.

**Time is relative.** A deadline is the number of ticks until `expiry()`; a
`Tick` counts it down to 0 and it stays there, so an expired wait may be
handled late. `time_point::max()` is `Forever`, `time_point::min()` is in the
past at once.

**TcpServer.** `session[s]` is a record of the members of `tcp_session` and the
state of its outstanding operations; `subscribers` is the set in the channel.
The operators `ReadLine`, `AwaitOutput`, `WriteLine`, `CheckDeadline`, `Start`,
`Stop`, `Enqueue` are the member functions; `OnReadLine`, `OnAwaitOutput`,
`OnWriteLine`, `OnCheckDeadline` are the lambdas they pass to Asio. A line is a
message or a heartbeat (a single newline). Once a session is stopped its
handlers return before they read anything, so only its outstanding operations
are kept (`Remains`); with none left it is `Destroyed`, which is when the last
`shared_ptr` goes. `log`, `from` and `received` are history.

**TcpClient.** `client` is a record of the members and outstanding operations.
One deadline serves connect and read. A line left in `input_buffer_` completes
a read even on a closed socket, as `async_read_until` looks at the buffer
first.

**Pinger.** The timer is a record of the handler bound to its wait, the state
of the wait and its expiry, given from `time_sent_`. `HandleReceive(n)` is the
arrival of a reply to request `n`: possible for every request already sent and
not older than `Lifetime`, any number of times up to `MaxReplies`; a reply
that never comes is a lost one. `sequence_number_` is counted modulo `Modulus`.
`answered`, `reported` and `age` are history.

**RingQueue, Stack.** `slots` holds the bytes of every index of the ring and
`live` the indices that hold a constructed element. `pop()` destroys the element
before it copies it, so the result is what the destructor left (`Remains`):
the element itself if the destructor is trivial, anything otherwise.

**SkewHeap.** `pool` is the array of nodes with links as indices; nodes come
from index `size_`. `merge()` calls itself, so a step is one call of it
(`Descend`, `Meet`) or one return (`Ascend`), and `push()` and `pop()` are what
comes before the outermost call (`Push`, `Pop`) and after it (`Pushed`,
`Popped`). `mx` and `my` are the arguments of the innermost call, `returned`
says that it has returned `mx`, and `path` holds the `x` of the calls around it,
the innermost first: the state is that of the call stack, and the properties can
say what holds in the middle of an operation, where subtrees hang by a variable
only.

**AvlTree.** The pool is the same; the members of the nodes are the functions
`child` (the union of `l`, `r` and `c`), `height`, `key` and `value`. `find`,
`insert`, `erase` and `erase__` call themselves, so a step is one call
(`Seek`, `Descend`, `GoLeft`), what happens where the calls end (`Create`,
`Overwrite`, `Missing`, `EraseLast`, `EraseInner`, `Unlink`), one return up to
the call of `balance` (`Ascend`, `Replace`, `Returned`), or what `balance` does:
nothing (`Settle`), a rotation of the child (`TurnChild`) or of the node itself
(`Turn`). `at` is the argument of the innermost call and then its result,
`place` says which, and `path` holds the `x` of the calls around it. `gone`,
`low` and `next` are the `x`, `y` and `w` of `erase`: `x` is destroyed before
the node that takes its place is unlinked. As between these steps a subtree hangs
by a variable of the program only, the properties are about `Root` and `Link`,
which put it where the call around will put it, and about the nodes `Kept`, among
which `gone` stands for `next` until `Replace`. `FiniteMap` has one operation
under way, with its name and its argument, which are those of the code (`op`,
`wanted`, `given`): a find returns what its own key has, and an insertion or an
erasure takes effect once, on its own key, before it returns. It has (`Done`) when
the calls are on their way back, or when `erase` looks for the node that is to
take the place of the one destroyed.

**Singleton.** A step is the begin or the end of a constructor or destructor.
`frames` holds those that are running; between the steps of one, any call may
be made, and it is made on top. Assigning to `instance_` stores the pointer
first and then deletes what it owned, as `std::unique_ptr` does.

**IntroSort.** The array holds names of elements, compared by their keys, so
that it is seen whether every element is still there. `work` is the recursion of
`sort__`: the ranges it has still to visit, the current one first. `at` is the
place in the code, and an action is one turn of a loop (`ScanUp`, `ScanDown`,
`Exchange`, `Sift`, `Insert`, ...).

**Hashes.** A word is the set of the places of its ones: TLC's integers have
only 31 bits and SHA-512 needs 64. Addition keeps its carries and drops the one
beyond the width. `Sha` has the chunk loop and the three loops inside it; what
differs from hash to hash are its parameters. The constants of SHA-256 are the
upper halves of those of SHA-512, which the code writes out in both files.

**HttpServer.** `session[s]` has the read and the write that may be outstanding
and the deadline of the stream. A request is reduced to what `handle_request`
looks at (method known, target legal, what opening the file says, keep-alive)
and a response to its status, whether it has a `Content-Length` and whether it
keeps the connection. A client may send requests ahead of the answers.

**ThirdPartyIo.** An octet is its number in what the client sends. A readable
socket may have nothing to read and a writable one may take only a part. `deaf`
is history: a wait for reading has failed, after which the code starts nothing.

**WriteMessage.** `program` says which form runs. For the coroutine, `state` is
the `yield` at which it stands; for the state machine, the member `state_`.

**PingPong.** A character is its position in `PING`; the connection keeps the
order but cuts the characters into reads as it likes. The pinger may be connected
before the server accepts.

## 3. Runs

| Run | Instance | Shows |
|---|---|---|
| `server_safety` | 2 sessions, 1 message text, 1 post, time-out 1 tick, no fairness | `ActorsAlive`, `NoLostWakeup`, `HeartbeatOnlyInFront`, `NothingLost`, `SubscribersAreOpen`, `FrontStaysWhileWriting`, `StopsForAReason` |
| `server_live` | 1 session, 2 message texts, 2 posts, time-out 2 ticks, fair | `BroadcastsInOrder`, `ImplementsBroadcast`, `StoppedSessionIsDestroyed` |
| `server_output_deadline` | 1 session | a finding, see section 5 |
| `client` | 2 endpoints, connect 3, read 2, heartbeat 1 tick | `ActorsAlive`, `ClosesForAReason`, `NoConnectionOnClosedSocket`, `EveryWaitEnds`, `StopsForGood` |
| `client_endpoints` | the same | a finding |
| `ring_queue` | n = 3, 2 values | `WalksOverTheLive`, `ImplementsFifo` |
| `ring_queue_buffer` | n = 3 | a finding |
| `skew_heap_reuse` | 3 nodes | a finding |
| `pinger` | 3 sequence numbers, 6 requests, 2 replies each | `CountsTheExpectedReply`, `RequestsAreSpaced`, `ReportsOnlyTimeouts`, `KeepsPinging` |
| `containers` | heap: 6 nodes, 3 keys; tree: 4 nodes, 4 keys, 2 values | `HeapWellFormed`, `TreeWellFormed`, `ImplementsPriorityQueue`, `ImplementsMap`, `LogarithmicTime`, `MergesInLogarithmicTime` |
| `algorithms` | sort: 7 elements, 3 keys, ranges below 2 left alone, a depth of lg n; hashes: "abc", the two longer test messages, messages at each length where a padding turns over | `SortsTheInput`, `StaysInside`, `VisitsInOrder`, `TakesTheLargest`, `EverySortEnds`, `DigestMatches` |
| `programs` | HTTP: 1 session, 3 requests of 7 kinds, time-out 2 ticks; I/O: a buffer of 2, 4 octets; composed write: up to 3 repetitions; ping-pong: 3 pings of 4 characters; stack: 3 elements; singleton: 4 objects, calls nested 3 deep | `AnswersInOrder`, `EchoesInOrder`, `ImplementsRepeatedWrite`, `PongsMatchPings`, `ImplementsLifo`, `EveryObjectIsOwned`, `EveryOperationEnds` |

`containers`, `algorithms` and `programs` put independent models side by side.
The type invariants are conjuncts of the properties named in the table, except
those of the server, the client, the pinger and the sort, which are not run but
proved (section 4).

Why the bounds are enough.

* Two sessions are needed for anything that goes through the channel (a message
  to the sender and to another session, a session that stops while another
  delivers); with one post the queue of each already holds a heartbeat and a
  message, and the proofs cover any number of sessions, posts and ticks. One
  session is enough for what a session owes its own client, and two posts make a
  second message wait behind the first.
* The client's timings make every order of expiries possible.
* A ring of four slots with three usable ones meets every position of head and
  tail, full and empty. Three stack elements meet empty, full and between.
* Four keys in four nodes build AVL trees of three levels in which every single
  and double rotation is done by an insertion and by an erasure. A rotation
  inside `erase__` needs seven nodes: it is covered by the proof, which is for a
  pool of any size. Six heap nodes with repeated keys merge paths of three nodes.
* A singleton needs two objects for one to replace the other; with four, in
  calls nested three deep, a third is made while two are still being deleted.
* Three sequence numbers make the pinger's number wrap twice in six requests
  while replies live for three ticks.
* Seven elements make a heap of three levels and, with a depth of lg n, ranges
  that quicksort finishes and ranges heap sort takes over; three keys give every
  pattern of equal ones. The proofs cover any length.
* The lengths of the hashed messages are those on both sides of each place where
  a chunk, or the room for marker and length, is full; messages of one chunk and
  of two are hashed by every class.
* Three requests let a client send two ahead, whichever of them ends the
  connection. One session is enough, as sessions share nothing that changes.
* With four octets through a buffer of two, both reads and writes are cut short
  and follow each other twice. Three pings of four characters are cut at every
  place and across each other's borders.

Bounds that are not in the code: `MaxPosts`, `MaxBuffered`, `MaxRequests`,
`MaxReplies`, `MaxObjects`, `MaxFrames`, `MaxOctets`, `MaxCount`; each guards
an action, or bounds what is called with, and is commented where it is declared.

Fairness. The clock advances and a handler that stays ready is run: that is
`io_context::run`, which ends only when nothing is outstanding. Nothing is
assumed of the peers: a read, write or connect may stay pending for ever, and
the liveness properties hold because deadlines end them. `Accept` and the
arrival of lines are not fair. `ImplementsBroadcast` includes the fairness of
`OrderedBroadcast`: every client eventually receives what it is owed or is
dropped. The HTTP server is the same: its handlers, the timer of the stream and
the clock are fair, its clients are not. A sort that was called runs until it
returns, that is `WF(Run)`; calling it is not fair. The ping-pong has both ends
in the model: its fairness says that both loops run and that a connection
delivers what it was given. The other models have safety properties only and
assume no fairness.

`CHECK_DEADLOCK FALSE` stands only where the system really may stop: the queue
or the stack is freed, a call of the sort or a hash has returned, a program has
ended, and the pinger's `send_to` may throw out of `run()`.

## 4. Proofs

`TcpServerProofs` (any sets of sessions and messages, any time-out, any bound
on posts):

* `TypeCorrect`, `DeliveryCorrect`, `MembershipCorrect`, `ActorsCorrect`,
  `WakeupCorrect`, `HeartbeatCorrect`: the invariants of `server_safety`.
* `FrontCorrect`, `StopCorrect`: its action properties
  `FrontStaysWhileWriting` and `StopsForAReason`. One lemma says what any step
  may do to an open session: it is stopped, with a failed operation or an expired
  deadline as the reason, or it stays open, and while a write is outstanding its
  queue only grows at the end.
* `Implementation`: `Safety` implies `BroadcastsInOrder`, the safety part of the
  refinement of `OrderedBroadcast`.
* `WindingUpCorrect`: `StoppedSessionWindsUp`, the part of
  `StoppedSessionIsDestroyed` that is not liveness. Every operation of a stopped
  session has completed, so its handlers wait only to run; each that runs leaves
  strictly fewer; and the session with none left is the destroyed one. That the
  handlers do run, which is fairness, stays with TLC. The invariant is `QuietInv`.

None of the invariants is inductive alone. `IInv` is the conjunction of
`TypeOK`, `SessionInv` for every session, `SubscribersAreOpen`, `NothingLost`
and two facts about the history. `SessionInv` says of an open session that its
four actors are alive, that a non-empty queue goes with an expiry at `min()`
(which is what makes a wake-up impossible to miss: whoever waits on the timer
finds it expired), that a write is outstanding only while the queue has a
front, and that heartbeats are in front only; of one that is not open it says
which operations may remain. The operators on a session (`ReadLine`,
`Enqueue`, `PopFront`, ...) each have a lemma that they keep `SessionInv`, and
each action has one lemma that it keeps `IInv`. For the refinement each action
is shown to map to a join, a leave, a post, a receipt or a stutter.

`TcpClientProofs` (any number of endpoints, any time-outs): `TypeCorrect`,
`ActorsCorrect`, `LateConnectCorrect` and `ClosingCorrect`, which are `TypeOK`,
`ActorsAlive`, `NoConnectionOnClosedSocket` and `ClosesForAReason`. `IInv` adds
that the client does one thing at a time (while it connects nothing else is
outstanding; afterwards exactly one of heartbeat and wait), that nothing is
outstanding before `start()`, that the deadline is watched until `stop()`, and
that the endpoint and the buffer are what the handlers that use them expect.

`PingerProofs` (any modulus, times and bounds): `TypeCorrect`, `ReplyCorrect`,
`SpacingCorrect`, `TimeoutCorrect`. The invariant says what each of the two
handlers a timer may be bound to implies for its expiry and the replies
(`TimerInv`), and that request `n` is at least `request - n` intervals older
than the current one (`AgesInv`). With the assumption that a reply does not
outlive the wrap of the sequence number, `Lifetime <= Modulus * Interval`, a
reply with the number of the current request can only be its own.

`RingQueueProofs` (any size and values):

* `TypeCorrect` and `DestructorCorrect`: `TypeOK /\ WalksOverTheLive` is
  inductive; the arithmetic of the wrap is one lemma.
* `RingIsFifo`: with `Trivial` the ring implements `BoundedFifo`. The contents
  are first described slot by slot without the modulus (`ContentsBySlot`);
  then `Push` is `Append` and `Pop` is `Tail`.

`AlgorithmProofs`, of `IntroSort` (arrays of any length but 0, any keys, cutoff and depth):
`SpecTypeOK`, `SpecStaysInside`, `SpecVisitsInOrder`, `SpecSortsTheInput`,
`SpecTakesTheLargest`. The
invariant has the ranges one behind the other and ordered by their elements
(`Disjoint`, `VisitsInOrder`); of a partition, that what `i` has passed is not
above the pivot, what `j` has passed not below it, and that each still has an
element before it that it cannot pass (`Scanned`), which is why no bound has to
be checked; of the heap sort that it stays in its range (`HeapInside`); of
the insertion sort that the first elements are in order (`Inserted`). That heap
sort takes the largest element each time needs more (`LInv`): what is above the
position that is being mended, and what hangs below it, is a heap but for that
one position (`OrderedBut`), and a heap has its largest element at the root. The
last is an argument by the least counterexample, from a lemma that a non-empty
set of numbers has a least one (`LeastNumber`).

`AlgorithmProofs`, of `Padding` (messages of any length, the chunks and fields
of the four classes): `PaddingFillsChunks`, whole chunks; `PaddingTellsMessagesApart`, no
two messages have the same padding, although only 32 bits of the length are
written, because the marker tells where a message ends; and
`PaddingFollowsStandard`, the padding is the one the comments describe for
every message whose length in bits is below 2^32.

`SkewHeapProofs` (a pool of any size, any integers as keys): `HeapCorrect`, that
`HeapWellFormed` holds in every state, in the middle of a merge too, and
`HeapIsQueue`, the refinement of `PriorityQueue`. Both are about the uses in
which a push finds its node free (`SpecIntoFree`); for the others the code is
wrong (section 5). What is reached from the nodes an operation holds is not
defined by recursion but by closed sets: a set that contains those nodes and,
with a node, its children is the whole heap (`Trees`). That no node is lost is
one use of it; that the root has the least key is another, with the set of nodes
whose key is not below the root's. `Descend` and `Ascend` keep it by taking a
closed set of the new state, and making one of the old state out of it.

`HeapIsFast` is the amortized O(lg n) that the note on `merge` claims, again where
pushes find their node free. The credit is twice the number of nodes that have more
below them on the right than on the left, and for the operation under way what its
calls and returns may cost (`Credit`). A call at a node with more on the right turns
it into one with more on the left, and pays with that; any other leaves at most half
to be merged, which happens at most as often as the number of nodes has binary digits
(`Digits`). Weights count what will be below a node when the operation is done, so
that a return changes none. They are defined by recursion, of which the proofs use
only that they solve one equation for each node (`Fits`), and that nothing else does
(`OneWeight`): two solutions would differ at a node of least weight, and then also
below it. A step is then shown to turn a solution into another, which differs at one
node (`DescendLeaves`, `PopLeaves`, `PushLeaves`) or none.

`AvlTreeProofs` (a pool of any size, any integers as keys, any values):
`TreeCorrect`, that `TreeWellFormed` holds in every state, between any two calls,
returns and rotations too, and `TreeIsMap`, the refinement of `FiniteMap`. The
first part of the module is about search trees as such: a search tree is one in
which every node but the root is linked once and in which the search for a key
that is there meets its node, where "meets" means, again without recursion, that
every set that holds the root and is closed under the steps of that search
holds the node. For each of a rotation (`RotationTree`), a node taken out that has
no child on one side (`SpliceTree`), a leaf added where a search ends
(`GraftTree`) and a node that takes the place of another whose key is next to its
own (`RenameTree`) there is a lemma that what results is a search tree. `IInv`
is the conjunction of

* `TreeInv`: `Kept`, with `Root` and `Link`, is a search tree in every state;
* `Frames`: `path` is the way that the search for `wanted` takes from the root,
  so that what returns is put on the side it came from (`Way`);
* `Places`, `Called`: which of the variables are in use at which place;
* `Replacing`: while a node is sought that takes the place of `gone`, the calls
  inside that of `gone` are at greater keys, and no key that is kept lies between
  that of `gone` and that of the node found;
* `Sought`: a search for `wanted` that begins where `find` has come to still meets
  the node of that key, if there is one, and no call around was at that key;
* `Heights`: what a call returns is balanced, and its height differs by one at most
  from the one the subtree had before the call, which the node of the call around
  still has in its own `h` (`Expects`); hence `balance` meets a bias of 2 at
  most, and a double rotation leaves both of the nodes it turns balanced.

The steps that decide a result (`Found`, `NotFound`, `Create`, `Overwrite`,
`Missing`, `EraseLast`, `EraseInner`) are those at which the operation of the map
takes effect, on the key it was called with; `Find`, `Insert`, `Erase` and `Returned`
are its call and its return, and everything else leaves the map as it was.

`TreeIsFast` is the O(lg n) that the comments on the three operations claim. That a
balanced tree of height h has at least 2^(h/2) - 1 nodes (`TreeIsLow`) is shown at
a lowest node of which it were false: what is below its two children has nothing in
common (`BelowApart`), "below" being the least set that holds a node and is closed
under the links. `StepsLeft` counts the steps an operation has still to take; that
each step leaves fewer needs of the invariant that a node is higher than its children
while the calls go down, and makes the end of every operation a safety property.

`ProgramsProofs` (any value of every parameter of the six programs). Each has an
invariant of its own, and `EachStep` says that a step of the composition is a
step of one of them and leaves the others alone.

* `AnswersCorrect`, the refinement of `HttpConnection`. The invariant says, for
  each place where the one operation of a session may stand, how many of the
  requests that were read have been answered, that the last answer leaves the
  connection open while more is read or written, and that `close` is what the
  response in hand says. Only the completion of a write is a step of
  `HttpConnection`'s `Reply`.
* `EchoCorrect`: `EchoesInOrder`, which says of an open socket both that a wait is
  wanted and that what is wanted is waited for. What it lacks to be inductive is that the
  handler that closes the socket is the last one (`LastHandler`): without that a
  wait could end on a closed socket and go on reading or writing.
* `WriteCorrect`, the refinement of `RepeatedWrite`, by both forms of the
  program: the invariant ties the place in the code to what is outstanding, to
  the completion and to the release of the memory.
* `PingPongCorrect`: `PongsMatchPings`. What is under way in both directions is
  the rest of a `PING` from the pinger's position, so that the loop over a read
  always finds the character it expects; the loop is a recursive function, shown by the least
  position at which it could go wrong (`LoopIsFunction`, `LoopAsExpected`).
* `StackCorrect`, the refinement of `BoundedLifo`, for a type whose destructor
  is trivial.
* `SingletonCorrect`: `EveryObjectIsOwned`. The invariant adds that the
  object the pointer owns is not under construction, nor any object in two frames
  (`OwnedOnce`), and that no frame and no pointer speaks of an object that is
  not made (`NotMade`).

The assumptions are the named ones of the modules: positive times, a heartbeat
that is not a message, a size in `Nat`, at least one element to sort,
`Interval < Timeout` and the bound on `Lifetime` for the pinger.
`ProgramsAssumption` is the conjunction of those of its parts,
`ContainersAssumption` that of the heap (integer keys, a pool that is not empty),
`TreeAssumption` that of the tree: integer keys, a pool that is not empty, and a
`Nothing` (for `std::nullopt`) that is neither a key nor a value.

Only model-checked:

* all liveness (`ImplementsBroadcast` beyond its safety part,
  `StoppedSessionIsDestroyed`, `EveryWaitEnds`, `StopsForGood`, `KeepsPinging`,
  `EveryOperationEnds`, `EverySortEnds`), which is out of the prover's reach;
* the digests (`DigestMatches`): they are facts about single messages, and the
  operators they are computed with (`Plus`) are recursive.

## 5. Findings

Each is a run that expects TLC to find a counterexample.

* `server_output_deadline`: the deadline of a write stays set after the write
  has ended, so a session that is sending nothing is stopped 30 seconds after
  its last write; lines 87-89 give the deadline to sending a message.
* `client_endpoints`: a connect that fails by itself closes the socket and
  starts nothing; lines 29-31 promise to try the other endpoints.
* `ring_queue_buffer`: `cap_ = n + 1` for a buffer of `n` elements.
* `skew_heap_reuse`: `push` after `pop` may construct its node over one that is
  in the heap; `AvlTree` shares the scheme. `containers` therefore keeps to
  pushes and insertions that find their node free (`NextIntoFree`, and the
  insertions of `AvlTree`).

## 6. Not modelled

* The destructors of the heap and the tree, and `inorder()` of the tree: they
  walk over the trees that `KeptInTrees`, and `LinkedOnce` with
  `SearchesMeet`, describe.
* The HTTP and WebSocket clients, the TLS client and server, the Asio echo
  server: straight chains of library calls, each started by the one before.
* An empty array in `intro_sort`: the insertion sort steps past its end at
  once, so that there is no behaviour to describe (`LengthAssumption`).
* The test messages of a million octets: they repeat what two chunks show.
* Failed connects, reads and writes of the ping-pong, where an assertion ends
  the program, and its branch for the end of the stream, which the echo server
  never reaches first.
* `math/modular.hpp`: `mod_pow` does not compile once it is instantiated (its
  return type is deduced from itself), and nothing includes the header.
* Random numbers, whose merit is statistical; easing, interpolation, tolerance
  comparison and `wrap_pi`, which are floating point; packet headers and the
  checksum, accessors of bytes that the pinger abstracts; the jemalloc
  allocators, which forward calls; the state-machine template, which nothing
  instantiates; vendored libraries.
* The bytes of heartbeats, and load: a queue without a limit and accept loops
  that repeat an error keep no state that could go wrong.
