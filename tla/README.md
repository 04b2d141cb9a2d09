# ShaRT, specified in TLA+

ShaRT is a live-streaming server: publishers send a stream over SRT, and the
server sends what it receives on to any number of SRT and HTTP subscribers.  It
is a C program of detached POSIX threads that share a few structures under
mutexes.  This directory models those structures and the threads that work on
them, checks them on small instances with TLC and proves the most important
properties for all instances with TLAPS.

## The system

| Part | Source (`src/src/`) | State it keeps | Operations |
|---|---|---|---|
| stream registry | `published_stream.c`, `.h` | a hash map of streams under `map_lock`; for each stream a name, two lists of subscribers with a lock each, a counter with a lock, and `access_lock` | publish, look up, join, drop, count, remove |
| list of streams | `published_stream.c:251-385` | an array local to the call | collect bucket by bucket, sort, pack |
| publisher loop | `srt_publisher.c` | a packet buffer, `num_fails` of each web node | send to both lists, drop failing nodes, receive |
| SRT subscriber | `srt_subscriber.c`, `srt_common.c` | none | authenticate and join |
| HTTP connection | `web_subscriber.c` | a request buffer | read, parse, route, join; write chunks |
| web API | `web_api.c` | the cached list of streams under `names_lock`, `update_lock` | serve the list, serve a viewer count, replace the list |
| authenticator | `authenticator.c` | a counter of pending connections | run the external command |
| listeners | `srt_listener.c`, `web_listener.c` | a listening socket each | accept, set options, start a thread |
| configuration, start | `config.c`, `main.c` | limits | parse arguments, create the rest |
| browser player | `www/js/play_stream.js`, `config.js` | the current player, the text field, the address's fragment | ask for a stream, play it, retry after an error |
| list on the page | `www/js/stream_list.js` | the buttons shown | ask every five seconds, show |

Interactions.  A listener starts one thread per connection.  A publisher's
thread calls the authenticator, puts a stream into the registry, loops until its
connection fails and takes the stream out.  A subscriber's thread calls the
authenticator, finds its stream, puts its socket into the stream's list and
ends; from then on the publisher's thread owns the socket.  An API thread reads
the counter of one stream, or the cached list; after a list it tries to replace
the cache, as a timer thread does every 30 seconds, by scanning the registry.
The page in the browser asks for the list every five seconds; a click on one of
its buttons makes the player ask whether the stream exists and then open an HTTP
connection for it.  All of them reach sockets through descriptors, which the
kernel gives to the next connection as soon as one is closed.
Locks nest in the order `map_lock`, `access_lock`, a list's lock,
`num_subscribers_lock`.

What is hard here.  Memory is freed by hand while other threads look for it; a
check, an insertion and a count are three critical sections; unsigned counters
wrap; a removal waits for a client with the whole map locked; the last of an
unknown number of readers must free what they read; each way out of a function
must give back what it took; a descriptor that is closed twice is by then
somebody else's, and an assertion about it ends the process; writes to slow
clients stop in the middle of a chunk; answers
come back to the page in any order.  `PROJECT.json` lists each such place under
`hazards`, with the property that would notice it going wrong.

What makes each part correct:

- registry: no stream is used after it is freed; names are unique; limits hold;
  counters that somebody reads are right; each connection is closed exactly
  once or owned by exactly one stream; removal and lookups come to an end.
- list of streams: complete, sound, no duplicates, inside its array, sorted.
- authenticator: the limit holds, and places are given back.
- web API: a list is freed once, after its last reader; few lists exist at once;
  the list follows the registry; there is an answer to every request.
- HTTP connections: each connection is closed by its own thread or the
  publisher's, no thread works with another's; a slow watcher is dropped or
  catches up; every thread comes to an end, unless the authentication command
  does not.
- browser player: one player at a time, for what was asked last; screen, player
  and address agree.
- list on the page: it settles on what the server serves.

## The modules

`StreamDirectory` is the abstract specification of the registry: streams with
distinct names, each with a set of watchers, changed by four atomic actions.

`PublishedStream` is the detailed one.  Threads are slots with a `pc`.  A slot
that is over serves a later connection, and the `published_stream_data` of a
stream is named by its publisher's slot, so that freed memory comes back to
life as another stream: a stale pointer is a pointer to the wrong stream.
Between two labels a thread runs one critical section, or the part of one
before it waits for another lock.  Locks that are held while their owner can
wait or be waited for are variables (`mapLock`, `accessLock`, `listLock`).
`num_subscribers_lock` is a leaf that nobody waits under, so that each section
under it is one step.  Correspondence:

| Code | Actions |
|---|---|
| `add_stream_to_map`, `create_stream_data_in_map` | `PublisherAccepted`, `PublisherRejected`, `CreateRefused`, `CreateStreamData` |
| loop of `srt_publisher` | `LockSubscribers`, `SendSucceeds`, `SendTolerated`, `SendFails`, `CountOut`, `UnlockSubscribers`, `ReceivePacket`, `ReceiveFails` |
| `remove_name_from_map` | `LockMapToRemove`, `RemoveName` |
| `remove_stream_from_map` | `LockAccessToCleanUp`, `CloseSubscribers`, `FreeData` |
| `get_stream_from_map` | `StreamNotFound`, `FindStream`, `LockAccess` |
| `add_subscriber_common` | `SubscriberAccepted`, `SubscriberRejected`, `RejectSubscriber`, `AdmitSubscriber` |
| `add_*_subscriber`, `add_*_subscriber_to_stream` | `SetFlagFails`, `InsertNode`, `CountIn`, `UnlockAccess` |
| `single_stream_data` | `AcceptApiRequest`, `ReadCount` |

A bucket of the hash map is the set of streams with a name (`NodesWithName`),
a doubly linked list a set of nodes; a pass of the publisher visits the nodes
of a list in any order.  The two actions `SendFails` and `CountOut` stand for
both `remove_srt_subscriber_node` and `remove_web_subscriber_node`, `InsertNode`
and `CountIn` for both functions that add a node.

`PublishedStreamInvariant` states the inductive invariant `IInv`, and
`PublishedStreamProofs` proves it, what follows from it, and that
`PublishedStream` implements `StreamDirectory`.

`StreamListing` is the abstract specification of `stream_names`: a list is begun
and finished while streams come and go, and it has what was published all the
while and nothing that never was.  `StreamListCache` extends it with what
`/api/streams/` promises: each request reads one list, from beginning to end,
and new requests get the list that was made last.

`StreamNames` extends `PublishedStream` with the thread that runs
`stream_names`: the map is read one bucket at a time and unlocked in between.
The array's capacity and its doubling (`Doubling`, which `StreamSort` uses too)
are modelled.  `StreamNames` implements `StreamListing`; `StreamNamesProofs`
proves this and what else it promises, on top of the registry's invariant.  The number of watchers
is read without `access_lock`, so that it can be read while the publisher has
counted a watcher out whose own thread has not counted it in: `unsigned` zero
minus one, for a moment.  The one thing it decides is the place of the stream in
the list.

`StreamSort` is what `stream_names` does next.  The quicksort of
`partition_stream_info` and `sort_stream_info`: the calls that have not returned
are a stack, and each round of a partition (two scans and a swap) is a step, so
that the bounds of the scans can be asked about.  Entries with equal counts may
come in any order.  Then the packing of the names behind the array of pointers
(`PackName`): `capacity` and `size` are the bytes there are for names and those in use,
and `block` changes when `realloc` moves the allocation, as it may whenever it
grows; a stored pointer remembers the block it leads into.

`WebApi` models the cached list.  `TakeList` and `PutList` are the two critical
sections of a request, `LockUpdate` to `UnlockUpdate` those of
`update_stream_list`.  `stream_names` appears in it as the steps of
`StreamListing`, which `StreamNames` implements; `throughout` and `sometime` are
the two sets between which a list lies.  `WebApi` implements `StreamListCache`:
addresses that are freed and used again, counters and instances are not to be
seen in what requests read.  Both addresses and contents of lists are
modelled, so that a freed list's address is used again.  Writing through the
NULL list kills the process (`TakeMissingList`); the text of the answer is left
out.  `WebApiProofs` proves its safety and the refinement.

`Authenticator` models the counter of pending connections and every way
through `authenticate`; each critical section is one step.  `AuthenticatorProofs`
holds its theorems.

`WebConnections` follows HTTP connections from `accept` to the last `close`,
over a table of descriptors (`owner`).  `sock` is what a thread, and later the
publisher's node, calls its socket by; it may name another connection's.

| Code | Actions |
|---|---|
| accept loop of `web_listener.c` | `Accept` |
| read loop of `run_web_subscriber` | `Read`, one turn: the time-out, short reads, the search for the end of the request, which with fewer than four bytes starts before the buffer (`underrun`) |
| the rest of `run_web_subscriber` | `Abort`, `Drop`, `Route` |
| `web_api` and its handlers | `BadRequest`, `AnswerApi`, `CloseAgain` |
| `add_web_subscriber` | `Authenticate`, `NotAdmitted`, `WriteHead`, `Insert` |
| the passes of `srt_publisher`, `write_to_web_subscriber` | `Publish`, `BeginPass`, `SendChunk`, `SendTolerated`, `SendFails`, `EndPass`, `Receive` |
| `remove_stream_from_map` for web nodes | `BeginClosing`, `CloseNode`, `EndClosing` |

`single_stream_data` and `active_stream_list` close the socket (`web_api.c:172`,
`221`) and `web_api` closes it again (`256`).  In between the listener may have
been given the descriptor for a new connection, which the second close then
ends: this is reachable, the history variable `stray` records it, and the
properties of the module say what holds as long as it has not happened, and what
holds even after it.  If it comes after the last read of the connection it hits,
`fcntl` fails and the assertion on it (`web_subscriber.c:109-110`, active since
nothing defines `NDEBUG`) ends the server (`Abort`); `OwnDescriptor` says that
nothing but a second close leads there.  What the client of a stream sees is `frame`, the state of a
parser of chunked encoding: a short write leaves the chunk cut and is not
noticed, a write that fails leaves it torn and the socket corked.  The code
compares `num_fails` before it increments it, so that a watcher stays through
`MAX_WEB_SEND_FAILS` + 1 errors and goes with the next, one more than
`srt_publisher.c:67` and the repository's `README.md:32` say; this is the
finding of `web_send_failures`.  `num_fails` is never reset, and
`SlowWatchersSettle` says what that is good for: a watcher whose sends fail
again and again is dropped, and one that stays comes to be written to without
failures.  That an answer which was cut or torn stays broken while its watcher
is kept is what the code does, and no property forbids it.  The first pass
of a publisher's loop comes before its first packet and sends a chunk of length
zero (`srt_publisher.c:30`, `57`), the end of a chunked answer: whoever joined
by then has an answer that is over although the connection stays open.
`NeverEndedAfterData` says that nobody who has had data is ever sent one.

`StreamPlayer` is `play_stream.js`: `pending` are the calls of `playStream` that
await their responses, which come in any order; a player that is created while
another exists takes over the video, and the older one, which the page has lost
track of, goes on loading until it reports an error, at which the page destroys
whatever player is current and asks for the older one's stream again
(`PlayerError`).  `overlapped` records that a request was made while another was
under way: `OnlyPlaysNewest` and `ReplayAsksForSame` hold until then, and fail
afterwards, `PageAgrees` holds always.  Opening the page and what runs before
`window.onload` are modelled, with fragments that `decodeURI` refuses.

`StreamList` is `stream_list.js`: requests are under way side by side, are
answered, refused or lost in any order, and a name that `decodeURIComponent`
refuses ends the callback in the middle of the list.  `up` says whether answers
arrive whole; a body that is cut off or is no JSON is a moment at which it is
false.  The two scripts share no variable, and the player allows a click on any
name, so that `MCPage` checks both in one run, following one of them at a time.

The `MC*` modules instantiate these for TLC.  Definitions whose comment calls
them a mutant of another are never used by a specification: each is a plausible
mistake in the code that a property of a run detects when it takes the place of
the definition it is named after.

## The runs

| Run | Question | Bounds |
|---|---|---|
| `registry` | Is the registry safe, can threads wait for each other in a circle, is `IInv` an invariant, is every step one of the directory's? | 2 publishers, 2 names, an SRT and a web subscriber, an API request, 1 watcher per stream, no limit on streams; about 200,000 states up to symmetry |
| `registry_live` | Do removals and clients come to an end, and is `--max-streams` kept? | 2 publishers with a limit of 1, 2 names, an SRT subscriber, an API request |
| `authenticator` | Is the limit kept and the counter exact? | 4 callers, 2 places |
| `authenticator_full` | Is a connection refused only when the limit is reached? No: places are lost | the same |
| `web_api` | Is a list freed once and in time, is the limit kept, is what requests read that of `StreamListCache`, does the list follow the map? | 3 requests, the timer, 3 addresses, 2 instances, 1 stream |
| `web_api_start` | Is a request answered before the first list? No: NULL is dereferenced | 2 requests |
| `stream_names` | Is the list complete, sound, without duplicates, inside its array, and is every step one of `StreamListing`'s? | 2 publishers, 4 names (one unlisted) in 2 buckets |
| `stream_sort` | Do the scans stay in bounds, does every step leave less to do, does the recursion end, is the result sorted, do the names fit? | every array of up to 5 streams, counts 0 to 3, names of 1, 3, 9, 2 and 4 bytes with 2 reserved for each; about 32,000 states |
| `names_packed` | Do the packed pointers lead into the one allocation that is returned? No: `realloc` may move it | the same |
| `web_connections` | Does each thread work with its own socket, can the process be aborted, when does an answer end, is a slow watcher dropped, does every thread end? | 2 connections, 2 descriptors, reads of -1, 0, 3, 900 and 1023 bytes into a buffer of 1023, no tolerated failure but the first; about 134,000 states |
| `web_send_failures` | Is a watcher dropped after `MAX_WEB_SEND_FAILS` failures? No: after one more | the same, with a limit of 1 |
| `page` | Do screen, player and address agree, does the newest request win, does the list settle on what is served? | 2 names (one that `decodeURI` and `decodeURIComponent` refuse), 3 players, 3 requests under way in each script; about 170,000 states of the player and 13,700 of the list |

Why the bounds are enough to be interesting.  Slots are used again, so that two
publishers give every order of streams that end and begin, under the same name
or another; a third would only repeat a pair.  Two subscribers and a limit of
one are the smallest case of a race for the last place; a subscriber of each
kind makes the two lists differ.  `UintSize` is 8 instead of 2^32: only that
the counter can wrap below zero matters, and the connections cannot wrap it
above (`LimitAssumption`).  `MaxWebSendFails` is 0: one tolerated
failure, then a removal.  In `web_api` three requests can read two lists while
the timer makes a third; three addresses let a list over the limit of two
appear if the code allowed it.  In `stream_names` one publisher at the start
makes an array of one entry, and streams that move from the first bucket to the
second make three entries.  In `stream_sort` five streams and four values give
equal counts, sorted and reversed arrays, and parts of every length below five;
the sizes make names fit at once, after one doubling and after two.  In
`web_connections` two connections and two descriptors are enough for a
descriptor to be reused by another connection, or by a later one of the same
slot, between two closes; the sizes of reads are an error, an end, too few bytes
to search, one that leaves too little room for a second that is long enough, and
one that fills the buffer.  In `page` three requests let one overtake two, of the
player and of the list, and three players make two of them orphans.
Symmetry is used in `registry` and `authenticator_full`, where slots of a kind
and names are interchangeable, and never under a
liveness property.  `web_api`, `web_api_start`, `web_connections` and
`web_send_failures` do not check deadlock, because the process may be killed, nor
do `stream_sort` and `names_packed`, which end.

Fairness.  `registry_live` assumes that a thread that can take a step takes one
(the scheduler), and that a thread waiting for a mutex that is free again and
again gets it (strong fairness).  POSIX does not promise the second for a
default mutex; every critical section of this program is followed by work
outside it (a send, an authentication, a response), so that a waiter does get
its turn in practice, and without it any waiter could be overtaken for ever
whatever the code did.  The network owes nothing: packets, connections and
failures need not come.  `web_api` assumes that a thread that can go on does,
and that the timer fires again: answers are written to non-blocking sockets,
`update_lock` is only tried, and `names_lock` and `map_lock`, which a thread
waits for, are held for a bounded time (`RemovalCompletes` and `ClientsServed`
are about the second).  Requests need not come.  `web_connections`
assumes that threads go on, passes over the nodes too, since reads time out
and writes do not wait; a thread that waits for `web_subscribers_lock` gets it
in the end (strong fairness of `Insert`), as above.  Publishers and clients owe
nothing, and neither does the authentication command, which is external and is
waited for without a limit (`authenticator.c:143`): `Authenticate` has no
fairness, and `ThreadsEnd` allows a thread to stay there.  `page` assumes of the
list's script that its timer goes on and that each request comes
to some end, as the browser sees to; in what order, and whether well, is left
open.  `stream_sort` runs on one thread that goes on.

The four violations are in `PROJECT.json` under `findings`, each with the line
of documentation or the comment it contradicts.

## The proofs

Everything below holds for every value of the constants that the named
assumptions allow.  TLC evaluates the assumptions in every run.

### The registry

For every number of publishers, subscribers, API requests and names, every
limit, and every width of `unsigned int` that the number of connections stays
below by two (`LimitAssumption`), assuming that the sets of threads are finite
and do not overlap (`ThreadAssumption`).  `PublishedStreamProofs!Invariance` is
`Spec => []IInv`.  None of the safety properties is inductive alone:

- `NoUseAfterFree` depends on lock ownership: a client that waits for
  `access_lock` owns `map_lock`, hence no publisher can be unlinking
  (`MapLockOwned`); a client that owns `access_lock` stops `RemoveName`
  (`AccessLockOwned`); what is in the map is exactly what lies between
  `CreateStreamData` and `RemoveName` (`MapContents`).  `PointersGood` is what
  the three keep true.
- `RemoveName` finds its own stream because names in the map are unique, which
  `CreateStreamData` checks under `map_lock`.
- `SubscribersBounded` depends on what the counter is worth at the moment of the
  check.  `CounterExact` says it: the number of nodes, one more while the
  publisher has unlinked a node and not counted it out, one less while a client
  has inserted a node and not counted it in; both at once can take it below
  zero, where it wraps.  The client that checks owns `access_lock`, so that no
  client is between inserting and counting, hence the counter is never too low
  when it is checked; `PlaceKept` carries the result to the insertion.
- `ConnectionsAccountedFor` depends on `NodesGood` (a node is in one list and
  its connection open) and `ClosedOnce`.

There is one lemma per conjunct, in it one step per action.  Type correctness
(a conjunct of `IInv`, and therefore not asked for by itself in `registry`) and
every safety property of `registry` and `registry_live` follow as theorems of
their own.  `NoCircularWait` is one of them: `Level` numbers the locks in the
order in which they are taken, `OwnersAreLater` shows from `MapLockOwned`,
`AccessLockOwned` and `ListLockOwned` that whoever owns a lock waits for a later
one or for none, so that in any set of threads the one at the highest level
waits for nobody in the set.

`PublishedStreamProofs!Refinement` is `Spec => ImplementsDirectory`: the
initial states map to the directory's, and under `IInv` each step maps to one
of its steps or to a stutter.  The map's nodes are the live streams,
`CreateStreamData` publishes, `RemoveName` unpublishes, `InsertNode` joins,
`SendFails` and `CloseSubscribers` are departures; everything else stutters.
The guard of `Join`, fewer watchers than the limit, is `PlaceKept`.

### The list of streams

`StreamNamesProofs` holds for any number of buckets and any hash function.
`ListInv` is inductive together with the registry's `IInv`: each entry comes
from a bucket that was read (`EntriesGood`), each name that was published all
the time and whose bucket was read has an entry (`Collected`), and a name is in
one bucket only, so that an entry of the next bucket cannot repeat an older one;
within a bucket, the registry's `NamesUnique` tells the entries apart.
`ListingRefinement` is `SpecNames => ImplementsListing`: a publisher's
`CreateStreamData` and `RemoveName` change one name at a time, `ScanBucket` of
the last bucket finishes the list, and the empty list that is returned without a
scan is one made at once.  The array's capacity is in the invariant too
(`RoomGood`), from which `RoomForStreams` follows.

`DoublingProofs!DoubledFacts` is why there is room, for the array of streams and
for the bytes of their names: doubling a room that is not zero reaches whatever
is needed, and never gives any up.  It needs an induction over the powers of
two.  The induction theorems of the library take an operator as a parameter,
which the provers cannot instantiate; so `Power` is a recursive function, and
`Induction` is stated for a set of numbers, from the fact that every set of
natural numbers has a least one.  That the recursive definition has a solution
(`PowerDef`) is proved the same way.

`StreamSortProofs` holds for arrays of any length.  `Partitioning` is why the
scans of the partition need no bound: before the first swap the pivot itself
stops both, afterwards what was swapped lies at `l` and `h` on the right side of
it.  `Contiguous` says that the calls on the stack are for neighbouring parts up
to the end of the array, `Divided` that nothing in a later part has more watchers
than anything in an earlier one, `PrefixSorted` that what lies before the first
part is final, and `SameStreams` that swaps lose nothing; together they give
`Sorted` when the stack is empty.  That the smallest index at which a scan stops
exists is a lemma from the well-foundedness of the natural numbers.

`WorkShrinks` is the safety half of `Terminates`: a triple of natural numbers
becomes smaller, in the lexical order, with every step.  The first counts the
parts to sort and to divide, the second is the distance of the two scans, the
third the names to pack.  `WorkInv` is what makes it true: the pivot is not the
first of its part (`PivotInside`), so that both parts of a division have a
stream (`NonEmpty`), which is the hazard of returning the left scan's index from
this partition; and there are never more calls than streams left for them
(`EnoughLeft`), so that the first number is never negative.  That a specification
with weak fairness whose steps all shrink such a measure terminates is left to
TLC.  `NamesFit` follows from `PackInv` and `DoubledFacts`: the bytes reserved
at first are never given up, and as long as the capacity is those, nothing was
moved.

`WebApiProofs` proves every safety property of `web_api` for any number of
requests, addresses and streams and any limit.  `CountsExact` is inductive only
with `UpdateLockOwned` (who is between `LockUpdate` and `UnlockUpdate` has the
lock, so that one list at a time is made), `FreshIsNew` (the list being made
is nobody's yet) and `HeldWhileReading`; `PlaceKept` carries the check of the
limit to the moment the list is counted, across the whole of `stream_names`.
`WebApiProofs!Refinement` is `Spec => ImplementsListCache`: `TakeList` and
`PutList` are the two steps of a request, `InstallList` hands a list over, and
what is at an address that somebody can reach does not change, because a new
list gets an address that nobody can reach.  With `ListingRefinement`, the steps
of `StreamListing` that `WebApi` takes in place of `stream_names` are those that
`StreamNames` is proved to take; what is left informal is that the two run side
by side, in the thread that holds `update_lock`.

### Connections, authenticator, page

`WebConnectionsProofs` holds for any number of connections and descriptors, any
sizes of reads and of the buffer, as long as a request that can be parsed has four
bytes or more (`SizeAssumption`), and any allowance of failures.  `OwnDescriptor` is
inductive with `HasSocket`; `UnderrunIsHarmless` because a request that was
searched too far back is too short to be parsed (`UnderrunEarly`);
`NeverEndedAfterData` because only watchers are written to
(`TodoGood`) and no watcher has had data before the first packet (`FrameGood`).
That the process is not aborted before a second close has hit a stranger is a
part of `OwnDescriptor`, and follows from it: until then a thread that is about
to call `fcntl` has its socket open.

`AuthenticatorProofs` proves the limit, the exactness of the counter and the
types, for any number of callers and any limit, by one joint induction.

`PageProofs` proves the three properties of the player for any number of
names, players and requests.  What makes them inductive is `OneAtATime`: as long
as requests have not overlapped, there is a request under way or a player, never
both, and it is for what was asked last.  At its end it takes the list's script
as an instance beside the player's and proves the list's types.

### Only model-checked

- Liveness: `RemovalCompletes`, `ClientsServed`, `Terminates`,
  `ListFollowsRegistry`, `ThreadsEnd`, `SlowWatchersSettle`, `PageFollowsServer`.  The prover does not
  reach properties under fairness.  What it can say is proved: no circle of waits
  (`NoCircularWait`) for the first two, the shrinking measure (`WorkShrinks`) for
  the third.
- The findings, which are counterexamples and have nothing to be proved.

All safety properties of the passing runs, the invariants and the refinements,
are theorems.  The type invariants are proved as well (`TypeCorrect`,
`NamesTypeCorrect`, `ListTypeCorrect`, or as a conjunct of `Invariance`), and runs
ask for them only where nothing stronger covers them.

## Not modelled

- The text of requests, answers and names: escaping for display
  (`safeString` in `stream_list.js`) and the forms in which `encodeURI` and
  `decodeURI` change a name other than refusing it; names are identities, and
  what a parser decides about them is a set (`Unlisted`, `Undecodable`,
  `Malformed`) or a choice.  `config.js` is two URLs.
- The output of the authentication command, and with it the signed `char` that
  is compared with `EOF` (`authenticator.c:142`).
- When the authentication command ends, if it does: `Authenticate` is its end.
- Descriptors other than those of HTTP connections (the pipe of the
  authentication command, SRT's own sockets): a second close could hit them too,
  but `stray` and what follows from it are about HTTP connections only.
- Options of SRT sockets, set after the `accept` they should precede
  (`srt_listener.c:176`): SRT is external, and a publisher that never sends
  is one whose `ReceivePacket` never comes, which `PublishedStream` allows.
- Ownership of the strings that hold addresses: the one that is not freed
  (`published_stream.c:434`) changes nothing else.
- The doubly linked lists: sets stand for them, and unlinking a node is a set
  difference.
- Arguments and start-up (`config.c`, `main.c`): one thread, before the others;
  the limits they set are constants here.
- `malloc` failing, which the code does not check.
- SRT and picohttpparser are submodules that are not part of the repository;
  only their failures appear.  `mpegts` and the packaging are third-party or
  static; the repository's tests are stress tests and were read for what they
  expect.

What would come next: the doubly linked lists and the bucket's list in a module
that implements the sets of `PublishedStream`; one specification in which
`WebApi` and `StreamNames` run side by side, which the two refinements of
`StreamListing` make possible; the ownership of addresses and the order of socket options, if
they come to matter to another part.
