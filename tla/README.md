# Verification of mydht

TLA+ models, TLC runs and TLAPS proofs for the peer-to-peer library in this repository. The
models are written from the code under `src/`; every definition that stands for code is listed
with its lines in `PROJECT.json` (`map`), every part of the system under `components`, and what is
hard to test in it under `hazards`.

## The system

A node is a **main loop** (`mydht/src/procs/mainloop.rs`) and a set of **services** that talk to it
and to each other through channels. A service is a `call(command)` run by a spawner (a thread, a
coroutine, or in place); a spawner may stop after a number of iterations and be restarted.

| part | state | operations |
|---|---|---|
| main loop | slab of read/write streams, `address_cache`, `peer_cache`, `challenge_cache`, queues of messages that wait for a peer, handles of the other services | commands from services and api (`call_inner_loop`), events of the poll (`inner_main_loop`), `connect_with2`, `write_stream_send2`, `update_peer`, pool building, discovery |
| write service (`client2.rs`) | destination peer, `buff_msgs`, shadow writer | ping, pong, service message; one per write stream |
| read service (`server2.rs`) | `is_auth`, accepted priority, peer, own local-service handle | PING, PONG, service message; one per read stream |
| synchronous connections (`synch_transport.rs`) | transport, listener | accept, connect (may fail) |
| local service (`deflocal.rs`, `noservice.rs`) | main loop and global handles | local, forwarded and global commands of a read stream |
| global / peer store (`storeprop.rs`, `deflocal.rs`) | key-value cache, query cache | store, find, subset, reply |
| api (`api.rs`, `utils.rs`) | query ids and where to return their answers | call, reply, adjust, failure; threads wait on a `OneResult` |
| tunnel (`mydht-tunnel`) | peers to draw routes from, commands waiting for peers, borrowed streams | send, proxy and reply along a route |
| shadowers (`mydht-openssl`, `mydht-basetest`) | cipher, partial blocks | header, write, read, end |
| transports (`mydht-tcp`, `mydht-udp`, `mydht-externtransport`, `mydht-basetest`) | connections, buffers | accept, connect, write, read |
| event loop without operating system (`mydht-userpoll`) | descriptors, queued events | register, set readiness, poll |
| stores (`mydht-btkad`, `mydht-filestore`, `mydht-base`, `mydht-wot`) | bucket tree; files and saved maps; caches; trust of peers | add, remove, select, commit, restart, cascade of trust |

A connection is two one-way streams (one per direction, from two transport connections) or the two
halves of one multiplexed connection. Authentication is ping, pong, pong: the initiator pings with
a challenge, the responder answers it and adds its own challenge, the initiator answers that one.
Each side enters the other in `peer_cache` when its own challenge comes back.

### What is hard to get right

* commands given to a stream before it is connected, while its peer is not authenticated, and
  while its service ends and restarts;
* two nodes that connect to each other at the same time: two handshakes, four streams, one
  `peer_cache` entry per node, and a slab entry removed while other caches know its token;
* tokens that the slab reuses, also after a connection that failed;
* readers that switch between two decodings of the stream on the first pong;
* a query that branches over several nodes, each with its own numbering of queries, its own count
  of results and of NotFounds, and replies that come in any order, late, or never;
* a thread that waits for answers counted by another, over two ways that race;
* answers without an id, matched with the messages that wait for them by position;
* bytes cut in pieces by buffers of different sizes at each layer, with readers lent from one
  service to another;
* events raised before someone listens; stops between two writes of a store.

## Modules

| module | models | of |
|---|---|---|
| `WriteStream` | one write slab entry and its write service | `write_stream_send2`, the writable event, `ConnectedW`, `WriteService` |
| `MainLoop` | main loops of several nodes with their read, write and connection services | `call_inner_loop`, `inner_main_loop`, `ReadService`, `WriteService`, `SynchConnect`, `SynchConnListener`, `Slab` |
| `KVStore` | queries over the store services of several nodes | `KVStoreService::call`, `QueryMsg`, `DHTRules`, `SimpleCacheQuery`, `ForwardService`, `InefficientmapBase2` |
| `Api` | threads, main loop, Api service and the destinations that bring answers back | `DHTIn::send`, `Api::call`, `api_return`, `OneResult`, `LocalDest`, `GlobalDest` |
| `Completion` | abstract specification of what a waiting thread is promised | |
| `Discovery` | one main loop and its peer store | discovery, address lookups, `PoolSize`, pool timer |
| `Tunnel`, `TunnelStream` | the tunnel service and its routes; one query and its reply over the streams of a route | `GlobalTunnelService`, `Rp`; `TunnelWriterReader`, `LocalTunnelService` |
| `Shadower` | a writing and a reading shadower | `OSSLShadowerW/R`, `OSSLSym`, `ShadowTest` |
| `UserPoll` | the poll in user space and a loop that uses it | `UserPoll`, `UserRegistration`, `UserSetReadiness` |
| `LocalTransport`, `Udp`, `ExternTransport` | three transports | `TransportTest`; `Udp`; `TestService` and the callbacks of the host |
| `KNodeTable` | the bucket tree and its route | `KNodeTable`, `KBucket`, `BTKadBase` |
| `FileStore` | the file store with stops and restarts | `FileStore`, `SimpleCache` |
| `KVCache` | random selections of a cache | `KVCache`, `RandCache`, `get_next_vals` |
| `WotStore` | the web of trust | `WotStore`, `ClassicWotTrust`, `ExpWotTrust`, `PromSigns` |
| `WriteStreamProofs`, `ApiProofs`, `ApiAnswersProofs`, `KVStoreProofs`, `KVStoreAnswerProofs`, `UserPollProofs`, `FileStoreProofs`, `WotStoreProofs` | theorems | |
| `MC...` | configurations and instances for TLC | |

The models are layers. `WriteStream` looks inside one write stream of `MainLoop`; `TunnelStream`,
`Shadower` and the transports look inside what it writes and a read service reads. `KVStore` takes
the connections of `MainLoop` as made and abstracts all streams to one bag of messages, which allows
every order (streams do reorder, see below) and, where `lossy`, losses. `Discovery` is about the
peers a main loop is not connected to, with connections as one step. `Api` is about one node; what
other nodes do is an answer that comes or does not.

Configuration (`MyDHTConf` constants, transport kind, what the api asks for) is a variable fixed in
`Init`, so that one run covers several configurations; the MC modules name them. `MCStreams` and
`MCStores` each instantiate several modules that do not interact: `part` says which one a behaviour
is of, and the variables of the others stay `<<>>`.

### WriteStream

`chan` is the channel of the slab entry, `svc` the state of its service handle, `with` and `buff`
are fields of `WriteServiceInner`, `wire` what was written. `write_stream_send` follows the match of
`write_stream_send2` on the entry: pending, connected, spawned, finished (restart), failed (the
entry is removed by a panic, a service command is answered with `ApiCommand::Failure`). `connected`
is the first writable event or `ConnectedW`. `ping`, `pong`, `service`, `write_error` are the calls
of the service, `return` the end of its `SEND_NB_ITER` iterations. A write may fail on the message
of the command, or on a message that `debuff_msgs` has already popped: those before it are written,
it is lost, those behind it stay in `buff`, and a service command that waited for the flush is lost
with it. `shut` marks the service of a write-once stream that was connected at its first command: it
ends after the service message it writes. The history variables `sent`, `lost`, `reported`, `spawnAt` serve the properties.

### MainLoop

A handler of the main loop is one step: its calls are operators on a state `g` (the `MDHTState` of
the node and all streams), composed in the order of the code. An error that leaves
`call_inner_loop`, or a panic, sets `dead` to its cause: a token that is no longer in the slab met by
an event (`polled`) or by a message for a cached address (`addressed`), a refused peer (`refused`), or
anything else. A stream stays registered when `update_peer` removes its slab entry, so with `late` its
next event still comes. Streams carry the state of the services attached to
their two ends. Keys and addresses of peers are identified; a challenge is a fresh number; signature
checks succeed (a failing check is not modelled). A step of a service handles one command or one
frame. Write services run without iteration limit here; `WriteStream` covers limits.

### KVStore

`cache` and `lastid` are the `SimpleCacheQuery` of each node, `store` its key-value store, `net` the
commands on their way to a store service, `answers` what the api of each node was given. `Ask` is
the api query, `StoreLocally` a value the api stores meanwhile; `Receive` takes one command and is
one of `FindEnd` (the query stops at this node), `FindForward`, `StoreFound`, `NotFoundBranch` and
`Late`. What the main loop does with the reply of the service (`GlobalReply::Forward` and its route)
is part of the same action. Ids of queries are the sequential ones; a random id takes the place of
the next one unless it is drawn twice, since ids are only compared for equality. A value is identified
with its key. The peers of a route are chosen
freely among those the rotation of `InefficientmapBase2` can give. `found`, and `org` of a message,
are history.

Peers never leave `peer_cache` in the code (only a failed connection removes an entry, before the
peer is entered), so a reply always finds the peer it goes to; an Asynch reply connects to its
destination by address. Nodes are authenticated: without authentication a Find from a peer has no
origin and fails the assertion at `storeprop.rs:830`.

### Api and Completion

A thread sends its commands through `DHTIn` and then waits in `clone_wait_one_result`. `mlq` and
`apiq` are the channels of the main loop and of the Api service; `svcs` and `flight` what the other
services and the peers have of a command. Answers come back through the main loop (`ProxyApiReply`)
or directly. `one[t]` is the `OneResult` of thread `t` with its counters, `woken` the notifications
of its condition variable. A find carries the `ApiQueryId` its caller chose (`aqid`; 0 for none): the
main loop uses it as it is when it answers from `peer_cache` (`Shortcut`). `Completion` knows only numbers: results and failures received, and who
has returned with how many results. `Refines` maps `got` and the history `ko` to them.

### Discovery

`node` is the part of `MDHTState` that is about peers: address and peer caches, waiting challenges,
the queues `discover_wait_route` and `peer_find_address`, the pool. `pc` follows a turn of
`inner_main_loop`: the pool check, the poll, the commands. `psq` and `mlq` are the two channels
between main loop and peer store. The replies of the peer store (`GlobalReply`, a list of them
included) are worked off by `send`. `Incoming` is a peer that connects by itself, over a multiplexed
connection or one that the main loop answers by a connection of its own.

### Tunnel, TunnelStream, Shadower

`Tunnel` keeps `peers` and `positions` of the route provider, the commands in `to_send`, and the
routes given out. Random draws are choices. Peers leave by `Offline`: the service handles it, but
nothing in the repository builds that command yet, so the configurations with `offline` are about
what the service is written for. `TunnelStream` has one record per stream of the way
there and back: what was written, who holds the writing and the reading end, and the counters of the
`TunnelWriterReader` at both. The layers of the external tunnel crate deliver bytes unchanged and
delimit what they are asked to.

`Shadower` follows single bytes. The cipher is a chain: a block can be read only at its own place.
`bounded` stands for a layer below that delimits messages, which padding of the library (`Native`)
needs (comment at `shadow.rs:229`); without padding (`NoPadding`) messages are whole blocks.

### UserPoll and the transports

The user of `UserPoll` is a loop like the main loop: a table of tokens, one poll after the other, all
events of a poll handled. `ExternTransport` runs its service over the same rules of readiness, and
the host calls its functions between two turns. `LocalTransport` numbers connections on both sides
and shares one channel per transport. `Udp` writes messages in pieces and loses the stream on an
error, as the write service does.

### KNodeTable, FileStore, KVCache, WotStore

`KNodeTable` keeps the two arrays of the code, with the indices to reuse; `kin` is the peers that the
last `update_priority` put in the table, and `skew` says that a removal has merged a bucket with one
that is not its brother. `FileStore` splits `add_val` and `commit_store` where a stop can separate two
effects on disk, and lets each write of `commit_store` and each `remove_file` fail; `fhalf` says that
one of the two saved files is newer than the other, `fleft` which files could not be removed. `KVCache` makes each
random byte and position a choice and computes the rest as the code does. `WotStore` makes each call
of `update_trust` a step; `wstack` holds the calls its recursion still has to make, and no other
call of the store starts before it is empty. `wgot` is the list of promoted signatures last received
for a peer, which the store takes as it came.

## Runs

| run | shows |
|---|---|
| `ws_all` | initiators, responders and streams without authentication, restarted, failing and write-once ones, three service commands: each command is in one place, also when a write fails in the middle of a flush, no service message precedes the pong, order is kept once the service runs, everything is written |
| `ml_safe` | ten configurations of two or three nodes: main loops end only for the three reasons `MainLoopAlive` names and no reader meets a frame it does not expect, `peer_cache` holds live streams to the right peer, authentication is mutual, nothing is sent before it, double connections leave one stream |
| `ml_live` | handshakes end, messages arrive |
| `ml_failed` (violation) | a token kept in `address_cache` after a failed connection is reused for another peer |
| `kv_all` | seventeen configurations of three nodes (proxied, asynchronous, mixed; with and without NotFound replies; several results; losses; histories of hops; values stored meanwhile): counters stay in range, one answer per query, replies reach the query they are about, no query is closed while a branch runs, an empty answer is true, a found value is returned |
| `api_all` | ten configurations of two threads: `Api` implements `Completion`, the answers owed to a command add up, threads get their own answers but for the ids callers choose, and a thread that waits in time returns |
| `api_wait` (violation) | a thread whose answers come before it waits never returns |
| `disc_all` | five configurations: answers meet the entry they are for, no message goes to more peers than asked, none waits for ever |
| `disc_empty` (violation) | an empty peer store leaves an entry that a later answer meets |
| `streams_all` | tunnel, tunnel streams, shadower, user poll and three transports: order of commands, routes, no lost wakeup, what is read is what was written, and what is written through a tunnel, a shadower or an external channel is read to its end |
| `stores_all` | bucket tree, file store, selections, web of trust: peers put in the table are found and queries get as many as there are, a stopped store starts again and knows its files, selections are right, promoted signatures exist |
| `stores_converge` (violation) | a cascade of `update_trust` over a cycle of signatures never ends |

Each property of a passing run has at least one mutant in `PROJECT.json`: a change of one mapped
definition, as a slip in the code would make it, under which TLC finds the property violated.

**Bounds.** Three service commands give all orders of two commands around a third (before, between
and after connection, authentication and restart). Two nodes with both connection attempts give
every interleaving of two simultaneous handshakes; `max` streams (4: two per handshake) and
`MaxToken` slab entries never block such a handshake. Three nodes are needed for tokens of
different peers. One message is enough for delivery, two for a write-once stream beside another.
For queries, three nodes in a triangle with three hops let a query come back to its asker, and to a
node that already handles it; two nodes that ask at once give queries with equal ids on different
nodes; three results over two peers exercise the rounding of `nb_proxy_with_nb_res`. Two threads and
two commands of the api give two commands on one `OneResult` and two `OneResult`s; two waiting
messages let an answer meet the wrong one.
Tunnel routes have up to two hops over three peers, so that a peer can leave a route that needs it;
tunnel streams two hops there and one back with up to two attachments, and a proxy buffer below and
above a frame. The blocks of the shadower have two bytes, its messages none to five (below, at and
above one and two blocks; whole ones without padding), two in a row. `UserPoll` has more registrations than it gives events at
once, and fewer descriptors to try than exist. UDP messages are below, at and above the buffer. Keys
of three bits in buckets of two force splits on both sides of our key and merges, beside a leaf and
beside an inner node. The file store has names and contents that collide or not, keys that are not the
hash of their file, and three to five calls. Three peers that sign each other give cycles of
signatures; three calls give a signature, its replacement and its removal, or a list received in
between; six signatures among them are enough for an endless cascade.
The runs bound nothing but these constants, and the counters named as bounds in the modules (`cmds`,
`ticks`, `UMsgs`, `UQueue`, `writes`, `ops`).

**Fairness.** Weak fairness of the steps of the main loop (it polls its channel and its streams
forever), of each service that has input (its spawner runs it), and of connections in progress. No
fairness on what the api asks for in `MainLoop`; in `KVStore` the api sends its query and each store
service handles the commands it has (its thread runs forever, as the comment at `storeprop.rs:125`
asks); which command first is not fair, but a node only has finitely many. In `Api` the threads, the
channels' readers and the notified threads go on; peers answer unless `lose`. In `Discovery` both
loops and the handshakes they start go on. In `TunnelStream` and `Shadower` every service that holds
a stream goes on. In `ExternTransport` the host runs the service when it asked for it (weak), and
strong fairness is given to the host's carrying of bytes and to its commands, which wait for states
that the service leaves and enters again. `update_trust` is a recursion, so it goes on. Write
errors, failed connections, losses and stops are never fair.

**Deadlock** is not checked: a network whose api asks for nothing more is at rest.

## Proofs

`WriteStreamProofs` proves for every set of commands and configurations (any `SEND_NB_ITER`, role,
write-once flag, failures):

* `TypeCorrect`: the type invariant; Boolean and other variables are handled apart because no
  single backend does both.
* `CommandsInOnePlace`: `EachCommandInOnePlace`. The property speaks of the concatenation of the
  three queues; the inductive invariant `PlacesInv` tells it queue by queue (no repetition in each,
  pairwise disjoint, disjoint from `lost`, together equal to `sent` except for the command that met
  a failed service). It rests on lemmas on elements and repetitions of concatenations; what a write
  error does is told once, in `WriteErrorCases`: a part of the buffer is written, a message and
  maybe the command are lost, the rest of the buffer is kept (`Flushed`).
* `NoServiceBeforePong`: `ServiceAfterPong`. It is not inductive: `AuthInv` adds that only service
  messages are buffered, that `with` implies a pong on the wire, and that an initiator's pong is
  only queued after its ping was written.
* `WrittenInOrder`: `OrderOnceSpawned`. The property compares the wire with the order of sending;
  `OrderInv` says that whatever is ahead of another command, in one of the three queues or in a
  queue nearer to the peer, was accepted before it. A step that only moves commands towards the peer
  keeps this by `OrderKept`; a step that spawns the service finds no command sent after the spawn.
  `PlacesInv` is needed so that a command has one position. Only `SEND_NB_ITER` 0 is claimed.

`ApiProofs` proves for any threads, commands and configurations:

* `TypeCorrect`: the type invariant, in three parts (channels, callers, the rest). The counters of a
  `OneResult` are unsigned; that they are never zero is part of it.
* `RefinesCompletion`: `Spec => Refines`. `CountInv` says what the counters are after a number of
  results and failures (they restart at one when complete, and count on), `TakenInv` that only
  threads that returned were given results. `StepCases` reduces the actions to five shapes: a thread
  waits, wakes, is given an answer, an id is handed out, or nothing `Completion` sees happens.
* `AnswersAreOwn`: `OwnAnswers`, with `IdInv`: ids in use were handed out, each to one caller. An
  answer of the main loop to a find with an id its caller chose is the exception the statement names.

`ApiAnswersProofs` adds `AnswersAccounted`: `Accounted`, that the answers a call is owed are handled,
under way, or lost for a reason of the code (a peer that does not answer, a main loop that panicked, a
`TryConnect` to a cached address), each exactly once. Whether a handled answer finds its query is not
part of it; what it then does to the `OneResult` is the subject of `RefinesCompletion`. `Owed` adds up what the channels of the main loop and of the Api service,
the other services, the peers and the `OneResult` hold for the call. The inductive invariant
`AnswersInv` is made of `OwedInv` (the sum is the total of the call once it is sent, and nothing
before), `SentInv` (a thread sends what is in its program), `HeldOnce` (a service holds a call once,
so that what it holds can be added up) and `MsgInv` (which message may be in which channel, and that
a call that waits for answers has its query id before any of them can come: the step in which the
main loop asks the Api service first and forwards afterwards). A sum over a channel is a recursive
function; lemmas from `SumsExist` to `SumSame` show what it is for a sequence that grows at its end,
loses its head or has one message weighed differently, and the lemmas `Pend...` and `Owed...` say
what each action moves from one place to another.

`KVStoreProofs` and `KVStoreAnswerProofs` prove for any nodes, keys, links and query configurations,
with messages lost and delivered in any order:

* `RepliesAreOwn`: `ReplyToOwnQuery`. A reply names its query by an id that each node counts on its
  own, and the property looks at replies only; the inductive invariant `OwnInv` follows the id from
  where it is given: every `Find` under way, every cached query and every reply has a home, the node
  the reply goes to, where the id was given (`Owned`) and, while the entry is there, belongs to the
  query of the same origin. It is kept because ids are never given twice and entries keep their
  origin (`Grows`); `ForwardGrows` shows this for a forward, where a node may put its own id
  in the query in place of the one it received.
* `AnswersComeOnce`: `AnsweredOnce`, the part of `AnswerIsFound` that says a query of the api is
  answered at most once and with values of a key that was asked for. `TokenInv` says that the query
  is in one place, the message of the api, the cache or the answer, with one copy in the bag of
  messages; `KeyInv` that values under way and values gathered in `vres` are of keys their origin
  asked for. Which entry a reply meets comes from `OwnInv`.

The other part of `AnswerIsFound`, that an answer has no more values than were found, sums over all
messages and caches and stays with TLC.

`UserPollProofs` proves for any registrations, tokens, descriptors and sizes of a batch:

* `UserPollTypes` and `UserPollWakesUp`: `NoLostWakeup`. `UInv` adds to the property that a
  registration has a descriptor exactly while it has a token in the user's table, that tokens
  belong to one registration each, and that the item of a registration has the token the user gave
  it, so that an event that is moved, taken or left behind is the one meant. The search for a free
  descriptor (`inc_l`, a loop over the descriptors in the code) is given in closed form by the least
  number of tries that succeeds.

`FileStoreProofs` proves `FileStoreRecovers`: `Recovers`, for any names, contents and number of calls.
`FInv` follows a save step by step: files and caches agree with the names, in memory and on disk;
the saved paths and the saved cache go together except between the writing of one and of the other,
where the paths on disk are those in memory; a file without a key is the one `add_val` is at, or one
that could not be removed. With this a start after a stop at any of these steps meets files it can
read, and `fillref` finds the others. The statement is conditional, as the property is: names tell
contents apart, unchecked keys are hashes, and no `commit_store` was left half done.

`WotStoreProofs` proves for any peers, levels, rules of trust and tags:

* `WotStoreTypes` and `WotStorePromotes`: `Promoted`, with the types of the stores (`WInv`). The work
  is in the operators: `add_sign` adds a signature once and within the size of the list, the trust a
  rule computes stays one, and each way `add_val`, `remove` and a call of `update_trust` change a
  signature changes the lists with it. What came with a list received for the peer is set apart
  (`Received`), since the store does not look at it.

Assumptions: `WriteStreamAssumption` (service commands differ from ping and pong, configurations have
their types), `ApiAssumption` (types of the configurations; a connection asked for is answered; a call
stands for one use of the api, so it is in one program once) and `KVStoreAssumption` (0 is no node,
configurations have their types) are assumptions of the modules and TLC evaluates them. The
theorems about modules that the runs instantiate name theirs: `UserPollConstants` (limits are
numbers, 0 is no token), `FileStoreConstants` (a torn file is neither a set of paths nor a cache) and
`WotStoreConstants` (types, and at least one signature is promoted: `PromSigns::new` always lists
the one it is made with).

**What stays with TLC.** Liveness, and with it the fairness above: the prover has neither `ENABLED`
nor induction over behaviours. Recursive operators and folds over sets: `Discovery`, `Tunnel`,
`KVCache`, `KNodeTable` and the counting of branches and values in `KVStore` (`BranchesCounted`,
`NotFoundIsHonest`) add up over sets and bags or walk a tree. The induction theorems of the library
take an operator and cannot be used; where an induction over the naturals is needed (the sums of
`ApiAnswersProofs`, the least descriptor of `UserPollProofs`) it is done on a set of numbers through
its least element. The invariants of `MainLoop` are not proved: `MainLoopAlive`, `ServiceAfterAuth` and
`OneWriteStream` hold for the configurations of the run and not for all, and `MutualAuth` needs an
inductive invariant that follows every ping, pong, challenge and slab entry of the handshake, whose
proof is too large for the prover. Nor is the byte level of `TunnelStream`, `Shadower` and the
transports.

## What the violations show

* `ml_failed`: `FailConnect` frees a slab entry whose token `address_cache` keeps.
* `api_wait`: `clone_wait_one_result` waits before it looks at the flag.
* `disc_empty`: a subset that finds no peer is not answered, and the entry that waits for its answer
  takes the next one; the assertion at `mainloop.rs:809` then fails.
* `stores_converge`: two levels of a cycle of signatures keep changing each other, although the code
  says that the cascade must converge (`truststore.rs:281`).

`findings` in `PROJECT.json` quotes what each one contradicts.

Some properties are restricted because the code does not keep more; the models reach these cases:

* commands queued before the connection are rotated once, so `OrderOnceSpawned` starts with the
  spawned service; with `SEND_NB_ITER` above 0 a command may stay in the channel of a service that
  has ended until another is sent, so `AllWritten` is about 0;
* after a double connection a stream may have lost its slab entry while it is still registered and
  in `address_cache`: its next event, or a message for that address, ends the main loop, as a refused
  peer does (the code panics there). `MainLoopAlive` excludes every other end, and `Connects` is
  about runs without such events;
* over one-way streams a message sent by a cached address may be written after the first pong and
  before the peer has answered, the case the comment in `pong_inner` warns of. `ServiceAfterAuth` is
  about the other ways and about multiplexed transports;
* a write-once stream may replace the permanent one in
  `peer_cache` and stays in the slab, so `OneWriteStream` leaves such configurations out;
* an asker that has a value itself, or several values that arrive together, can take the number of
  results past `nb_res`, and the query stays open; a node that an Asynch query for several results
  goes through drops its own value. `Returned`, `FoundIsReturned` and (for Asynch) `NotFoundIsHonest`
  are about one result;
* a discovery may write one message twice to a peer that two subsets give; a message looked up by
  key that also asks for routed peers is routed twice, and is not in the run;
* `UserPoll` leaves queued events of a removed descriptor, and ignores a new token given by
  `reregister`; `NoLostWakeup` is about events missing, not about events left over;
* in `KNodeTable` a removal that empties a bucket beside an inner node makes peers unreachable; the
  run reaches it, and `KadComplete` says nothing of the table from there on. The peers a query went
  through are filtered out of the closest ones and not replaced, so it may get fewer than it asks for;
* a `commit_store` that fails or is stopped between its two files leaves them apart, or one that the
  next start refuses; files of one name and different contents overwrite each other; a file of another
  directory is added under a key nobody checks; a content under two names is forgotten under both
  when one is removed. `Recovers` names these cases and is about the others;
* a list of promoted signatures that is received is stored as it came, whatever it lists. `Promoted`
  is about what this store adds;
* a find that the main loop answers itself uses the query id of its caller, which may be one of
  another thread. `OwnAnswers` names this case;
* a message without reply, or a reply, that has several attachments is ended by its reader after the
  first one (`CutShort` in `TunnelStream`); after an empty message under `Native` padding the
  shadower that reads fails (`AfterEmpty` in `Shadower`). `AllRead` and `ReadAsWritten` name them;
* a UDP message of exactly the buffer size is sent and never received.

Some hazards of the code no property is about, besides those `hazards` has a note for:

* `nb_res` is cast to a byte (`rules.rs:55`), so 256 results are asked of no peer; `exact_rand`
  divides by `min_no_repeat`, which may be zero (`kvcache/mod.rs:55`). The runs use smaller and
  greater values;
* the rotation index of `InefficientmapBase2` is not adjusted when a peer is removed; `KVStore`
  leaves the choice of peers free;
* the next query of the peer pool is postponed at every turn of the loop (`mainloop.rs:1303`);
* a tunnel proxy that could not write a whole buffer writes it again from its start
  (`mydht-tunnel/src/lib.rs:551`), and the tag of a shadowed message is read with `read` and not
  `read_exact` (`rsa_openssl.rs:923`); reads and writes of the models give and take what there is;
* removing a signature recomputes the trust of one peer only (`truststore.rs:499`).

## Not modelled

Only what `components` in `PROJECT.json` lists as not modelled or partly modelled. What is input and
output (TCP sockets, encodings, cryptography) is replaced by what its callers can observe. The peer
management service has command types only; the LevelDB store is empty; the file-sharing program is a
command line over an earlier interface; the rest is fixtures of tests. Inside the modelled parts:

* time: expiry of queries and of api entries (no service calls it); the delay of the peer pool is a
  tick that may come at any time;
* failed challenge checks, which panic the main loop (a refused peer does too, and is modelled);
* attachments outside the tunnel;
* restarts of global services, which the main loop never does;
* errors in the middle of a read or write of a shadower or a tunnel stream;
* no authentication in `KVStore`, see above;
* tunnel reply modes that end in `unimplemented!()`;
* liveness, and what recursive operators compute, are model-checked and not proved.
