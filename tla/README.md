# A verification of the Kademlia DHT

TLA+ models of the concurrent parts of this libp2p Kademlia DHT, checked with
TLC on small instances, and theorems about them that TLAPS proves for every
value of the constants. `PROJECT.json` lists the components, the runs, which
lines each definition models, the mutants that show the properties can fail,
and the hazards the properties are aimed at.

## The system

| part | state | operations | what is hard about it |
|---|---|---|---|
| iterative lookup (`query.go`, `qpeerset/`) | the peers' states, the update channel, one goroutine per query | run, queryPeer, followup | a channel nobody reads after termination, cancellation in the middle of dials and RPCs, panics on unexpected updates |
| keystore (`provider/keystore/`) | two namespaces of a datastore, sizes, the active marker | put, delete, empty, ResetCids, Close | a reset writes concurrently with the worker; crashes inside the swap; Close against a running reset |
| message sender (`internal/net/`) | one stream and lock per peer | SendRequest, SendMessage, OnDisconnect | senders removed while others wait for them; retry; read timeouts |
| sweeping provider (`provider/`) | schedule, provide and reprovide queues, workers, ongoing reprovides | StartProviding, StopProviding, timers, online and offline | regions taken from a queue and lost on close or failure; keys queued while a region is being reprovided |
| connectivity checker (`provider/internal/connectivity/`) | online or offline, a mutex, two callbacks | TriggerCheck, probe loop, Close | callbacks under the mutex, Close in between |
| queues (`provider/internal/queue/`) | prefixes in order, keys by prefix | enqueue, dequeue, remove, persist | prefixes that contain one another; persistence in batches |
| buffered and dual provider | a persistent queue of operations | the provider's operations | reordering of operations on one key |
| provider records (`records/`) | cache and datastore of provider sets | add, get, garbage collection | GC against refreshed records |
| routing table upkeep (`dht.go`, `rtrefresh/`, `subscriber_notifee.go`) | table, refresh requests, bootstrap state, lookup checks | Refresh, peer found and gone, fixLowPeers, Close | four loops that signal each other; peers that stop to serve while they are checked |
| optimistic provide (`lookup_optim.go`) | states of the ADD_PROVIDER RPCs | the provide operation | returning before all RPCs are done |
| value search (`routing.go`) | best value, the peers that had it | PutValue, SearchValue, quorum | late answers after the quorum; corrections against puts |
| handlers (`handlers.go`) | value and provider records | PUT_VALUE, GET_VALUE, ADD_PROVIDER, GET_PROVIDERS | expiry against a fresh record |
| accelerated client (`fullrt/`), crawler | the crawled table | crawl, bulk send | three maps swapped one after the other |
| keyspace tries | binary tries | gaps, subtraction, allocation, regions | prefixes that are empty or of full length |

The lookup is used by everything that searches the network. The sweeping
provider reads the keystore and calls lookups; the connectivity checker turns it
on and off; the queues hold its pending work, and the tries its schedule. A value
search is a lookup whose query function asks for a record; the handlers are what
it meets at the other end. The lookups also feed the routing table, which its
loops keep full and clean. The message sender is below all of them.

## Modules

| module | models |
|---|---|
| `Lookup` | one lookup with its followup: `query.go`, `qpeerset/qpeerset.go` |
| `MCLookup` | four peers, one of them faulty; every list of up to K peers as its answer, for the others those that make progress |
| `LookupProofs` | theorems about `Lookup` |
| `KeystoreSpec` | what a resettable keystore promises |
| `ResettableKeystore` | `keystore.go` and `resettable_keystore.go` |
| `KeystoreProofs` | theorems about `ResettableKeystore`: type, one reset at a time, silence after Close, what a swap installs, the exact size, and that it implements `KeystoreSpec` |
| `MCResettableKeystore` | the keystore on a few keys and one or two resets |
| `MessageSender` | `internal/net/message_manager.go` for one peer, `dht_net.go` as that peer |
| `MCMessageSender` | two calls |
| `MessageSenderProofs` | theorems about `MessageSender`: type, who owns locks and streams, how often a message is written, that a request gets its own response |
| `MessageSenderMap` | the map of senders: no invalid sender stays, no stream is forgotten |
| `ProvideQueue` | `provider/internal/queue/` as operators on queues of bit strings |
| `ProvideLoop` | the provide side of `provider/provider.go` with `provider/internal/connectivity/` |
| `ProvideQueueProofs` | lemmas about the queue's operators |
| `ProvideLoopProofs` | theorems about `ProvideLoop` |
| `MCProvideLoop` | the provide loop on two or three keys |
| `Keyspace` | what the operations of `provider/internal/keyspace/` compute, said of sets of prefixes |
| `KeyspaceTrie` | `provider/internal/keyspace/trie.go` as recursive operators over branches |
| `KeyspaceTrieReference` | that `KeyspaceTrie` computes what `Keyspace` says, as assumptions TLC evaluates |
| `ReprovideSchedule` | the reprovide side of `provider/provider.go` |
| `MCReprovideSchedule` | the schedule on four keys of three bits |
| `ProviderStore` | `records/providers_manager.go` and the handlers that use it |
| `ProviderStoreProofs` | theorems about `ProviderStore` |
| `MCProviderStore` | three records of two keys |
| `ValueRecords` | the value records of a node: `handlePutValue`, `handleGetValue`, `getLocal`, `putLocal` |
| `ValueSearch` | `PutValue` and `SearchValue` of `routing.go` over nodes of `ValueRecords` |
| `ValueSearchProofs` | theorems about `ValueSearch` |
| `MCValueSearch` | the searching node and two servers |
| `RoutingUpkeep` | the loops of `dht.go`, `subscriber_notifee.go` and `rtrefresh/` |
| `MCRoutingUpkeep` | three peers in two buckets |

### Lookup

A peer is its XOR distance to the target, which is injective, so "closer" is
`<`. The actions of `Caller` are the steps of the goroutine that runs
`runLookupWithFollowup`: an iteration of `run()` is one action (`ReceiveUpdate`
or `PathCancelled`, whichever case of its select fires) including the
termination test and the spawning of queries. `queryPeer(p)` is the goroutine of
a query: its dial, its RPC, what it does to the routing table and its send on
the channel. The channel has its capacity; sending blocks when it is full, and
nobody reads it once the loop has ended. The environment cancels the context,
changes the answer of the stop function (which need not be sticky), makes peers
fail and lets faulty peers answer anything. An RPC runs under the query's
context, a dial under the path's, as in the code.

Left out: `recordValuablePeers` (it only updates the routing table's usefulness
statistics), events, spans.

### ResettableKeystore

`store[n]` is the content of a namespace, `marker` the persisted name of the
active one, `active` the one in memory. The worker serves one operation at a
time; a put during a reset is three actions (look up in the alternate namespace,
commit there, put to the active one) because `ResetCids` writes to the alternate
namespace from the caller's goroutine. The response channel of the start
operation is unbuffered and its caller may go away. A datastore operation may
fail with any part of its batch applied, at most `MaxFailures` times. `Restart`
may happen in every state: it is both a crash and a restart after `Close`.
`Sync` is not modelled: what was committed is durable. (The code calls it on the
active namespace after it wrote to the alternate one, `resettable_keystore.go:258`.)
`incoming` and `since` are history variables: the keys of the reset in progress
and the keys put since it began.

`KeystoreSpec` says what a user of the keystore relies on: the keys that would be
there after a crash now change by puts and deletes, and by a reset in one step.
The refinement mapping takes the namespace the marker names for the keys.

### MessageSender

Peers share only the map's mutex, held for atomic steps, so one peer is
modelled. A `peerMessageSender` is named after the call that created it. A call
goes through `messageSenderForPeer` (`Call`, `PrepLock`, `OpenFirst`, `Remove`)
and then through `SendRequest` or `SendMessage` under the sender's lock. `in` and
`out` are the messages under way on a stream; a message is the call that sent
it, so the response carries the request it answers. The network resets streams
at any time; the peer's handler (`HandleNewMessage`) reads one message and
answers it if it was a request. Contexts are cancelled or expire, which the code
treats differently after a read. `OnDisconnect` runs whenever the map has a
sender, and its goroutine (`Invalidate`) waits for the lock; that this wait fails when
the DHT closes (`message_manager.go:61`) is left out, as Close is.

### ProvideQueue and ProvideLoop

A key is the bit string of its Kademlia identifier. A provide queue is the
sequence of its prefixes and the set of its keys; `ProvideQueue` has an operator
for each method, and `DrainDatastore` skips the entry of the empty prefix as the
code does (the datastore cleans its key). `ProvideLoop` runs it:

- `client` is a call of the API, from the keystore to the last group it queues
  and the goroutine it starts; grouping may find any prefixes of the keys, since
  the schedule is not modelled here;
- `pending` counts goroutines that will try the loop's lock, `loop` is the one
  that has it, `late` the goroutine of `catchupPendingWork`. The test of the
  queue and the unlock are separate steps, as are the test for Close, the wait for
  a worker with the dequeue, and the job of the worker;
- `job[w]` is a `batchProvide`: few keys one by one, otherwise explore, take the
  keys queued meanwhile, send region by region. Exploring may find a shorter
  prefix and any split of it into regions;
- `reprovide` is a `batchReprovide` as far as it touches the provide queue;
- `checker` is the goroutine that holds the connectivity checker's mutex, from a
  check or the start through the probe loop to the callbacks. `onOffline` and
  `onOnline` are several steps, since calls go on meanwhile;
- `close` follows `Close`: the wait, the cleanup functions in their order, the
  checker's Close. `Restart` is a new provider on the same datastore (with
  `WithResumeCycle`).

`owed` is history: the keys queued and not provided, stopped or cleared since.
`dropped` and `abandoned` are the owed keys that a reprovide, or a closing
provider, took and did not send (see the divergences). Delays are abstracted: a
timer may fire whenever it is armed. A node without addresses gives the keys of
a batch up (`provider.go:1664`), which counts as a failure here: these keys are no
longer owed. `Persist` always succeeds (see the divergences for its context), and the
test for Close and the `TryLock` at the start of `onOnline` are one step.

### Keyspace, KeyspaceTrie and ReprovideSchedule

In `Keyspace` a trie is the function from its keys to their data; the schedule is
such a trie. In `KeyspaceTrie` it is a leaf or two branches, as in the code; a trie
that lost keys keeps its branches, so the operators there work on the structure.
`KeyspaceTrieReference` states that both agree, and TLC evaluates it in each run of
the schedule for all 677 sets of up to three bits in which no prefix covers
another, and for every trie that had one more key (pairs of tries for
`SubtractTrie` have two bits).

`ReprovideSchedule` keeps the schedule trie, its cursor and the timer. Time is
the offset in the reprovide cycle: the clock shows odd numbers and regions come
due at even ones, since the clock is never exactly at a region's time. Work takes
no time: the clock ticks when nothing is left to do, and a tick at another moment,
or of more than a cycle (a suspended machine), is one of `MaxEvents`. `timerFires`
is the receive from the timer's channel, `handleReprovide` what follows it; other
goroutines may change the schedule in between. A worker goes through
`batchReprovide` in the steps at which it gives up the schedule's lock: load the
keys, provide few of them one by one or explore, claim regions, reload the keys
when exploring covered a shorter prefix, unschedule, and send region by region.
Exploring may find peers with any common prefix of `MinLen` to `MaxLen` bits and any
split of it into regions, since the peers decide that. The common prefix may be
shorter than the prefix asked for, longer, or beside it. `onOnline` and `RefreshSchedule` scan the schedule
under one lock and insert under another. `Restart` keeps the keystore and, with
`resumeCycle`, the history of reprovides and the clock.

Two history variables name what the properties except:

- `overtaken`: the timer was set again between its tick and `handleReprovide`, or
  the tick was handled late. The cursor's region may then be one that is not due,
  and regions wait for the next cycle;
- `exposed`: keys that the code is about to lose, or has lost, on one of four paths:
  - a key added after a worker loaded the keys of its region and before it
    unschedules it (`provider.go:1718`, `1778`);
  - the keys under a region whose claim was not released because reloading the keys
    failed (`1758`);
  - the keys of the prefix asked for that are outside the common prefix of the peers
    found (`1778`, `1781`, `keyspace/trie.go:633`): they are in none of the regions,
    so they are not sent, but the prefix leaves the schedule with them;
  - the keys of a gap that `ContainsPrefix` could not look up while the node came
    online (`2085`).

  A key is lost until the next `RefreshSchedule`, on the second path until a restart.
  The properties of the passing run say that with one worker there is no fifth path.

The keystore is taken to be a resettable one (`RefreshSchedule` then queues everything
when it inserts more regions than it found). One refresh runs at a time, and the last
lock of `onOnline`, under which the expired regions are queued, is part of the step
that inserts the missing ones. `skipBootstrapReprovide` is not modelled.

### ProviderStore

The goroutine of the manager handles one case of its `select` at a time, so every
case is one action. A record is a pair of a key and a peer, its age capped just
above `ProvideValidity`. `dstore` is the datastore, `cache` the LRU cache in the
order of use; an entry is `partial` when a datastore error hid a record while it
was filled. A garbage collection round takes a snapshot of the datastore
(`gcRes`) and deletes from it record by record between other cases; `gcSkip` has the
records added meanwhile. `added` is history: the age of each record's last
successful announcement. The delay of a tick in the timer's channel is bounded by
`MaxDelay`. A failing read, write or query is one of `MaxFailures`. The address
book and autobatch's buffer (a crash loses what it holds) are left out.

### ValueRecords and ValueSearch

A value is its rank, for `Validator.Select` orders values; 0 is no record. In
`ValueRecords` a PUT_VALUE is two actions under the striped lock, the read of the
existing record and the write; a GET_VALUE that finds a record too old deletes it
in a second action, without the lock, as the code does. `putLocal` and `getLocal`
take no lock either.

`ValueSearch` runs one `SearchValue` over these nodes: the lookup's goroutines
(`Ask`, `Answer`, `SendVal` with its `select` on the context), the loop of
`processValues` (`Receive`), the send to the caller (`Emit`), the end of the
lookup, and the corrections that `updatePeerValues` sends to the peers with a
worse value or none. Next to it a user calls `PutValue`. What the lookup does with
the answers is the module `Lookup`; here it may ask any server, at most `Alpha` at a
time. `Select` orders any two valid values; that it returns an error
(`routing.go:241`), which skips the value, is not modelled.

### RoutingUpkeep

`rt` says of each peer whether it is out of the table, in it, or in it and
replaceable; buckets have `bucketSize` places. Four loops share it: the event
subscriber (`handlePeerChangeEvent`), `rtPeerLoop` (`addPeer`, `refreshFinished`, the
end of the bootstrap phase), the low-peers loop (`fixLowPeers`,
`connectBootstrapPeers`) and the refresh manager (`mgrSelect`, `pingAndEvictPeers`,
`refreshCpls`, the signal to `rtPeerLoop`, `answer`). A lookup check runs for a peer
that was found, if `capacity` allows; it may reject a peer that names no other once
the table has `bucketSize` peers. The peerstore may fail when the subscriber reads it
(`handlePeerChangeFails`). Peers connect to us and disconnect at any time.
`serves` is which peers run the protocol; it changes at any time, and identify tells
us in the same step if we are connected. Which buckets a refresh finds eligible is
left open, so a refresh over an empty bucket may end with the signal or without. Tickers may tick
whenever their loop waits. `Close` cancels the context (`Cancel`) and waits for the
loops (`Exit`).

## Runs

| run | what it shows |
|---|---|
| `lookup` | four peers that may all fail, one of which may lie, alpha = 2, cancelled or stopped at any time. The channel has room for every update to come (`ChannelHasRoom`), no panic of `updateState` is reachable, no healthy peer is evicted because its dial was aborted, nothing runs after the return, every result of a completed lookup was queried, the lookup returns, and with fewer than beta peers faulty and the others with Kademlia's progress property an undisturbed one queries the closest good peer of the network |
| `keystore_refinement` | two callers of `ResetCids`, puts and deletes of overlapping keys, Close, a crash: the keystore implements `KeystoreSpec`, and nothing is written once Close has returned |
| `keystore_failures` | a failing datastore operation and two restarts: a swap never installs an incomplete reset; Close and ResetCids return; as long as nothing failed Size is exact |
| `message_sender` | two concurrent calls, streams that die, contexts that end, disconnections: a response answers the request of the call that gets it, no stream is forgotten unless a context ended, every call returns |
| `provide_loop` | two calls, two workers, a failed send, a reprovide, Close: the queue stays well formed (`TypeOK`), no owed key is lost but those a reprovide drops or Close interrupts, nothing runs after Close has waited |
| `provide_loop_restart` | an outage, Close and a restart: queued keys survive, leave the queue in the end, and Close returns |
| `provider_store` | announcements, reads, garbage collection and datastore failures: a live record is never collected, the cache's answers are complete, and a record that expired is forgotten |
| `value_search` | a search with or without a quorum, a put and corrections, records that grow too old, a cancellation: what the caller reads gets better and ends with the best answer, the peers of the result end up with it, no server's record gets worse by puts, and the search ends |
| `rt_upkeep` | peers that come, go and stop to serve, refreshes, Close at any moment: an empty table fills again, a peer that does not serve leaves, every Refresh is answered, Close returns, and lookup checks give their places back (`TypeOK`) |
| `reprovide_schedule` | one worker and one event (a failure, an outage, a restart, a call or a late tick): the timer waits for the first region due, no key of the keystore but the exposed ones is without a scheduled region once the provider is at rest; such a key is sent within one cycle per length of regions while nothing fails, and again and again whatever happens |
| `reprovide_two_workers` | expected to fail: with two workers a `RefreshSchedule` during a reprovide makes a region leave the schedule for good (see the findings) |
| `reprovide_delay` | expected to fail: without any fault two reprovides of a key are more than the interval and the delay apart (see the findings) |

The findings. `reprovide_two_workers`: while a region is being reprovided it is
not in the schedule, so `RefreshSchedule` takes it for a gap and schedules it. A
second worker reprovides it then, explores, and claims nothing, because the
first one still has the claim. The first one finishes and finds the region
scheduled; the second one unschedules it (`provider.go:1776`) and provides none of
its regions, so nobody puts it back. The keys wait for the next `RefreshSchedule`
or restart.

`reprovide_delay`: `provider/options.go:146` says that "The interval between 2
reprovides of the same region is at most ReprovideInterval+MaxReprovideDelay." When a
region has one key, `individualProvide` schedules the prefix that the key's peers cover
in place of the region (`provider.go:1868`). A shorter one subsumes the regions beside
it (`569`), whose keys were not sent; they wait for the merged region, up to almost
two intervals. The minimum of line 560 that should limit the delay has no effect, as a
region's time is less than the interval and the limit is not. What holds is
`ReprovidedInTime`: one interval for each length a region may have.

Bounds. Four peers with alpha = 2 give a lookup that has peers in every state at
once, updates that wait in the channel when it terminates and a followup of
several peers; every subset of up to K peers is a possible answer of the faulty one.
The same properties were checked with four faulty peers (but `ClosestGoodFound`), with
two and beta = 3, with `Self` outside of the network, and the invariants with five
peers. Two resets and
three keys give a key in both the reset and a put, a batch that is full and one
that is not, and a second reset on what the first left. `MaxFailures`,
`MaxRestarts` and `MaxResets` bound what the environment does. Two calls and
three streams give a sender that is shared, replaced and retried; the constant
`streamReuseTries` is 0 so that one retry reaches the mode of one message per
stream. Two keys that share a bit, prefixes of one or two bits and a threshold
of one key give queued prefixes under one another, batches and single provides,
and exploration that covers more than was asked. Calls use one of the keys or
both. A cache of one entry for two keys evicts on every change of key; records
that expire after one tick and rounds every two ticks give rounds that see a
record expired which was announced again since. Two servers, one of which has no
record, give a best value that comes first or last, a server to correct and one
that fails. Buckets of one place give full buckets, gaps and replaced peers. Four
keys, regions of 0 to 2 bits and a threshold of two keys give regions that split,
merge, are provided one by one or explored; the bound on the time between two
reprovides is one cycle for each length a region may have, because a region that
changes its length may come due right after it was sent, or have been due right
before. `MaxEvents` is 1 there; instances with `MinLen = 1` and two events were
checked as well. `CHECK_DEADLOCK FALSE` is used where the program may come to rest.

Fairness. Weak fairness of a goroutine's steps: the Go scheduler runs it, and dials,
RPCs and datastore operations end. Strong fairness of the choices of a `select`,
which picks at random among the ready cases (the worker of the keystore, the loop of
the provider store, the refresh manager and the exits of the loops), and of
`LateDone`, which only the bound `MaxPending` disables, and of
`handlePeerChangeEvent`: the peerstore does not fail for ever. In the message sender
a write ends because its peer reads or resets the stream, as the peer's idle timer
makes it do; the code gives it no timeout of its own. A probe that may succeed does
in the end: outages are finite. In the reprovide schedule time passes for ever,
which with a clock that waits for the work at hand means that every goroutine gets
to run. Nothing else is assumed of the environment: no cancellation, crash or
operation has to happen.

### Divergences met while modelling

These disagreements with comments of the code have a property and a
configuration that shows them, with the property violated:

- `MCKeystoreCancelled.cfg`, `CancelledResetIsCleanedUp`: a reset whose context
  ends while the worker handles its start (`resettable_keystore.go:370`) leaves
  `resetInProgress` set and the worker blocked on an answer nobody reads
  (`:308`), and with it every operation and Close. Line 351 says: "The operation
  can be cancelled via context, which will clean up partial state.";
- `MCMessageSenderForgotten.cfg`, `SenderNotForgotten`: a call whose context ends
  while it waits for the lock of the sender it inserted deletes it from the map
  without invalidating it (`message_manager.go:153`); another call that had taken
  it opens a stream nobody finds again. Line 174 promises that a sender is
  invalidated before it is removed;
- `MCProvideLoopDropped.cfg`, `ReprovideSendsWhatItDrops`: `batchReprovide` discards
  all queued keys of its region (`provider.go:1770`), also those that `ProvideOnce`
  queued and those queued after it loaded the keys. Line 1768 says: "No need to
  provide them anymore since they are about to be reprovided.";
- `MCProvideLoopClosed.cfg`, `CloseKeepsQueue`: a region dequeued while the provider
  closes (`provider.go:1593`) is in no queue when the queue is persisted, which
  `options.go:317` says happens on close;
- `MCRoutingUpkeepSignal.cfg`, `RefreshSignalled`: `doRefresh` returns from the
  branch for a gap in the table (`rt_refresh_manager.go:273`) without the signal to
  `rtPeerLoop`. Line 57 says: "write to this channel after every refresh";
- `MCReprovideScheduleSparse.cfg`, `EveryKeyReprovided`: when the peers found for a
  region share a prefix that does not cover it, the region is unscheduled, its keys
  outside of that prefix are not sent, and no later step schedules them
  (`provider.go:1778`, `1781`). `provider.go:1981` says: "The keys will be periodically
  reprovided until StopProviding is called for the same keys or user defined garbage
  collection deletes the keys."

Others, each visible in the model when a property is written for it:

- a key that a put and a reset add at the same moment is counted twice
  (`resettable_keystore.go:254`), so `SizeExact` supposes disjoint keys;
- a put whose copy to the alternate namespace fails succeeds and is lost at the
  swap (`resettable_keystore.go:215`);
- `ResetCids` returns nil when Close ended the worker before the swap
  (`resettable_keystore.go:382`);
- a failure to write the marker is logged and the swap goes on
  (`resettable_keystore.go:327`): a restart opens the other namespace;
- a key put and deleted during a reset is back after it, because delete works on
  the active namespace only (`resettable_keystore.go:177`);
- with prefixes of length 0 (a network smaller than a region) the persisted
  provide queue is not loaded (`queue/provide.go:351`): `NoKeyLost` fails with
  `MinLen = 0` at the restart;
- when all peers of a region share a longer prefix, the keys outside of it match
  no region and are dropped (`provider.go:1697`): `NoKeyLost` fails with
  `Sparse = TRUE`;
- what `sendProviderRecords` had not sent when the provider closed counts as sent
  (`provider.go:1002`);
- a lookup whose context is cancelled before its first iteration reports
  `completed` (`query.go:243`): its empty peerset looks like starvation;
- the context with which `Close` persists the provide queue is already cancelled
  (`provider.go:497`, before `504` runs the function of `336`): in a datastore that
  heeds it nothing is persisted. `Persist` in the model succeeds;
- a region that has lost its keys stays in the schedule (`provider.go:1724`),
  although `RefreshSchedule`'s comment says a reprovide removes it;
- a GC query that fails leaves the provider store's timer stopped for ever
  (`records/providers_manager.go:229`); `ExpiredForgotten` excepts it;
- a read of provider records that meets an error is cached as complete
  (`records/providers_manager.go:350`): the entries marked `partial`;
- the search with a quorum ends at one response more than the quorum
  (`routing.go:210`).

## Proofs

`LookupProofs` proves, for all sets of peers and all alpha, beta and K:

- `TypeCorrect`: `TypeOK` is an invariant;
- `ChannelNeverFills`, `NeverPanics`: `ChannelHasRoom` and `NoPanic`. Neither is
  inductive. The argument counts: the peers that are Waiting are exactly those
  whose goroutine runs or whose update is in the channel, each once; at most
  alpha peers are Waiting when queries are spawned; the seed update is in the
  channel only while nobody is Waiting;
- `OnlyFailuresEvict`, `ReturnsClean`, `CompletedQueriedTopK`: the action
  property and the two invariants about the return. The followup's loop
  invariant says that the tokens in `doneCh` and those received are the
  followups that are done;
- `Resilience`: `ClosestGoodFound`. Its invariant: among the peers known and
  not unreachable there is always a good one, and the closest good peer that was
  queried has named a closer good one, so that it is known; fewer than beta
  faulty peers then cannot fill the beta closest places.

The assumptions are the ASSUMEs of `Lookup`, which TLC evaluates in the runs:
finite sets of peers, alpha and K positive, and for `Resilience` the progress
property of good peers.

`KeystoreProofs` proves, for all finite sets of keys, all sets of callers and all
bounds:

- `KeystoreTypeCorrect`: `TypeOK`;
- `OneResetHolds`, `NoWriteAfterCloseHolds`: from `Control`, which ties the
  place of every caller of `ResetCids` to `resetInProgress`, the worker, the
  token of `altPutSem` and Close. The step that matters is `opStart`: a caller is
  past its start only while `resetInProgress`, and the worker that answers one
  has refused the others;
- `SwapInstallsResetHolds`, with datastore failures: from `AllFed`, which
  follows every key of a reset from the channel through the batch into the
  alternate namespace, and `Exact`, which says that as long as nothing failed
  this namespace has the keys put since the start and no others but the reset's;
- `SizeExactHolds`: `SizeExact`, which speaks of the moments at which the worker
  rests, from `SizeInv`, which follows the counters in between. `Counted` has the
  size of the active namespace; `AltCounted` says that `altSize` counts the keys
  of the alternate namespace together with the ones a reset has counted and not
  committed yet (`Pending`); `Missing`, that the keys a put or a reset is about to
  add there are not there yet; `Saved`, that a size in the datastore was saved by a
  Close no session has followed. A put and a reset that add the same key both
  count it, so the counters are exact only under the hypothesis of `SizeExact`
  that their keys are disjoint; `KeysFrom` says where the keys of a put and of a
  reset come from, which is what keeps them disjoint;
- `RefinesKeystoreSpec`: if no datastore operation fails (`MaxFailures = 0`),
  `ImplementsKeystoreSpec`. `Marks`, a part of `SizeInv`, says that the durable marker names the
  active namespace but between the swap and the marker's write, which is
  therefore the step that replaces the keys. With failures the refinement does
  not hold: see the divergences above.

The assumption is the ASSUME of `ResettableKeystore`. `Control`, `AllFed`,
`Exact` and `SizeInv` are inductive only together with the ones before them. TLC
checked `SizeInv` with two resets, a failure, cancelled calls and two restarts.

`MessageSenderProofs` and `MessageSenderMap` prove, for any number of calls,
streams and retries:

- `MessageSenderTypeCorrect` and, from who holds a sender's lock at which place
  (ownership: a lock has one holder, a stream one sender),
- `WritesBounded`: a call that writes a second time has set `retry`;
- `ResponsesMatch`: `ResponseMatches`. What is under way on a stream belongs to the
  call that holds its sender's lock; a call that gives up or times out drops the
  stream before it releases the lock, so that no late response meets another call;
- `InvalidSendersLeave` and `StreamsKept`: `InvalidLeavesMap` and
  `NoStreamForgotten`. A sender outside of the map is invalid or about to be
  invalidated by a call or a disconnection under way, and an invalid one opens no
  stream; only the end of a context breaks this, which is the divergence above.

`ProviderStoreProofs` proves, for any set of records, cache size and intervals:

- `ProviderStoreTypeCorrect`: `TypeOK`, with the bound on the cache;
- `AddedRecordsSurvive` and `CacheAnswersComplete`: `AddedSurvives` and
  `AnswersComplete`. Neither is inductive. `RoundKnows` says that a round would
  delete only records that are absent, expired by their last announcement, or in
  `gcSkip`; it holds because an announcement during a round adds to `gcSkip`, and
  because a record only gets older. `CachedOnce` says that a key has one entry in
  the cache, without which an announcement could update another entry than the
  one a read finds.

`ProvideQueueProofs` and `ProvideLoopProofs` prove, for any finite set of keys,
any number of workers and all lengths of prefixes and bounds:

- lemmas about the operators of the queue, each saying what is in the queue
  afterwards and that it is well formed: `EnqueueQueue`, `DequeueQueue`,
  `DequeueMatchingQueue`, `RemoveKeysQueue`, and `PersistEntries`,
  `UndrainedEntries` and `DrainQueue` for its persistence. What a loop over the
  prefixes or the entries computes is shown by the least index at which it would
  be wrong (`LeastNat`, `IntervalInduction`);
- `ProvideLoopTypeCorrect`: `TypeOK`, which says that the queue is well formed: no
  prefix covers another, each has a key and each key a prefix. `Push` is the step
  that matters, which may replace several prefixes by one;
- `NothingAfterCloseHolds`: `NothingAfterClose`, a part of `LoopInv`;
- `NoKeyLostHolds`: `NoKeyLost`, from `LoopInv`, which ties what each worker has to
  the prefixes it has it for: before exploring the keys are under the region's
  prefix, so what exploring covers has them, and while sending each is under one
  of the regions, so none is left when the last region was sent. It supposes
  `MinLen > 0` and `~Sparse`, for without them `NoKeyLost` is false: see the
  divergences above.

The assumption is the ASSUME of `ProvideLoop`.

`ValueSearchProofs` proves, for any finite set of nodes, any number of values, any
alpha and quorums:

- `TypeCorrect`: `TypeOK`, with the bound on the responses counted, for which
  `CountInv` has the values that were sent and those still to come;
- `NewestStaysTheorem`: `NewestStays`, from `LockInv`: what a PUT_VALUE read under
  the lock is at least as good as the record that is there when it writes, also if
  a GET_VALUE deletes the record in between;
- `BestReturnedTheorem`: `BestReturned`. `OutInv` compares what was streamed with
  the best value so far, and `ValInv` says that a value answered with is at most
  the best one or is still in the channel, which is empty when the search ends by
  itself;
- `CorrectedTheorem`: `Corrected`. `FreshInv` says that while no record has grown
  too old a server has what it answered with or something better, so that only the
  peers outside of `peersWithBest` need a correction, and that each of the others
  in the lookup's result has been sent one.

The assumptions are the ASSUMEs of `ValueRecords` and `ValueSearch`. TLC checked
`LoopInv` and `SearchInv` on the instances of the runs before they were proved.

Left to TLC:

- liveness (TLAPS does not do fairness or ENABLED): every property stated with `~>`
  or `FairSpec`;
- the tries of `KeyspaceTrie`: the operators are recursive, which TLAPS does not
  support, and what they compute for every input would take an induction over data;
- the reprovide schedule (`TypeOK`, `CursorIsNext`, `KeysScheduled`,
  `ReprovidedInTime`), whose operators fold over the schedule in order;
- `TypeOK` of `RoutingUpkeep`, whose other properties are all liveness.

## Not modelled

- Optimistic provide (`lookup_optim.go`): whether it returns early depends on the
  network size estimate, a floating point statistic. Read only: `waitForRPCs`
  waits on `doneChan` for RPCs, and if none was started nothing arrives.
- The accelerated client (`fullrt/`) and the crawler: a second DHT client over a
  crawl of the network.
- The buffered and dual providers and the dual DHT: wrappers that queue or forward
  calls.
- In `dht.go` the change between client and server mode, and construction; in
  `routing.go` Provide, FindProviders and FindPeer, which run a lookup and collect
  its answers; in `provider.go` the allocation of the keys of a region to its peers
  (`AllocateToKClosest`) and the walk of `closestPeersToPrefix`, of which only the
  regions that come out are kept.
- `providers/`, a deprecated copy of `records/`.
- Network size estimation (floating point), statistics, metrics and events (no
  control depends on them), encodings and generated code, options, address and
  diversity filters.
