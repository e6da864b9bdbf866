# BOSSWAVE 2 in TLA+

BOSSWAVE 2 (this repository) is a publish/subscribe router with a decentralised
permission system. This directory models its parts, checks them with TLC on
small instances, and proves the central results with TLAPS for every instance.
Source paths below are relative to the repository.

## 1. The system

### Parts, their state and their operations

| Part | Source | State | Operations that change it |
|---|---|---|---|
| Terminus, the router | `internal/core/terminus.go` | subscription tree, `rstree` (id to node), `cmap` (clients), a queue and a goroutine per subscription | CreateClient and its cleanup, Subscribe, Unsubscribe, Publish |
| Message store | `internal/store`, `internal/level`, `internal/rocks` | two key spaces of messages (plain and interlaced) with empty parent entries | PutMessage, GetExactMessage, GetMatchingMessage, ListChildren |
| Message verification | `internal/core/message.go` | none | LoadMessage, Encode, AnalyzeAccessDOTChain, Verify |
| URI and permission algebra | `util/util.go`, `objects/routing.go` | none | AnalyzeSuffix, RestrictBy, ReduceBy, CheckAccessGrants |
| Registry contract | `contracts/registry.sol` | entities, DOTs (declarations of trust), chains, validity, bounties | AddEntity, AddDOT, AddChain, Check*, Revoke* |
| Affinity contract | `contracts/affinity.sol` | routing offers, designated routers, SRV records, nonces | OfferRouting, AcceptRouting, Retract*, SetDesignatedRouterSRV |
| Alias contract | `contracts/alias.sol` | aliases, the last short alias | SetAlias, CreateShortAlias |
| Blockchain clients | `bc/` | pending transactions | Publish*, Resolve*, GetTransactionDetailsInt |
| Resolution cache | `api/new_resolution.go` | cached entities, DOTs, chains and inverse indexes | resolve, flush on log, flush on expiry |
| Chain builder | `api/chainbuilder.go` | a worklist of partial chains | Build |
| Peers | `api/peerclient.go`, `api/peerserver.go` | connection, reply callbacks, active subscriptions, sessions | transact, rxloop, regenSubs, handleSession |
| Client API | `api/async_full.go`, `api/bosswave.go` | clients and peers by router | Publish, Subscribe, Unsubscribe, Query, List |
| Views | `api/view.go` | metadata, match set, wanted and actual subscriptions | procChange, checkSubs, sub, unsub, PublishInterface |
| Out-of-band adapter | `adapter/oob`, `objects/frame.go` | a connection, one goroutine per frame | one command per frame |

A local program talks to the **out-of-band adapter**, which calls the **client
API**. The API builds a chain of DOTs with the **chain builder** over the
**resolution cache** of the **registry**, finds the router of the namespace
through the **affinity contract**, and hands the message to the local
**Terminus** or to a **peer**. The peer's server verifies the message and hands
it to its own Terminus. Persisted messages go to the **store**. **Views** are
subscriptions that follow metadata.

### What makes it hard

- Terminus: every call runs in a goroutine of its own, a node's slice of
  subscriptions is guarded by two different locks, and a subscription ends
  through any of four routes (unsubscribe, full queue, done client, done
  context).
- Peers: connections break between a request and its reply, and subscriptions
  are sent again with the same id.
- Resolution cache: the chain moves between reading it and caching the answer, and
  the check that flushes stale entries runs late.
- Contracts and their clients: a value is read, a transaction signed, and the
  state may have changed when it is executed.
- Store: one message takes several puts, other writers and crashes come in
  between, and a wildcard query is a tree of goroutines over keys.
- Views: callbacks, queries and subscriptions overlap.

The hazards, each at its line, are in `PROJECT.json`.

### What should be true

The aims, before the qualifications that section 3 found necessary:

Only matching messages are delivered; a subscription ends once and nothing
follows the end; order per publisher is kept; limits hold; everything that is
queued or cancelled finishes. A granted permission is never wider than each of
its DOTs. A revoked or expired object does not become valid again, and no cache
serves it for ever. A designated router always has a standing offer. A request
is answered exactly once. A stored message is found by exactly the patterns that
match it.

## 2. Modules

| Module | Role |
|---|---|
| `UriPattern` | What a URI pattern means, independent of every algorithm in the code |
| `Terminus` | `internal/core/terminus.go`, one action per critical section or unlocked access |
| `Peers` | `api/peerclient.go` and `api/peerserver.go`: a client, the sessions of a router, and connections that break |
| `Store` | `PutMessage` of `internal/store/store.go`: any number of writers, access by access, and crashes |
| `StoreQuery` | Wildcard queries and listings of the store, beside its writers |
| `Grants` | What a chain of DOTs authorises: `util.RestrictBy`, permission sets, TTLs, and `Verify` of `internal/core/message.go` |
| `ChainBuilder` | `Build` of `api/chainbuilder.go` while grants come and go |
| `ChainSearch` | The abstract specification of a search for chains, which `ChainBuilder` implements |
| `Affinity` | `contracts/affinity.sol`: its storage, its five functions, and the scans of its events |
| `AffinityClients` | The client operations of `bc/builtin_affinity.go` and the watcher `GetTransactionDetailsInt` of `bc/api_new.go`, over a chain that forks |
| `Registry` | `contracts/registry.sol`: its storage and its functions |
| `Resolution` | `api/new_resolution.go` over `Registry` in the blocks of a chain that forks, with the reads of `bc/builtin_registry.go` and the cache of built chains of `api/chainbuilder.go` |
| `MCTerminus`, `MCPeers`, `MCStore`, `MCChains`, `MCAffinity`, `MCResolution` | Instances for TLC |
| `TerminusInv` | The inductive invariant of `Terminus` |
| `TerminusTypes`, `TerminusTree`, `TerminusRoutes` | Every step keeps the types; the tree and the walks through it; the routing |
| `TerminusProofs` | The theorems about `Terminus` |
| `StoreProofs` | The theorems about `Store` |
| `AffinityProofs` | The theorems about `Affinity` and `AffinityClients` |
| `ResolutionProofs` | The theorems about the indexes of `Resolution` |

Where an instance would be too large, an instance is cut into *plans*: the value
of `plan` is chosen in the initial state from the constant `Plans` and says which
calls are made and which faults occur. One run then covers several small
instances, and everything a plan allows may happen in any order.

### How Terminus corresponds to the code

A value of `Subs` is one call of `Client.Subscribe`, a value of `Pubs` one call
of `Client.Publish`. The variables keep the names of the fields: `children`,
`subz`, `rstree`, `cmap`, `mqueue`, `stack` and `list` for the recursion and the
client list of a publication. Program counters give the phase of each call
and goroutine: `pc` (Subscribe), `gpc` (its dispatch goroutine), `clpc` (a
client's cleanup), `upc` (an outside Unsubscribe), `ppc` (Publish).

A node of the tree is its path and the call that allocated it, so two nodes that
two calls make for the same path are two nodes.

The slice `subz` of a node is appended to and read under the node's lock, but
filtered in place under `rstree_lock` only. This data race is modelled by its
outcomes: a filter overwrites an append, an append brings back what a filter
removed, and a reader sees each slot before or after the shift (`Views`). Slice
headers are read and written whole.

`late` and `log` are history variables. `after` and `subAfter` say which calls a
caller makes in sequence. A message is its topic, its consumer limit and its
identity.

### How Affinity and AffinityClients correspond to the code

The storage of the contract is a record with a field per mapping of the contract,
and a set per event that clients scan. Each function of the contract maps a
storage and a message to the next storage; `Execute` chooses the function after
the nonce check they share. A message that fails its signature check changes
nothing and is left out.

A value of `Calls` is one call of a client operation. `pc` follows it through
reading the nonce, signing and sending, the two loops of
`GetTransactionDetailsInt` (`seek...` until the transaction is seen, `wait...`
until it is deep enough), and the look at the contract in its callback. The head,
the transaction and the block number of the transaction are read one after the
other, and blocks and forks come in between. As in the code,

- `RetractRoutingAcceptance` goes on after reporting that the offer is not active;
- the callbacks of `CreateRoutingOffer` and `RetractRoutingOffer` overwrite the
  error they get and look at the contract all the same;
- the wait goes on after reporting that the transaction could not be read;
- a failed read of the nonce, or a transaction that vanishes while it is sought,
  panics (`up` becomes false).

The chain is external. A block holds at most one message to the contract. A fork
is a roll-back (`Rollback`) followed by new blocks, and starts at most `ForkDepth`
blocks below the highest head seen. Other programs with the same keys send the
messages of `Foreign`.

### How Peers corresponds to the code

A request of `Reqs` stands for its sequence number. The client's variables keep
the names of its fields (`conn`, `replyCB`, `activesubs`); `rx` is the place of
`rxloop`, `nils` counts the goroutines that are about to call back with nil, and
`todo` what `regenSubs` has still to send. On the server `hpc` follows the
goroutine that `handleSession` starts for each message. The router behind it is
reduced to what sessions see of Terminus: the entry of a subscription, the tree
and `rstree`, with ids that a later session uses again. `Break` may cut a
connection at any moment; TCP keeps order and loses what is under way. A nil frame
or a nil callback that the code would dereference sets `panicked`, and the client
takes no further step.

### How Store and StoreQuery correspond to the code

`db` has a map per column family, plain and interlaced. A put is the sequence of
accesses that `PutMessage` makes: two leaves, then for each family the missing
parents, longest first, up to the first that exists. `Crash` may stop the process
between any two. Keys are sequences of cells, and `InterlaceURI` is computed.

A task of `StoreQuery` is one call of `getMatchingMessage`; tasks form a bag
because two may be alike. A task reads one key or the children of one key per
step, and an iterator reads a snapshot. `Begins` models that the iterator compares
keys by bytes: below `n/a` it also meets what is below `n/ab`. `due` remembers what
was stored when the call began.

### How Grants, ChainBuilder and ChainSearch correspond to the code

`RestrictBy` follows the five phases of the code (`Trim` is the first two) and
returns a set with at most one pattern. `AnalyzeAccessDOTChain` and `Verify` are the
decisions of the functions of these names. In `ChainBuilder` one step takes one
scenario from the worklist and looks up the grants of its last receiver
(`getOptions`); `Grant` and `Revoke` come between steps.

`ChainSearch` knows nothing of a worklist: a search returns only chains of DOTs
granted at some time while it ran, owes each chain among the DOTs granted all along
unless a look-up failed, and ends. `Owed` leaves out chains in which two patterns
both have a star with cells after one of them. The intersection of two such
patterns need not be a pattern, `RestrictBy` then returns a part of it, and `Build`
may miss a chain that `Verify` accepts: for the patterns `*/b`, `b/*` and `b`
`Build` finds nothing, since `RestrictBy` turns the first two into `b/*/b`.

### How Registry and Resolution correspond to the code

A function of the contract maps a storage record to the next one and, where it
emits events, to these (`Logs`). Whether a caller may revoke is decided by the
signature and left out.

`Resolution` has a variable per cache of `new_resolution.go`, with the name of the
code. Each call of the registry client and each hold of the cache's lock is a step
of a thread; `side` and `pc` follow `ResolveDOT`, which looks at the DOT, the giver
and the receiver in turn and caches at the end. `CheckChainChange` collects the
events of the replayed blocks, `HandleLog` handles them one at a time, and blocks,
forks and threads come in between. As in the code,

- a head that moved back, or by more than `MaxJump`, drops every cache, because the
  difference is unsigned;
- a fork to the same height is skipped, and the next block replays over it;
- the age limit never drops the caches: `lastDrop.Sub(time.Now())` is negative;
- `cacheDOT` enters a DOT in the index by receiver only if the index by giver does
  not hold it yet;
- a list of grants is read `Lag` blocks behind the head, and after a new DOT no built
  chain is cached for its namespace for `Holdoff` blocks;
- an object the contract has marked expired causes no event. The cached DOT of an
  expired entity may therefore stay, and `ExpiredLeaves` is about a DOT's own expiry.

Three simplifications: the two reads of `ResolveDOT` in the client, and those of
`ResolveDOTsFromVK`, are one step each; the three short holds of the lock in the
flush for a new DOT are one; chains that threads build have one DOT.

## 3. Runs

| Run | Question |
|---|---|
| `terminus_mixed` | Three overlapping subscriptions (`a/+`, `a/*`, a tap on `a/b`), two publications, queues of one: are types, matching and the consumer limit kept? |
| `terminus_race` | Two subscriptions on one node against an unsubscribe, a cleanup and a publication: is the end of a subscription orderly and is the limit kept under the data race? |
| `terminus_life` | One subscription from start to end, with fairness: is the order of a publisher kept, does at most one message follow a cancel, and does everything that must happen happen? |
| `peers` | Publications, a subscription and its unsubscribe, and a query over connections that break: is nothing delivered twice, is a success true and final, is no active subscription lost without its end, and is every publication answered? |
| `store` | Every pattern of up to three cells below a namespace against every store of one or two messages, and queries and listings beside writers, replacements, expiry and crashes: do prefixes exist, do only racing writers lose a message, does a query return what the reference definition says, once, and does it end? |
| `chains` | Every pair of patterns of up to three cells: is `RestrictBy` the intersection? Searches among DOTs with a cycle, an all-grant and short TTLs: does `Build` implement `ChainSearch`, and does what it finds pass `Verify`? |
| `affinity_calls` | Any of the five client operations, other programs on the same keys, and a fork: is the contract consistent after every block, do messages take effect in nonce order, do scans miss nothing, does what is confirmed stay, is a confirmed offer one's own, and is the caller answered? |
| `resolve` | Threads resolve DOTs, a registered chain and grants while objects are registered, revoked and expire and blocks are checked late or replaced: is each stale or short cache entry one that the replay still flushes, are the indexes complete, does what is valid survive forks, does nothing come back, and do expired DOTs leave? |
| `terminus_rstree` | (violated) Does `rstree` only name nodes that contain the subscription? |
| `terminus_link` | (violated) Is a subscription that was added in the tree? |
| `terminus_taps` | (violated) Do taps leave the consumer limit alone? |
| `peers_lost` | (violated) Is a subscription whose answer was lost made again? |

The four violated properties restate a comment or a document:

- `RstreeContains`: cleanup removes a client's subscriptions from a node by
  client, but `rstree` entries by id. An id that the client's list does not hold
  keeps an entry to a node without the subscription.
- `AddedIsInTree`: two first subscriptions below a missing node both link a new
  branch, and the second link drops the first branch.
- `TapsDoNotCount`: a tap increments the count that is compared with the limit.
- `SubscribeRegenned`: a subscription enters `activesubs` only when its first frame
  arrives. If the connection breaks before, nothing sends it again, and the caller
  is never answered, although the callback expects that "it will just get regenned".

Conditions under which other properties hold, and what happens outside them:

- `LostOnlyToRace`: a put below a topic that runs at the same time as a put on it may
  overwrite the message with the empty parent entry.
- `PathsClosed`: a crash inside `PutMessage` may leave a message whose parents are
  missing, and later puts below it do not repair them.
- `QueryComplete` excepts queries in which a `+` has to wait beside the star
  (`NoPlusWaits`): the base case reads it as a literal cell and finds nothing.
- `QuerySound` and `FoundOnce`: where one stored name begins with another (`a`, `ab`), a
  query for the shorter one may return the longer, and a message more than once.
- `StaleCovered` says that an entry is not stale for ever, not that it is never stale.
  A DOT may outlive the revocation of its receiver once the receiver has been
  flushed before, because the index by receiver then lacks it.

### Bounds

*Terminus.* A queue holds 4096 messages in the code and one or two (`QueueCap`) here,
so that it overflows. Two subscriptions at one node are enough for each race
between an append, a filter and a read: each involves two writers of one slice,
or a writer and a reader. Three patterns cover a wildcard of each kind and a
literal. Two publications are enough to be swapped. `Callers` and `Leavers` say
which ids are unsubscribed from outside and which clients leave, so that each run
has the actors its question needs. Calls are finite, so behaviours end and
deadlock is not checked.

*Peers.* One request of each kind (`calls` of a plan), of which the server may refuse
those in `mayFail`, over two connections, or three (`MaxConns`) for a subscription
alone: the third is the first on which a subscription is made again a second time.
The last connection holds. The client's program stops making calls, so deadlock is
not checked, and the run does not follow the server after the client has died.

*Store.* Topics of up to three cells below the namespace are the shortest on which
interlacing, both ways of splitting a query at its star and a gap between an entry
and its parents all occur. Three puts race on one path in one plan, two in others.
Calls end, so deadlock is not checked.

*Chains.* Patterns of up to three cells are compared on topics of up to five. Twelve
DOTs exist, up to seven of them in one search, with TTLs of at most three, so chains
have at most four.

*Affinity.* One call (`Calls`) is followed among three messages of other programs
(`Foreign`), which stand for a concurrent call too: they offer, retract, and use the
nonce the call has read. One router and one namespace are enough for the order of
offers and acceptances; the theorems cover more. `Confirmations` is 1, `Timeout` 2 (2
and 20 in `bc/connector.go`), the chain has at most `MaxBlock` = 5 blocks and rolls back
at most once (`MaxRollbacks`), by up to `ForkDepth` = `Confirmations` + 1 blocks, the
deepest fork that a confirmation survives. A transaction is only sent when its time
limit fits below `MaxBlock`. The chain ends at the bound, so deadlock is not checked.

*Resolution.* `Lag` is 2, `Replay` 5, `Holdoff` 3 and `MaxJump` 2 (5, 30, 6 and 100 in the
code). `Stall` and `Delay` bound how many blocks appear during one call and before
`checkChainChange` is done. The code has no such bound; its replay works because
blocks are seconds apart. The argument needs
`2 * (Stall + Delay) + Lag <= Replay + 1`: one call may use an entity that a late check
has not flushed, cache it, and pass it on to a second call. The values make this tight
in the run; in the code there is room for 13 blocks. Without the assumption and with
`Replay` = 2 TLC finds `StaleCovered` violated. Ten plans tell one story each, with the chain ending after the
replay has passed the event (`last`). At most one fork of at most `Lag` blocks occurs.

### Fairness

*Terminus*: weak fairness of the dispatch goroutine, of the cleanup goroutine and of an
Unsubscribe call that holds the lock: the Go scheduler runs every goroutine that
can run, and a critical section ends. Nothing is assumed of callers that have not
called. *Affinity*: the network goes on producing blocks, and the goroutine
of a call that has begun is scheduled. Cancelling a call is not fair, so calls are
answered even if nobody cancels them. *Peers*: some goroutine that can take a step
does; calls and breaks need not happen. *Store*: a query and the puts that have begun go on; nothing need expire or stop.
*Chains*: `Build` is one goroutine that runs until it returns. *Resolution*: the
periodic check `checkExpiryInv` reaches each object that has an expiry; the chain,
the threads and `checkChainChange` are not fair.

## 4. Proofs

`TerminusProofs`, with its lemmas in `TerminusTypes`, `TerminusTree` and
`TerminusRoutes`, proves for any clients, subscriptions, patterns, topics, limits and
queue capacity that satisfy `TerminusAssumption`:

| Theorem | Statement |
|---|---|
| `TypeCorrect` | `Spec => []TypeOK`, bounded queues included |
| `OnlyMatchesDelivered` | `Spec => []DeliveredMatches` |
| `EndOnce` | `Spec => []EndIsLast` |
| `OneLate` | `Spec => []AtMostOneLate` |

None of the four is inductive. The inductive invariant `IInv` (`TerminusInv`) adds:

- `Shape`: a node's path spells the way to it, and the slices a node holds, a
  filter is about to store or an append has read contain only subscriptions to
  exactly that path. The races can duplicate or lose an entry, but never move it
  to another node, which is why matching survives them.
- `Walks`: `addSub` is at a node whose path is a prefix of its URI.
- `Routes`: each call of `rmatchSubs` still to be made has matched the part of
  the topic it consumed, so every subscription that is listed, queued, in hand or
  handled matches. The step of the walk is `MatchExtend` in `TerminusRoutes`:
  one cell, `+` or `*` extends a match of the shorter path.
- `Ends`: `handler(nil)` was only called by a goroutine that has ended.
- `Lates`: a message handled after the context was done was the one in hand, and
  the goroutine is not about to handle another.

`AffinityProofs` proves for any routers, namespaces, records, calls and messages of
other programs, and any confirmations, timeout and fork depth that satisfy
`AffinityAssumption` and `ClientsAssumption`:

| Theorem | Statement |
|---|---|
| `DesignatedRouterOffers` | `Spec => []RouterHasOffer` |
| `NonceOrder` | `Spec => []SignerOrder` |
| `ScanComplete` | `Spec => []FindMissesNothing` |
| `ConfirmationFinal` | `Spec => []ConfirmedStays` |

The inductive invariant has two parts. `Chained` says that the storage after each
block is `Good` (typed, offers and routers agree, events cover both), that nonces
never fall along the chain (`NotBelow`), and that a message which changed the storage
used up its nonce (`Used`). A lemma for each function of the contract shows that it
keeps these; a roll-back keeps them because they hold of every prefix. `Settled`
says that a confirmed block is more than `Confirmations` below the highest head, so
that no allowed fork reaches it. It needs the head a call has read to be at most the
highest head, which is true even when that reading is stale.

`StoreProofs` proves for any puts on any topics that satisfy `StoreAssumption`:

| Theorem | Statement |
|---|---|
| `PathsStayClosed` | `StoreSpec => []PathsClosed` |
| `OnlyRacesLose` | `StoreSpec => []LostOnlyToRace` |

`PathsClosed` speaks of moments without a put. In between, a missing prefix has to be
somebody's: `Closed` in the inductive invariant says that each prefix of an entry
exists, is still to be written by a put whose loop is on its way to it (`Owes`), or
belonged to a put that a crash interrupted (`TornAt`). The difficult step is a put that
stops at an existing prefix because "all its parents exist": the existing entry's own
prefixes are covered by the same invariant, and the cover passes to the new entry.
`Kept` says that what a put has stored is there unless an overlapping put wrote, or is
about to write, a dummy over it.

`ResolutionProofs` proves for any threads, entities, DOTs, blocks, forks and plans that
satisfy `RegistryAssumption` and `ResolutionAssumption`:

| Theorem | Statement |
|---|---|
| `IndexesComplete` | `Spec => []CachedIsIndexed` |
| `GiverAlwaysFlushed` | `Spec => [][GiverFlushed]_vars`: handling an event of an entity leaves no DOT cached that it granted |

The inductive invariant `IndexInv` adds the types of the indexes and `IndexedTogether`: a
DOT that the index by giver lists is in the index by receiver too, or its receiver has
been flushed. Without it the step in which `cacheDOT` skips both indexes, because
the first already lists the DOT, could not be followed.

Only model-checked: the liveness properties, which are beyond the prover; the walks of
queries, `RestrictBy` and the refinement of `ChainSearch`, which need induction over
sequences; `ConsumerLimit`, `PublisherOrder` and `ConfirmedOfferIsMine`; the properties
of `Peers`; and those of `Resolution` that speak of how far the replay reaches.

## 5. Not modelled

- **Views** (`api/view.go`). `matchset` is written by several handlers without a lock,
  and subscriptions enter `actual` only in their callbacks, so that whatever a view is
  to promise has to except many of its own steps, and no document says what it
  promises. Four hazards name the places: `PublishInterface` waits for an error
  that does not come when all is well, `interfacesImpl` takes its read lock twice, a
  stored value may replace a newer one, and a check may subscribe twice.
- **Alias contract** (`contracts/alias.sol`). Two functions of a few lines, each one
  transaction; their clients use the watcher modelled in `AffinityClients`.
- **Client API** (`api/async_full.go`, `api/bosswave.go`). Each call builds a message and
  hands it to parts that are modelled. Its own state, the table of peers and the
  message counter, is under one lock each.
- **Out-of-band adapter** (`adapter/oob`, `objects/frame.go`). Parsing and printing of
  frames, one goroutine per frame, no state shared between them but the writer.
- In modelled parts: the certificate check and the end of the context in the peer
  client; errors of chain calls and the alias look-ups of the resolution cache;
  bounties, patents and the administrator of the registry; the logging goroutine of
  Terminus; the ABI clients that publish to the registry.
- Permission DOTs are never evaluated by the code, and `CheckAccessGrants` has no caller
  in the Go build.
- Byte layouts (message and object encodings, ABI, frames), cryptography (a
  signature is valid or not), the embedded Ethereum node, the C headers of the storage
  engine and of the signature library, and the command line. `api/lagger.go`, `api/resolution.go` and `bc/api.go` are
  excluded from the build.
