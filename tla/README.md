# Crabster in TLA+

TLA+ modules, TLC configurations and TLAPS proofs for Crabster, a streaming
server in the manner of Icecast (`src/` is the repository root; paths below are
relative to it, and `lib.rs` alone is `src/lib.rs`).

The server is one process on a multi-threaded tokio runtime. Each connection is
a task. Tasks share maps (`DashMap`), atomic counters and flags, and locks that
are held for one access at a time; nothing is held across an `.await`. What can
go wrong is what happens between two such accesses, and that is what the models
are about: one action is one access.

## Inventory

| Component | State | Operations | Talks to |
|---|---|---|---|
| Source registry, `SourceManager` (`crabster-core/src/source/mod.rs`) | map mount -> `Arc<Source>` | `register`, `unregister`, `get`, `mount_exists` | written by source tasks and edge relays, read by everybody |
| Source connections (`handle_source`, `handle_shoutcast_source`, `run_source_stream` in `lib.rs`) | where the task is; `Source.connected` | admission, register, pump bytes into the ring buffer, unregister | registry, ring buffer, accounts, statistics |
| Ring buffer (`source/mod.rs`) | bytes, `write_pos` | `write`, `read(offset)`, `current_position` | written by the source, polled by listeners, HLS and watchers |
| Listener manager (`crabster-core/src/listener/mod.rs`) | map mount -> listeners, `total_listeners` | `add_listener`, `remove_listener`, `kick_listener`, listings | listener tasks, REST API |
| Listener connections and fallback (`resolve_source_with_fallback`, `handle_get`, `move_listener_to_fallback` in `lib.rs`) | requested and serving mount, source held, read position | resolve, join, stream, fail over, move back, leave | registry, manager, statistics, ring buffer, mount settings |
| Statistics (`crabster-core/src/stats/mod.rs`) | counters of each mount and of the server | `ensure_mount`, joined and left | source and listener tasks, XML and JSON documents |
| REST API (`crabster-api`) | none of its own; a cache of health checkers | listings, kick, metadata, health, HLS | all managers |
| In-stream ICY metadata (`IcyMetaParser`, `IcyMetaInserter` in `lib.rs`) | parser state, byte countdown | strip blocks from a source, insert blocks for a listener | source and listener tasks |
| HLS packager (`crabster-hls`, `routes/hls.rs`) | sessions: read position, pending bytes, window of segments | poll, seal a segment, playlist, segment, clean up | registry, ring buffer |
| Cluster (`crabster-cluster`: `origin.rs`, `edge.rs`) | watchers of mounts, a channel per edge, an edge's relays | watch, broadcast, subscribe, burst, forward, relay | registry, ring buffer, other servers |
| YP worker (`crabster-core/src/yp/mod.rs`) | entry per mount: session id, next update | add, touch, remove, retry | registry, a directory over HTTP |
| Health (`crabster-health`) | last listener count of each mount, a bounded queue of alerts | check, raise and acknowledge alerts | registry, statistics, REST API |
| Analytics (`crabster-analytics`) | a ring of samples and a peak per mount | sample each second, read | registry, statistics |
| Accounts (`crabster-db`) | accounts, stations, mounts, users in SQLite | CRUD, quota check, bootstrap, login | source admission, REST API |
| Authentication stack (`crabster-core/src/auth/mod.rs`) | list of authenticators, the copy of an htpasswd file | authenticate along the list, reload | nobody yet |
| Static files, XSLT, formats, configuration, legacy admin, relay table | none that others depend on | pure functions, rendering, I/O | |

### What is hard, and what makes each part correct

* **Sources.** `register` is a `contains_key` followed by an `insert`, and
  `unregister` goes by mount name. Correct: an entry of the registry is a source
  whose task has yet to unregister it; one source per mount.
* **Listeners.** A listener's place is kept five times: its own variables, the
  manager's map, `total_listeners`, the mount's and the server's
  `current_listeners`. Arrival, failover, move back and exit update them one
  after the other, at three places and in two orders, while kicks remove the
  listener from outside. Correct: counts are exact, no registration is left
  behind, listeners are only served what they asked for or its fallbacks, all
  of them eventually get off a source that is gone, and kicked ones leave.
* **Ring buffer and ICY.** Position and data are taken under two locks; a reader more than the capacity behind; metadata
  block lengths that are one byte; an inserter that restarts on a move.
  Correct: a reader within the capacity gets what was written, in order and
  without a gap, and nothing more than twice; a client that
  counts bytes from the header finds every block.
* **HLS.** Positions that survive a reconnection, a poll that looks at the
  registry twice, two functions that seal segments. Correct: the numbers in a
  playlist are consecutive and name one segment each for as long as the session
  lives, no byte of a source is
  left out between two others, what was read ends up in a segment, and a session
  is not dropped under a source that feeds it.
* **Cluster.** Watchers that outlive a mount, a subscription before the burst is
  read, channels that overflow. Correct: an edge gets every byte from the start
  of its burst on, whatever the order of burst, poll and write, and a source that
  stays keeps its watcher.
* **YP.** Lost requests and answers, retries, a mount that goes and returns while
  a request is out, restarts. Correct: the worker lists a mount once, and only
  when it was public; a listing whose mount is gone is removed.
* **Health, analytics.** Two kinds of checks that move one baseline, a queue that
  drops its oldest alert, a ring that goes from growing to overwriting. Correct:
  a drop that the worker is the only one to see has its alert; the series is the
  last samples, each once.
* **Accounts.** A quota that counts configured mounts in three queries; a
  bootstrap in two inserts. Correct: an account feeds fewer mounts than its
  limit (the code's `>=`), and a server that came up can be administered.
* **Authentication.** The time and the content of the htpasswd file are looked up
  apart, by several requests at once. Correct: a request is answered by a version
  of the file that was there while it ran.

`PROJECT.json` lists the hazards one by one, each at its line.

## Plan

Modules, the most important behaviour first. All but the last step exist.

1. `MountPoints`, `SourceManager`, `SourceStream`: the registry and its source
   tasks.
2. `MountSettings`, `ListenerManager`, `Streaming`: listeners over the sources,
   with fallback, statistics and kicks. Composes 1.
3. `SourceStreamProofs`, `StreamingProofs`: type correctness, the safety
   invariants, and that `Streaming` implements `SourceStream`.
4. `RingBuffer`, `RingView`, `StreamReader`, `StreamReaderProofs`: the bytes that
   `Streaming` abstracts to one Boolean per listener.
5. `SourceData`, `Cluster`, `Hls`: source tasks with their bytes, and the two
   other readers of ring buffers. Compose 1 and `RingView`.
6. `IcyStream`, `YpListing`, `Yp`, `YpProofs`, `Health`, `Analytics`, `Accounts`,
   `AuthStack`, and `Services`, which puts them together.
7. `RingViewProofs`, `HlsProofs`, `ClusterProofs`, `ServicesProofs`: every safety
   invariant of these parts, from an inductive invariant for each.
8. To do: an abstract specification of the audience (who listens to what)
   implemented by `Streaming`; `EdgeRelay`, should the server ever start an edge
   with relays.

Runs stay below 550,000 distinct states so that each ends in two minutes: two tasks of
each kind where they interact, one otherwise.

## The modules and the code

`MountPoints` only declares `Mounts`.

**`SourceManager`** has the registry as the variable `sources` and one operator
per atomic access: `MountExists`, `Insert`, `Remove`.

**`SourceStream`** is a source task. `srcPc` walks through

| `srcPc` | where the code is |
|---|---|
| `idle` | before the request |
| `checked` | after `mount_exists` (lib.rs:326, 827); credentials, quota, Shoutcast headers |
| `insert` | between `contains_key` and `insert` of `register` (source/mod.rs:145-148) |
| `welcome` | registered, the welcome not yet written (lib.rs:668) |
| `streaming` | the read loop (lib.rs:683) |
| `unregister` | `connected` is false, `unregister` is next (lib.rs:725-728) |
| `closed` | the task has ended |

`Reject` is every refusal between the first check and `register`. A connection
has one life: a source that reconnects is another element of `Conns`, with
another `Source` object, as in the code. `raced` is a history variable that no
action reads; it only serves the property `ExclusiveUnlessRaced`.

**`MountSettings`** is `resolve_mount_settings` after its lookup: fallback,
`fallback_override`, `fallback_when_full` with `max_listeners`. They are
constants, because no handler writes them.

**`ListenerManager`** has `keys` (mounts with an entry, which may be an empty
vector), `entries` and `total`. `remove_listener` is three accesses: `retain`
under the entry's lock, `remove` of the key after that lock was dropped, and
the decrement.

**`Streaming`** extends the three. Its variables and the code's:

| TLA+ | code |
|---|---|
| `req`, `serving`, `src` | `requested_mount`, `serving_mount`, `source` of `handle_get` |
| `hops` | the iteration of `resolve_source_with_fallback` |
| `behind` | `current_position() > pos` |
| `kicked`, `removed` | `Listener.disconnected`; the `removed` of a `remove_listener` in progress |
| `phase`, `next` | which of the three call sites of `listener_left` and `remove_listener` the task is at, and the source it moves to |
| `mountCount`, `globalCount` | `current_listeners` of a mount's and of the global statistics |
| `kickPc`, `kickMount`, `kickTarget` | a `DELETE` request of the REST API and its two path parameters |

The statistics of a mount live as long as the server (`ensure_mount`), and every
`Source` of the mount shares them, hence `mountCount[srcMount[src[l]]]`.
`LookupFound`, `LookupMissing`, `Accept` and `SpillOver` are an iteration of
`resolve_source_with_fallback`; `SendHeader` to `CountListener` the arrival;
`ObserveKick` to `FallbackExpired` the stream loop with
`move_listener_to_fallback`; `Leave` to `UncountListener` the calls
`listener_left` and `remove_listener`, whose order depends on `phase`: leave
first when moving, remove first at the exit. `Next` has a self-loop when every
connection is over, so deadlock checking is on in every run.

Abstractions of `Streaming`. Bytes are one Boolean per listener. Time is left out: the 15 s
wait may end at any poll that does not find the fallback source. The mount's and
the server's counters, two accesses of `listener_joined`, change in one step,
since each is only compared with the set of listeners it counts. Peaks, totals
and byte counters are left out, and so are the format lookup and the pages of
`handle_get` that are not mounts. `total` is an integer: -1 stands for
2^64 - 1, which the code's `u64` shows for a moment when a kick decrements
between the push and the increment of `add_listener`.

**`RingBuffer`** has the bytes. A byte is its number in the stream, so `buffer`
tells which byte each cell holds. `Write` and `ReadAt` are `write` and `read`,
both atomic (an `RwLock` around the buffer), with the two pieces at the end of
the buffer. **`RingView`** gives what `read(p)` returns as a function of `p` and
of the number of bytes written alone; `ViewExact` says that this is what `ReadAt`
returns from the buffer. **`StreamReader`** is the loop that listeners, origin
watchers and HLS sessions share: `Look` is `current_position`, `Read` takes the
lock again, `Deliver` takes as long as it likes. A listener starts at the end of
the stream, the others at 0. `from`, `upto`, `sent` and `older` are history
variables: where the last read began, and where the stream ended at it and at the
two before.

**`SourceData`** extends `SourceStream` with `wpos`, the number of bytes that each
connection has written. A buffer is not kept: `ReadFrom` returns `View(p, wpos[c])`
with the connection in front of each byte, which `ViewExact` justifies. `Hls` and
`Cluster` extend it, so the sources they read come, race, write, end and return
between any two of their steps.

**`Hls`** is the task that `start` spawns, step by step: `Poll` takes the lock and opens sessions,
`VisitGone` and `VisitSource` take one session each in any order, `ReadBuffer` is
the read under the second lock of the buffer, `Judge` and `Sweep` the two passes
at the end. `EnsureSession` waits for the lock (`hpc = "sleep"`). Playlists and
segments are read under the lock too, hence are a state between two polls. Clocks
are the two facts that the code makes of them: `elapsed`, whether the current
segment is as long as `segment_duration`, and `quiet`, whether no data has come for
30 or for 60 seconds; both may become true at any moment. `Playlist`, `MediaSequence`
and `Gives` are what a session answers to a player. `overrun` is a history
variable, the mounts whose session was lapped by its source: more than a whole buffer
came between two polls.

**`Cluster`** is an origin. `Spawn` and `Forget` are what the ticker does with one
mount; a tick handles each mount by itself, so it needs no step of its own. A
watcher has one action per access of a poll, an edge connection one per access of
`handle_edge`, and a channel is the sequence `queue[e]` with `lagged[e]` for an
overflow, which ends the connection at its next receive. `Watchers` bounds how many
tasks live at once: a mount whose source is replaced within a tick may have an old
one ending beside the new. `first`, `of`, `strayed` and `metBy` are history: where
the burst began, the source a position belongs to, the sources that a watcher read
from a position of another, and the source it was spawned for.

**`IcyStream`** has a source, the server and one listener as three ends that count
bytes. A byte is audio, the length of a block, or a byte of a payload with what it
says and how many follow. The loops of `feed` and `write_with_icy_metadata` go byte by
byte: `ReadSource` is a read of any size, `FeedNext` the loop of `feed` (its parser by
`FeedByte`), `StoreTitle` and `StoreAudio` what the read loop does with the result;
`Listen` is a read of the listener's task, which takes the title with it, `WriteNext`
the loop that puts blocks into the data. `wire` and `line` are what is on the way from
the source and to the listener, whose side is a parser like the server's (`Hear`).
Titles and urls are model values; as nothing keeps a `;` out of a text, `Kept` is what
`parse_icy_metadata` reads of each, up to the `;`, and `Brings` the fields that it holds
behind it, which count as the source's own. So a title is the one that was read, not the
one that was meant.
`LenBytes` stands for the 256 values of the length byte, so `Block` wraps as `units as
u8` does. `Move` gives the listener another source (`AnotherSource`): one that has just
connected, or, as a listener knows nothing else of a source, one that is where this one
was. `clean`, `said`, `misheard` and `adrift` are history: the audio of a read, what the
blocks have said, a byte taken for something else, and that an intro, a move within an
interval or a block too long has put the listener out of step.

**`Yp`** is the worker's `poll`, one request at a time, against a directory that is
external: it serves, refuses whatever it is asked, accepts an add without naming the
SID, forgets a listing by itself, and its answer or the
request may be lost, which `Fail` is (`post` returns `None` either way, after its
timeout at the latest). `Restart` may happen at any step and empties the worker's
table. Times are flags: an entry is due or not. `forsaken` is history, the listings
that a lost answer, an answer without SID, a touch or a removal that was lost or refused,
or a restart left in the directory with nobody to answer for them. **`YpListing`** is the promise: a mount comes to be listed only
when it was public at the last poll and is not listed yet. `Yp` implements it with
`listed` the listings that are not forsaken.

**`Health`** has the worker's check and that of a health request as two `Checkers`
over one `prev_listener_counts`. `StartCheck` takes the snapshot; `CheckOne` looks at
one source, raises what there is to raise in the code's order and pushes it, one
step since the checker awaits nothing meanwhile. Whether the bitrate is low and
whether metadata are old stay open at each look, since the code derives them from
wall-clock time. `lastLook` and `polled` are history.

**`Analytics`** has the tick's snapshot, then one `record_concurrent` per mount with
the ring's index arithmetic. A sample has its number, so an order can be told.

**`Accounts`** has the start of the server statement by statement (`phase`), with a
kill or an error at each; the database (`accounts`, `admin`, `configs`) survives it.
Source connections read configuration, account and count in three queries, as
`check_account_quota` does, any of which may fail, while accounts and configurations
are made; a Shoutcast source reads none of them. The registry is not part of it: a
source that reaches `Register` is registered or finds another one there, so two may feed
one mount here, which `QuotaKept` counts once and which `SourceStream` tells apart. `torn` is history: a start ended between the two inserts.

**`AuthStack`** takes requests along a chain of providers while the htpasswd file
goes through versions, one of which is its absence. The time of the file is looked up
in `AskProvider`, its content in `Reload` under the lock of the copy, and the copy is
read in `Check` under a lock of its own. `Verdicts` is what the whole chain may answer
when the file has a given version: the providers that are `Asked` are those to which
all before them left the user, and the last of these decides.

**`Services`** composes the six modules of the last step. They write no state in
common: each has its own view of the sources, and what one does is invisible to the
others. So a property of one of them holds of all the interleavings if and only if it
holds of those in which only this one moves, and the product of six state spaces would
show nothing that their sum does not. `service` says which one is at work; it never
changes. (`Accounts` and `AuthStack` both concern admission, but the server never asks
the authentication stack.)

## Runs

| Run | Instance | Shows |
|---|---|---|
| `failover` | 2 mounts, `live` falls back to `backup`, override, full at 1 listener; 2 connections, 2 listeners | `TypeOK`, `StatsExact`, `ServingItsSource`, `NoStaleListener`, `NeverUndercounts`, `ServedFromChain` |
| `kick` | 1 mount, 1 connection, 2 listeners, 2 kicks | the accounting properties with kicks racing arrivals, exits and each other |
| `liveness` | 2 mounts in a cycle, override; 2 connections, 1 listener, 1 kick | `KickedLeaves`, `DeadSourceLeft`, `RequestAnswered` |
| `reader` | buffer of 4, chunks of 1 to 3 bytes, 12 bytes in all; 1 reader | `TypeOK`, `CellsCurrent`, `DeliversStream`, `DeliversNewest` (what a lapped reader gets, and in which order), `NoGap`, `AtMostTwice`, `ViewExact` |
| `hls` | 1 mount, 2 connections of 3 bytes, buffer of 2, window of 2 | `NoDeadEntry`, `ExclusiveUnlessRaced`, `HlsTypeOK`, `WindowConsecutive`, `PlaylistStays`, `NoGap`, `SessionKept`, `DataOffered` |
| `cluster` | 1 mount, 2 connections of 2 bytes, buffer of 1, 1 watcher, 1 edge with a channel of 1 | `ClusterTypeOK`, `NoByteMissed`, `DeafOnlyAfterReturn`, `EdgeCatchesUp` |
| `services` | 2 mounts, 2 sids, alerts of 1 mount with a queue of 2, series of 2 and 4 samples, 2 accounts and 2 feeders, 2 requests over 4 versions of a file; metadata in 1 text of 1 unit that brings a url of its own, interval and reads of 2 bytes, units of 2 bytes, 2 values of the length byte, an intro of 1 byte | `ImplementsListing`, `GoneIsDelisted`, `SpikeReported`, `SeriesIsLatest`, `BootstrapHasAdmin`, `QuotaKept`, `AnswerCurrent`, `SourceStripped`, `InStepUnlessAdrift` |
| `source_race` | 4 connections, 2 mounts | `OneSourcePerMount` is violated |
| `chain_dropped` | 3 mounts in a chain | `ChainFollowed` is violated |
| `override_starved` | 2 mounts, override | `OverrideReturns` is violated |
| `tail_lost` | 2 mounts | `TailDelivered` is violated |
| `icy_desync` | interval of 2 bytes | `BlocksWhereExpected` is violated |

Bounds. The registry's own properties run with two connections, a race and its
outcome, and are proved for any number of them. Two listeners and two connections
give every pair of steps of two tasks on the same mount, entry or counter, and
two kicks may aim at the same listener. The depth of the chain is the code's 10
in the safety runs; in the two runs with fairness `MaxFallbackDepth` is 3, which
in the cycle still leaves the chain through the limit and not through its end.

In `reader`, `MaxPos` (12) goes three times around the buffer, so a reader can be
lapped more than once and every chunk can meet every cell. Readers share nothing
but what they read, and one is enough. `MaxChunk < Capacity` is the code's 8192
and 16384 against 65536; `Write` has the branch for longer chunks, which no
source task takes.

In `hls` and `cluster` two connections give a source that is replaced, or raced, at
any step of a poll, a watcher or an edge, and each writes more than its buffer
holds, so that a reader is lapped. Sessions of different mounts share nothing but
the lock of the poll, and edges of one mount nothing but the watcher that sends to
both. The window of 2 fills with the two segments that two reads can make and is
trimmed by the third. One watcher is enough for the table that outlives it; a channel of
one message overflows at the second.

In `services` the mounts are two where the worker or the quota relates them and one
otherwise, and each limit is one that the instance exceeds: the queue of alerts (2,
and a check may raise four for one source), the ring of samples (2 of 4), the
limits of accounts (1 and 2 over two mounts), the values of the length byte (2). Two
sids let the directory give a sid of a mount that is gone to the next one. The
versions of the file go through both of its kinds and back: present, missing, present
with another content, missing. For the in-stream metadata, a title and a url of one
text make blocks that say one of the two or both, and both together are too long for
the length byte; intervals, reads and units of 2 bytes let a read end at any byte of an
interval or a block. `MaxUnread` and `MaxLine` make the server wait for a listener who
does not read, so they leave no behaviour of the two ends out but that both are further
apart; `InStep` (a constraint of the run) stops at the first state in which the listener
is out of step, of whom nothing more is said. The other five parts never touch it.

`TotalBound` (safety runs with kicks or moves) stops at the first state in
which `total` exceeds the number of listeners. An `Erase` that loses a
registration leaves `total` one too high for good, and a listener that moves
back and forth can meet that any number of times, so the counter is unbounded.

Fairness (`FairSpec`, in `liveness` and `override_starved`). Weak fairness of
each listener's own steps and each kick's, since the runtime polls every task
that is ready; among them are the writes to a client, for which it assumes that
they end, with success or failure: the code sets no timeout on a write, and a
client that stops reading without closing would hold its task. Weak fairness of
a source's `insert` and `unregister`, which follow without an external event.
Nothing is assumed of when clients connect, send, kick or disconnect.

`HlsFairSpec`: the poll's steps, which a timer starts each 200 ms, and time
(`Lengthen`: a segment that is open gets as long as `segment_duration`).
`ClusterFairSpec`: the ticker, each watcher and each edge connection, whose write to
an edge is assumed to end, as above; not the requests of edges and not the sources.
`ServicesFairSpec`: the worker's own steps, among them `Fail`, because a request ends
by its timeout when nothing else ends it, and time (`ComesDue`); neither the directory
nor the sources.

## Findings

* `source_race`: two sources that connect to a mount at once are both accepted;
  the second replaces the first in the registry, and whichever ends first
  removes the entry of the other. `ExclusiveUnlessRaced` says that this race is
  the only way to two sources on a mount.
* `chain_dropped`: at a failover only the direct fallback is tried. A listener
  is dropped after the wait although the fallback's fallback is streaming.
* `override_starved`: the loop looks at `fallback_override` only in an iteration
  without new data; on a fallback that sends steadily nobody is moved back.
* `tail_lost`: the position is read before `connected`. A last write and the
  disconnection between the two leave the tail unread.
* `icy_desync`: a move gives the listener a new inserter, which counts a whole
  interval from there, while the client goes on with the count of the response it
  got. `InStepUnlessAdrift` says that a move within an interval, an intro and a
  block of more than 255 units are the only ways out of step.

Noticed while modelling, without a run of their own; where a property would be false
for one of these, it sets the case aside by a history variable and says so:

* `crabster-db/src/tenant/mod.rs:486` compares the configured mounts, the one asked
  for among them, with `>=`: an account that uses its limit cannot stream to any of
  its mounts, a Free account with its one mount never (`docs/plan.md:169`, 373). A
  Shoutcast source (`lib.rs:763`) reads no quota.
* `crabster-db/src/auth/mod.rs:136`: the first account and its administrator are two
  inserts. A stop between them leaves an account, no later start makes up for the user,
  and nobody can log in. `BootstrapHasAdmin` sets it aside (`torn`) and covers every
  other place where a start can end or a statement fail.
* `crabster-health/src/checker.rs:86`: a health request moves the baseline of the
  worker's check, so a drop that it sees first, or in two parts, raises nothing for the
  worker. `SpikeReported` sets it aside (`polled`).
* `crabster-core/src/yp/mod.rs:257`: a removal that is lost or refused is not sent
  again, and the answer to an add may name no SID (line 182), after which the mount is
  added once more. `GoneIsDelisted` and `ImplementsListing` set such listings aside
  (`forsaken`).
* `lib.rs:485`: a title with a `;` in it is cut there. `SourceStripped` is about the
  title that was read.
* `crabster-core/src/auth/mod.rs:225`: a request that found no file keeps the copy
  of one that was made before it loaded, without its time; when the file is removed
  again its users stay valid. `AnswerCurrent` sets such requests aside.
* `crabster-analytics/src/metrics.rs:45`: a request for a whole series gets the points
  in the order of the ring, which is not that of time once it has wrapped.
* `crabster-health/src/checker.rs:70`: every check that finds metadata renews their
  time, so metadata that never change are never stale.
* `crabster-hls/src/lib.rs:214`: a source that returns is packaged only from the
  position that the old one had reached, so the start of its stream is not packaged.
  `NoGap` speaks of two bytes of one source that follow each other in a session, and
  holds across the return.
* An edge is started with an empty list of relays and returns at once.

## Proofs

All theorems hold for every `Mounts`, `Conns`, finite `Listeners`, `Kicks`, `Sids`,
watchers, edges, capacities, accounts, chains of providers and
every settings that satisfy the named assumptions of the modules; TLC evaluates
these assumptions in every run.

`SourceStreamProofs`: `SourceTypeCorrect`, `NoDeadEntryHolds`,
`ExclusiveUnlessRacedHolds`. `NoDeadEntry` alone is inductive. For
`ExclusiveUnlessRaced` the induction needs that a connection between
`contains_key` and `insert` either finds its mount free when it inserts or has
put it into `raced`; that conjunct, with the two properties, is the inductive
invariant `SourceInv`.

`StreamingProofs`:

* `SourcesRefined`: `Spec => SourceSpec`. Each step of the server is a step of a
  source or leaves `srcVars` alone, so the results above carry over.
* `TypeCorrect`.
* `ServingItsSourceHolds`, `NoStaleListenerHolds`, `StatsExactHolds` rest on the
  task invariant `TaskInv`, which ties `pc` to `phase`, to the source held and
  to the target of a move, together with `SourceInv`, from which the source
  that a lookup returns is a source of the mount looked up. `StatsExact` is
  proved with lemmas on how the set `AllCounted` and its share of a mount change
  when one listener joins, leaves or changes its source while it is not
  counted, and on the cardinality of a finite set with one element more or less.
* `ServedFromChainHolds` uses that `Chain` is closed under fallback and
  transitive.

`StreamingProofs`, continued: `NeverUndercountsHolds` counts two finite sets, the
listeners in the manager and the calls that removed one and have not counted it down
yet. `TotalInv` adds that such a call is the only one to have `removed` set
(`RemovalsOK`) and that there are finitely many of them, although nothing is assumed of
how many kicks there are. Each action either leaves all five quantities alone
(`QuietTotal`) or is one access of `add_listener` or `remove_listener`, for which there
is a lemma each; `TakenOver` is the one that matters, a `retain` that takes a listener
out of the manager and makes its own call a `Removing` one in the same step.

`StreamReaderProofs`: `TypeCorrect`, `CellsCurrentHolds`, `DeliversStreamHolds`,
`DeliversNewestHolds`, `NoGapHolds`, `AtMostTwiceHolds`, `ViewExactHolds`, for every
capacity, longest chunk below it and number of readers. Division lemmas (`ModUnique`,
`ModShift`) give the cell of each byte; `WriteHits` and `WriteMisses` say that a
chunk goes to its own cells and no others that matter; `CellHit` that any
`Capacity` bytes in a row fill all cells, so that one of the last `Capacity` bytes lies in
the cell of a lapped reader's position, and what the reader gets begins with it
(`ReadAtNewest`). `ReaderInv` orders a reader's
positions: `sent <= pos <= upto <= writePos`. The window property is inductive
with `CellsWritten`; without it nothing keeps unwritten cells from a reader.
`ViewExactHolds` compares `ReadAt` with `View` cell by cell: a read starts at cell
`p % Capacity` and takes two pieces, and the cell it takes for its k-th byte holds the
last byte written there, `Latest`.

`RingViewProofs` has what the other readers need of `View`, without the buffer:
a reader within the capacity gets the stream in order (`ViewStream`), whatever is
read was written and is within the last `Capacity` bytes (`LatestInCell`,
`LatestInWindow`, `ViewShape`).

`HlsProofs`: `SourcesRefined`, `HlsTypeCorrect`, `WindowConsecutiveHolds`,
`PlaylistStaysHolds`, `NoGapHolds`, `SessionKeptHolds`. Sealing is a function of a session, and the lemmas
up to `FedKeeps` say what it keeps, whichever of the ways to seal ran: the window, the
bytes and their order (`Settles`). The inductive invariant `HlsInv` has five parts
besides the types. `ControlOK` ties `todo`, `look` and `doomed` to the place of the
poll; `LookOK`, between the two locks on a buffer there is something to read;
`SessionInv`, a session is gap-free, its bytes were written, and unless it was overrun
its newest byte is not before the saved position (`Tight`), so the next read overlaps it
or follows it; `SweepOK`, a session on the list to be removed has nothing of the source
that its mount may have got meanwhile. `SweepOK` is what `SessionKept` needs, and it is
inductive because a source registers before it writes and the poll reads nothing between
its two last passes. `PlaylistStays`, an action property, needs more than the window: each
way to seal only appends a segment with the counter as its number and drops the oldest
ones (`MovesOn`), so a number that both windows have stands for the same segment
(`MovedOnGives`), and no step but `Sweep` gives a session up.

`ClusterProofs`: `SourcesRefined`, `ClusterTypeCorrect`, `DeafOnlyAfterReturnHolds`,
`NoByteMissedHolds`. `NoByteMissed` quantifies over the watchers of a mount and is not
inductive: a watcher that ends takes its bytes with it, and a new one starts at 0. `ClusterInv`
says it of every edge and every watcher that read the edge's source last (`Meets`), with
the watcher's last position and what it holds (`WatcherSound`), and the source an edge
streams (`EdgeSound`). `MetOnce` and `WatcherStays` carry `DeafOnlyAfterReturn`: a
source that a watcher was spawned for never registers again, and while it stays there is
a watcher that has met no other.

`YpProofs`: `WorkerInvHolds` and `ListingImplemented`, that `Yp` implements
`YpListing`. The step that matters is an add which the directory serves: the abstract
mount must have no listing then. That follows from `InSight`: whatever is listed for
a mount and not forsaken is the one sid that the worker has in sight (`Held`), in its
entry, in the removals of the poll or in the request. For `InSight` to be inductive
the request in flight has to agree with the entry of its mount: `AddFits` (the mount is
eligible and has no sid, and nothing waits to be removed), `TouchFits` (the sid asked
for is the entry's, and after a refusal it is not listed or forsaken), `RemoveFits` (neither
the entry nor the removals have the sid any more); and `PollInOrder` gives the order of
the poll on which these rest: removals are over before the first visit. `CallOver`
treats an answer and a failure alike. Each action then maps to a step of the abstract
specification or leaves its variables alone; `Forget`, `Fail` and `Refuse` delist.

`ServicesProofs` proves the properties of the parts from their own specifications, and
with `PartsRefined` (each part's specification follows from that of the composition) that
the composition keeps them (`ServicesKeepPromises`).

* `SourceStrippedHolds` and `InStepUnlessAdriftHolds` from `IcyInv`. An end that sends is
  in a `Phase`, an end that receives is `InPhase` when it counts alike, and the bytes on
  the way lead from the phase of the one to that of the other (`Leads`): a byte sent
  lengthens the path (`LeadsOn`), a byte received takes its first step (`LeadsFromHead`,
  `FeedInPhase`), and a block is a path of its own (`BlockLeads`). `SourceFollowed` says
  this of the source and the parser, `ListenerFollowed` of the inserter and the listener
  who is not adrift. For the title, `feed` returns the last block of a read only; `ReadOK`
  has that no read ends two, since behind a block the interval begins and a read is no
  longer (`ReadSize <= Metaint`, the code's 8192 both).
* `BootstrapHasAdminHolds` from `AdminInv`: unless a start was cut short, accounts exist
  only with an administrator, but while the first user is being inserted.
* `QuotaKeptHolds` from `QuotaInv`: the mounts of the sources that passed the quota are
  configured, a source between its queries has read the account's limit and not an
  older one, and when the last one passed there were fewer configured mounts than
  that, so the mounts that are fed are fewer than the limit too. Accounts and configurations only ever grow, which is why the count may be stale.
* `SeriesIsLatestHolds` from `SeriesInv`: each of the last samples is at the place of its
  number in the ring and the next index is the number of samples modulo the capacity
  (`Keeps`). `RecordedKeeps` is the step, growing or overwriting; `UnrolledLatest`
  that reading from the next index on gives them in order. It is the division of
  `RingViewProofs`, with the ring's capacity.
* `AnswerCurrentHolds` from `AuthInv`: what the copy is of, and for each request by its
  `pc` which version lets it through (`InStep`). A request that has reloaded finds a
  copy of no version before it began, though another request may have loaded it since.
* `SpikeReportedHolds`, an action property, from `HealthInv` (the baseline is the count
  that the worker met last, unless a request has looked since): `SpikeRaised` says that
  the alert is the last or the one before it of a look, so `PushedAtEnd` finds it in a
  queue of two or more.

Only model-checked:

* The liveness properties `KickedLeaves`, `DeadSourceLeft`, `RequestAnswered`,
  `DataOffered`, `EdgeCatchesUp` and `GoneIsDelisted`: the provers at hand have no rule for
  fairness.
* The disagreements of the five runs that expect a violation.

## Not modelled

* Static files, XSLT, statistics documents, format tables and configuration parsing:
  pure functions over text, or I/O, without state.
* The legacy admin commands and the relay table, which are placeholders, and the
  command line.
* `edge.rs`: the server starts it with no relays, so none of it runs beyond its first
  return; with relays it would be a source of `SourceStream` that unregisters without
  clearing `connected`.
* `broadcast_data` and `broadcast_metadata` of the listener manager, sessions, devices
  and connections of the analytics, `resolve` of the alerts, users and stations of the
  accounts: functions without a caller.
* Peaks, totals and byte counters of the statistics, and the listings of the REST API,
  which only read.
