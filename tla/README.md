# Chorrent in TLA+

Chorrent shares files between peers: a share is cut into pieces, every piece is
checked against a hash tree, and a downloader fetches pieces from many peers at
once while it serves the ones it already has. This directory holds TLA+ models
of the library (`src/crates/chorrent/src`; all source paths below are relative
to it), their TLC configurations, and TLAPS proofs.

Check a model with `tlc -config X.cfg M`, a proof with `tlapm M.tla`: the modules
with theorems are `SchedulerProofs`, `EngineProofs`, `ServingProofs`,
`UploadsProofs`, `PiecesProofs`, `SavedProofs`, `JoiningProofs` and `Folding`.

## 1. The system

| Component | State | Operations |
|---|---|---|
| Piece scheduler, `scheduler.rs` | per piece Missing / InFlight(peers) / Done; the bits of each connected peer; the counters `missing`, `done`, `availability`; the playhead `first_not_done` | `new`, `add_peer`, `set_peer_has`, `remove_peer`, `pick`, `complete`, `failed` |
| Download engine, `download.rs` | the scheduler behind a mutex, the set `connected`, one task per connection with workers and strikes, the channel of found peers | manifest phase, swarming loop, `run_peer`, `drive_peer`, `worker`, verification, periodic save, cancellation |
| Local share, `local.rs`, `chunker.rs`, `storage.rs` | `have`, an outboard and a writer per file, the allowlist, the update channel `have_tx` | `store_piece`, `mark_have`, `encode_piece`, `restore_progress`, `verify`, `set_allowed` |
| Serving, `handler.rs`, `registration.rs` | the registry, upload slots, one task per stream | `lookup`, `serve_piece`, `serve_subscription`, register, unregister |
| Client, `client.rs` | handles of seeds and downloads | `seed_with`, `download_with`, `resume`, `finished`, `set_allowed_peers`, `forget`, `remove`, reads and exports |
| Store, `store.rs` | tables SEEDS, KINDS, ACCESS, DOWNLOADS, PROGRESS, META | one transaction per record (`forget`: one per share and one per download) |
| Discovery, `discovery.rs` | peers reported, tried and bootstrapped from | join, keep, announce |
| Rate limiter, `limits.rs` | a token bucket that may go into debt | `acquire` |
| Manifest, layout, share codes, protocol | none (pure functions) | encode, decode, locate, pack, unpack |
| Node, CLI | the endpoint; the terminal | set-up and output |

How they meet. Workers call the scheduler under its mutex, send piece requests
to the other side's `serve_piece`, and write what arrives with
`LocalShare::store_piece` on blocking threads. `mark_have` broadcasts each new
piece; the `serve_subscription` task of every subscriber turns the broadcast
into `Have` and `Bitfield` frames; the subscriber's `drive_peer` feeds those to
its own scheduler. The client lists a share in the registry while a handle
lives, and saves what a later run needs in the store.

What is hard here: tasks that are aborted while the blocking call they started
goes on; a peer that leaves and returns while requests of its first visit are
still around; announcements that reset what the scheduler learned; a broadcast
channel that overruns; API calls that make several transactions, with errors
and crashes in between; waits (for a slot, for the rate limit, for a first
peer) during which the checks made before them grow old; deadlines that cover
one part of an attempt and not the other. `PROJECT.json` lists these hazards, each at its line.

## 2. The modules

    Scheduler  <-EXTENDS-  Engine  <-EXTENDS-  MCEngine
        ^                    | implements (INSTANCE WITH)
        |                    v
        |                 Transfer
    SchedulerProofs  <-EXTENDS-  EngineProofs (extends Engine too)

    Layout  <-EXTENDS-  Joining <-EXTENDS-  MCJoining, JoiningProofs
    DataDir <-EXTENDS-  Saved   <-EXTENDS-  SavedProofs
    Uploads <-EXTENDS-  MCUploads, UploadsProofs
    Serving <-EXTENDS-  ServingProofs       Pieces <-EXTENDS-  PiecesProofs
    Folding (proofs about folds) <-INSTANCE-  JoiningProofs

**Scheduler** is the struct as a state machine: one variable per field (the enum
`Piece` as `state` and, when InFlight, `by`), one action per method. `pick` is
split by its three rules: the urgent window, the rarest-first scan with its
early stop after `RarestSample` candidates (`Sampled` is the set the loop has
looked at when it breaks), and endgame help. Peers that are not connected make
no calls except the late ones the engine can make (`complete` and `failed`
after `remove_peer`).

**Engine** puts the scheduler into `run`. Its actions are what tasks do between
two awaits: the loop at its condition (`Check`) and in its `select!` (`Tick`,
`TakeFound`, `Cancel`), a connection through `run_peer` (`Guard`, `Subscribed`,
`Leave`, `Forget`, `Release`: the scheduler forgets the peer and `connected`
releases it in two steps), a worker (`Ask`, the possible answers, `Stored`,
`BadData`), and a blocking `store_piece` (`StoreBegins`, `StoreEnds`) that goes
on when its worker is aborted. With `LatePolls` a task on another thread may
finish the poll it was in when it was aborted.

**Transfer** is what a download promises: a piece is stored once and for good,
reported only after it is stored, success only after every piece was reported,
one outcome. `TransferSpec` in Engine maps `have`, the Done pieces and `phase`
to it.

**Joining** is what comes before Engine: the loop that looks for a first peer.
Its phases are the awaits of the task (`empty`: nobody is known yet; `dial`,
`ask`, `pause`: the parts of an attempt), `Look` is the head of the loop up to
the next await. The peers of the codes come through the same bounded channel as
those the swarm announces (`Announce`, what `discovery::keep` passes on). A dial
may fail, or succeed at any moment up to its limit; an address in a code may be
out of date. `sure` says that an attempt cannot fail for a reason outside the
code: the peer serves the share, is where the address says, and is given the
`Needs` ticks it takes.

**Layout** holds the pure operators of `manifest.rs` that Joining ends in: what
may be shared and what is accepted, the numbering of pieces over several files,
the ranges `read_range` opens, the bits of a bitfield. They are checked against
definitions that list the pieces one by one (`LayoutSound`).

**Serving** models one share id: LocalShare objects that are listed, dropped,
removed and listed anew, pieces that arrive in two steps (`have`, then the
message), the bounded broadcast channel, the streams, and what the subscriber
makes of the frames.

**Uploads** models the way of a request for a piece: the lookup, the FIFO queue
of the semaphore, the token bucket, the blocking read, the answer. A slot that
is given back goes to the head of the queue at once (`GiveBack`). Bytes are
taken from the bucket when the wait begins and stay taken when the request is
aborted. Reading (`Encode`) and noting the failure (`Return`) are two steps,
between which the file may change again. `excess`, `age` and `reports` are what
the properties speak of.

**DataDir** models the data dir from process to process: the format mark and
the fingerprint with their two transactions, the refusals of `check_format`, the
node key. `sealers` are the keys under which records are in the database.
**Saved** extends it: no call before the process is `up`, and every record it
writes is sealed with the key of the process (`Seal`).

**Saved** models what one share leaves in the data dir. A slot of `Call` is an
API call and the handle it returns; each transaction is an action, `Drop` is an
error or a dropped handle anywhere, `Crash` keeps the tables and nothing else.
`reseed` and the storage key may change with a restart. `forget` and `remove` may
come at any step of a transfer, because they neither stop one nor wait for one;
`Overlap` says whether a second transfer, or `set_allowed_peers`, may begin while
another call is not finished or a transfer goes on. The history variable `outlived`
tells which transfer outlived its forgetting: a call that was still about to write
SEEDS or DOWNLOADS (`Recording`: a download whose manifest is awaited, a seed that
is hashed), or a recorded download that went on and was awaited afterwards. No guard
reads it.

**Pieces** models one file of a download below the engine: the plain or
encrypted file on disk, the outboard as the set of tree nodes whose hashes are
known, `have`, the saved outboard, and the steps of `run` from `for_download` to
`mark_complete`. `store_piece` is five steps (the `has` check, the write under
the writer's lock, its end, the proof, `have`), taken by blocking tasks that
outlive a run which is cancelled or fails (`Leave` turns them stale; the next
run meets them). A slot is absent, whole, or an overwritten whole one: sealing
an encrypted piece again destroys the old copy before the new one is complete.
What is not whole reads as zeros, which pass the hash check of pieces in
`zeros`. `Kill` loses only what is being written; `LosePower` may lose every
write and the header, because nothing is synced, but not the store's records.

## 3. The runs

| Run | Instance | What it shows |
|---|---|---|
| `scheduler` | 3 peers, 4 pieces, window 1, sample 2, limit 2, any calls | counters, playhead and request lists exact (`CountersExact`, `PlayheadExact`, `RequestsSound`); `pick` finds work whenever there is some (`PickFindsWork`) and the rarest piece of its sample (`PicksRarest`); Done is final; a second peer joins a piece only in endgame |
| `engine_reconnect` | 1 peer over 2 connections, 2 workers, 1 piece, 1 strike, gossip | the peer leaves and returns while workers and stores of its first visit are around: never two connections drive it, no request entry without a request, and the refinement of Transfer (which includes that only stored pieces are Done) |
| `engine_seeder` | 2 peers, 2 pieces, 1 worker each, late polls; one peer has everything and stays | the download ends whatever the other peer does (`SeederFinishes`) |
| `serving` | 2 objects, 3 pieces, channel of 1, window of 1, 1 subscriber | nothing is missed between subscription, snapshot and overrun; nothing is unlearned; dropping an old handle leaves the new object listed; every piece reaches a subscriber that stays; streams of an unlisted object end |
| `uploads` | 3 requests of 2 peers, 2 slots, slot wait of 2 ticks, pieces of 3 and a burst of 2 bytes at 1 a tick, with and without a limit | no slot is lost or given twice and none is free while somebody waits (`SlotsConserved`); the rate is kept in every stretch of time (`RateKept`); a check is never older than one slot wait and the debt of all requests (`StalenessBounded`); a changed file is reported to whoever is refused, once (`ChangeIsReported`); waiting requests are answered (`RequestsAnswered`) |
| `joining` | 2 other peers, one of them good, listed at old and current addresses; channel of 3, deadline of 17 ticks, dial limits of 1, 2, 4 ticks, requests of 2; 3 shares that can have a code, one of them too large, and 2 folders that cannot; files of 0, 2 and 3 bytes in blocks of 2 | no candidate is passed over while the list grows (`TurnsRotate`); the search is over one request after the deadline (`EndsInTime`); it fails only for a reason, and too little time is one only where `EnoughTime` says so (`FailedHonestly`); the layout names every byte once (`LayoutSound`) |
| `saved` | 2 calls at a time, 2 allowlists, 2 storage keys or none | with transfers one after the other, `forget` and `remove` at any step of them, and errors or crashes anywhere: transfers that go on are saved (`TransfersAreSaved`), with their allowlist (`AllowlistIsSaved`); a forgotten share is not offered again, unless a transfer outlived the forgetting (`ForgottenStaysForgotten`); completed downloads are offered (`FetchedIsFindable`); records are under one key or none, and that key opens them (`RecordsOpen`) |
| `pieces` | 3 pieces (one of zeros) in a tree of 2 nodes, 2 tasks, plain and encrypted, power loss | what is announced can be proved and read back (`HaveIsBacked`); what was saved and is still there is restored (`SavedIsRestored`); after any crashes a download left alone completes (`DownloadCompletes`) |
| `engine_orphan` | 1 peer, 2 pieces, no gossip | **violated**, finding 1 |
| `saved_allowlist` | as `saved` with one key, calls may overlap | **violated**, finding 2 |
| `saved_forget` | as `saved` with one key | **violated**, finding 3 |
| `joining_stall` | 2 listed peers, the second good, ticks of 4 s: dial 1, request 15, deadline 8 | **violated**, finding 4 |

**Bounds.** Three peers and an endgame limit of two let a full request list
turn a third peer away; four pieces with a window of one leave three outside
the window, more than the sample of two, so that the scan stops early. In the
engine, two connections of one peer are the least with which the tail of the
first can meet the second, two workers the least of which one is orphaned while
the other works. In Serving the
channel keeps one message (the code's keeps 4096); with three pieces a
subscriber that has already learned a piece by message can still fall behind,
which two pieces do not allow. Pieces stored before anybody subscribes are part
of what an object starts with, and what an object gains once no handler looks at
it any more is left out. In Saved two slots let one call act on a handle that
another one holds. Two keys let one dir meet a stranger's key. In Uploads two requests run up a
debt together while a third waits for a slot; pieces above the burst let one request
alone go into debt. In Joining 17 ticks are the least for which `EnoughTime` holds of every
code that lists the good peer and the other one: its first dial is too short, and its second one
must come after three attempts of at most 5 ticks each; the request timeout is short there and as long as
in the code in `joining_stall`. In Pieces the unbalanced tree of three leaves gives a piece
whose proof reveals its sibling's hash and one whose proof does not; two tasks
let a second copy of a piece be written after the first. Connection slots of Engine are used again only when the
stores of their last use have ended. Request counts grow only up to `Worker`
(`Resize`), strikes up to `MaxStrikes` plus the workers still busy.

**Symmetry.** Peers in `scheduler` and workers in `engine_reconnect` are
interchangeable; both are safety runs.

**Fairness.** Engine: the loop runs, every request is answered or times out
(`REQUEST_TIMEOUT`), a blocking store ends, an idle worker looks again after a
second, a connection whose workers are gone is left. Peers owe nothing: they may
hang up, stay silent or refuse. Only for `SeederFinishes` one peer answers with
good data and stays, which is the assumption of the property, not of the code.
Uploads: timers fire, blocking threads end and time passes; peers need not read
their answers. A tick is a unit of time of any length: it passes only when no
timer is due, so that what merely waits for a processor takes no time (in
Joining: when the task is in a wait that is not over). Joining bounds its time
by counting ticks instead of a liveness property.
Serving: a thread that wrote `have` sends its message, the handler of a stream
runs (its five-second check included), and a subscriber that stays reads. Drops,
disconnects and API calls are never fair. Pieces: a run that ended is started
again by the user, its steps and the tasks' are taken, and a missing piece
arrives in the end; `DownloadCompletes` assumes in its own hypothesis that
crashes, cancels, bad data and disk errors stop. Saved has safety properties only.

`CHECK_DEADLOCK FALSE` in Serving, Uploads, Joining and Saved: there is nothing
to do once every object, stream or request was used or the search is over, and a
client may never call again.

## 4. What is proved

Every theorem holds for all values of the constants that the assumption of its
module allows (finite sets of peers, calls, tasks or requests; limits that are
natural numbers, positive where the code needs it). Each proof module defines one
inductive invariant, shows it of the initial states, has a lemma for each action
or group of actions that can disturb a part of it, and derives the properties.
TLC agrees with each of these invariants on the instance of its run (where they
quantify over `Nat`, with `Nat` cut to a range that the instance does not leave).

| Module | Invariants and action properties of the runs it proves |
|---|---|
| `SchedulerProofs` | `SchedTypeOK`, `CountersExact`, `PlayheadExact`, `RequestsSound`, `PickFindsWork`, `PicksRarest`; `DoneStaysDone`, `DuplicatesOnlyInEndgame` |
| `EngineProofs` | `EngineTypeOK`, `OneConnectionPerPeer`, `RequestsBacked` (for `LatePolls = FALSE`), also `DoneIsStored`; the refinement `TransferSpec`, and that `EngineSpec` implies Scheduler's `Spec` |
| `ServingProofs` | `ServingTypeOK`, `NothingMissed`; `NeverUnlearned`, `OnlyOwnUnlisted` |
| `UploadsProofs` | `UploadsTypeOK`, `SlotsConserved`, `RateKept`, `StalenessBounded`, `ChangeIsReported` |
| `PiecesProofs` | `PiecesTypeOK`, `HaveIsBacked`; `SavedIsRestored` |
| `SavedProofs` | `RecordsOpen`, `SavedTypeOK`; for `Overlap = FALSE` also `TransfersAreSaved`, `ForgottenStaysForgotten`, `AllowlistIsSaved`, `FetchedIsFindable` |
| `JoiningProofs` | `JoiningTypeOK`, `TurnsRotate`, `EndsInTime`, `FailedHonestly`, `LayoutSound` |

**Scheduler.** None of the invariants is inductive alone. `drop_request` adds to
`missing` for each list that becomes empty, which is exact only because a piece is
InFlight exactly while its list is not empty (`RequestsSound`); the lists stay
sound because only connected peers with the bit are on them, which `add_peer`
keeps by dropping the peer's requests before it replaces its bits; `complete`
moves the playhead to the right place because everything below it was Done
(`PlayheadExact`). Their conjunction with the type invariant, `SchedInv`, is
inductive, over lemmas on cardinalities (`GrowsByOne`, `DisjointUnion`,
`HoldersCount`), on `drop_request` (`DropRequestsEffect`) and on what `pick` may
return (`PicksSound`). The action properties follow from `SchedInv` and the
effect of a step on one piece (`StepEffect`). That `pick` finds work and picks
the rarest uses no step at all: in each state of `SchedInv` one of its three
rules has a candidate when there is work, and the sample it looked at has a
rarest member.

**Engine.** `EngineInv` adds to `SchedInv` that a worker waits for the store of the
piece it is on (`WorkersInOrder`), that a store which ended well has its piece in
the share (`StoredIsHad`), and that `connected` and the scheduler's peers belong
to one task each (`ConnectionsPaired`): the guard of `run_peer` looks at
`connected` only, so the proof needs that a peer is still there between
`remove_peer` and its release. `EngineCallsScheduler` then shows that every step of
the engine is a legal call of the scheduler, so that everything proved of the
scheduler holds inside the engine, and `EngineImplementsTransfer` that every step
is one of Transfer or a stutter. `EngineRequestsBacked` needs that workers live
only while their connection drives its peer (`WorkersDrive`); it assumes
`LatePolls = FALSE`, without which it is false (section 5).

**Serving.** `NothingMissed` is about a stream that is idle; in between, a piece may be
in any of four places. `AllOnTheWay` lists them: known to the subscriber or in a
frame on its way, about to be sent (`marking`), or in a message of the channel
that the handler has not read and that has not been overrun. `NothingErased` says of the
frames on their way that each bitfield repeats what was known and what is in the
frames before it, which makes `NeverUnlearned` hold frame by frame.

**Uploads.** `SlotsInv` relates the queue and the free slots to what each request
does. `AgeInv` bounds the debt of the bucket by one piece for each request that was
charged. `RateKept` needs the strongest invariant of the project (`RateInv`): the
bytes that were granted and are not sent yet are a debt that is paid at the rate, so
paced requests are let through one piece's time apart; the invariant states it
for the sleeping requests of every stretch of remaining pauses (`Beyond`,
`Between`, `Within`), because a tick moves all of them at once.

**Pieces.** `PiecesInv` says for each step of `store_piece` what it has established
(`TaskInv`, for tasks that are not stale), what a piece in `have` has on disk and
in the outboard at each stage of a run (`ShareInv`), and that a record proves
every piece that was had when it was saved, whatever crashes came after
(`RecordInv`).

**Saved and DataDir.** `RecordsOpen` says nothing of a process between its start
and its first record, so `DirInv` adds the order of the marks (`MarksInOrder`: the
fingerprint before the format, the format before any sealed record), what each
stage of the start has established (`KeyOfDir`; in the two states between the
transactions of `Mark` there are no records yet), and that calls run only while
the process is up (`CallsWhenUp`). `TypesInv` holds for calls in any overlap: what
is listed in the registry belongs to a call that has not ended. The other four
properties are about transfers one after the other. `OrderInv` says that at most one
transfer is on its way or served, with at most one `set_allowed_peers` beside its
handle and any number of calls that forget (`Alone`); how records, object and step
agree at each transaction of a call as long as nobody forgets the share (`InTurn`);
and that what was forgotten is gone, with no call left that will write it again
unless `outlived` names one (`ForgottenAll`): a call that is recorded and goes on is no
such call until it is awaited. `Overlap = FALSE` is a hypothesis of these theorems and
not only of the run: with overlapping calls `AllowlistIsSaved` is false (finding 2).
It does not keep `forget` and `remove` away from a running transfer; what they mean
to it is in the properties: `TransfersAreSaved` and `FetchedIsFindable` speak of
transfers that were not forgotten, `AllowlistIsSaved` and `ForgottenStaysForgotten`
of states without an `outlived` transfer, because of finding 3.

**Joining.** `TurnInv` relates `next` and the set of peers tried since the list grew;
`TimeInv` bounds the time that is left in each phase by the limit it was entered
with. That `candidates` lists nobody twice goes through three folds over
sequences.

`FailedHonestly` rests on `SearchInv`, about a good peer *g* that the code lists where
it is. Everybody the code lists fits in the channel and is a candidate after the first
look (`Learned`), *g* at the listed address, because no other one was heard before.
`WaitBound` counts the attempts up to *g*'s next turn: one round of all candidates for
each dial of *g* so far, and for the first list and each newcomer that changes it part of
a round more, since `next % candidates.len()` begins anywhere in the list that grew;
`Division` and `TurnComes` are what it needs to know of `%`. `TimeUsed` says that each
attempt took a dial and a pause at most, as long as no peer lets a request wait. So the
deadline is not over at *g*'s dial number *k*, and if that one is long enough the task goes
from `dial` to `ask` to the manifest (`Reached`), which *g* sends and the task accepts,
because what `from_disk` shares is what `validate` accepts (`SharesValid`). `EnoughFor`
is the room this takes, computed from the numbers of candidates and newcomers. It is
sufficient and not the least: it takes `CONNECT_TIMEOUT` for each attempt, also where the
limit of the dial is shorter. With the constants of the code (dials of 4, 8, 15 s, a
pause of 0.5 s, 30 s in all) it covers a lone peer that needs up to 8 s and one of two listed
peers that needs up to 4 s; longer lists need a longer `discovery_timeout`.

`LayoutSound` holds of every list of sizes. Bits and ranges are arithmetic of `\div` and
`%` (`BitsOf`, `ReadLenBound`, `PieceOfFile`). For `locate` the proof counts up over the
files: `FirstPiece` is the number of the pieces before a file (`PiecesAddUp`), the files
begin in order (`FilesInOrder`), and the list of all blocks, file by file, has the blocks
of a file from there on (`BlocksInOrder`), so that the last file which begins at or before
a piece and is not empty is the one the piece is in (`Located`).

`Folding` states once what these proofs need of folds over sequences and of recursive
functions on `1 .. n`. `FoldRun`: a fold takes the elements one by one, so it has a sequence of
values from the first to the result. `FoldKeeps`: a set that holds the base and is
closed under the operator holds the result. `ChainDef`: a function defined by the value
before exists and satisfies its equations. `SumStays`, `AnyTermFirst`: a sum over a set of numbers does not
depend on the order. The operator is a CONSTANT of the module, and a proof cites a
theorem for its own operator through an INSTANCE, which is how an induction over data
is brought within reach of provers that cannot instantiate an operator parameter of a
theorem. The induction is on the least number for which a claim fails (`LeastNumber`,
`CountUp`).

**Only model-checked.**

- The liveness properties `SeederFinishes`, `SubscribersLearn`,
  `UnlistedStreamsEnd`, `RequestsAnswered`, `DownloadCompletes`: fairness and
  ENABLED are beyond TLAPS.
- The violated properties of the four last runs, which are counterexamples.

## 5. Findings

1. **A finished piece can be lost to the download** (`download.rs:680`). A
   worker aborted while it waits for its blocking `store_piece` never calls
   `Scheduler::complete`; the piece is on disk and in `have`, so it will not be
   stored again, yet the loop waits for a peer to deliver it once more. If the
   only peer is gone for good the download hangs with every piece on disk.
2. **A refused call replaces the saved allowlist** (`client.rs:501`). The list
   is saved before the registry refuses the second seed or download.
3. **A share that was forgotten is offered again** (`client.rs:873`, `client.rs:892`).
   `forget` removes the records of a share and lets a running transfer go on, as
   it promises (`client.rs:716`). When that transfer is a download,
   `DownloadHandle::finished` calls `remember_seed` all the same: download, forget,
   finished, one after the other, leave the share in SEEDS, and without its
   allowlist, which `forget` took out of ACCESS, so that a resume after a restart
   serves it to anyone.
4. **One stalled peer can sink a download** (`download.rs:150`). The request for
   the manifest may wait 60 seconds, twice the default deadline, before the next
   peer is dialed, although the comment above the loop (`download.rs:112`) says
   that a single stalled attempt must not sink the download.

Also seen with TLC, without a run of their own:

- `UploadsWithinSlots` (Uploads) fails: `max_concurrent_uploads` promises "Most pieces
  uploaded at once across all peers" (client.rs:121), but the permit is dropped when
  the piece is encoded (handler.rs:105), before it is written to the peer. With one
  slot two uploads go on.
- `FailedIsRetried` (Engine) fails: "it will be retried" (event.rs:50). Bad data
  clears the peer's bit for as long as its connection lives (download.rs:702); if
  it is the only holder, nobody asks again. The reverse also happens: the comment
  "never ask this peer for this piece again" holds only until the peer's next
  `Bitfield` or `Have` sets the bit again (scheduler.rs:67, 77).
- `NothingTwice` (Pieces) fails: "Nothing is downloaded twice" (src/README.md:173).
  A cancel saves the outboards while blocking tasks still store
  (download.rs:271); what they write afterwards is on disk but unproved in the next
  run. A kill loses up to five seconds of progress in the same way.
- Without the exception `abandoned`, `FetchedIsFindable` fails: the record of a
  download is removed when the task completes (download.rs:303), and the finished
  share recorded only in `DownloadHandle::finished` (client.rs:873). A handle
  dropped in between, or a crash, leaves a complete encrypted download that
  nothing lists.
- Two exceptions of `FailedHonestly` are behaviours of the code, not of its
  surroundings: a manifest above `MAX_MANIFEST_BYTES` can be shared and is
  refused by every downloader (download.rs:457), and `add_candidate` keeps the
  first address it hears of a peer, so that a current one announced later is not
  tried for the manifest (download.rs:502). A third one, `EnoughTime`, is a matter of
  numbers: the attempts take turns, so the more candidates there are the later the
  longer dials come (section 4).
- `Distinct` compares whole paths. A file `a` beside a folder `A` can be shared
  from Linux and cannot be created on Windows or macOS (manifest.rs:187).
- `EndgameLimit` (scheduler.rs:13) fails with three peers: a bitfield that is
  sent again drops the peer's entries while its requests are still waited for,
  so more peers than `ENDGAME_DUPLICATES` can be asked for one piece.
- With `LatePolls = TRUE` in `engine_reconnect`, `RequestsBacked` fails: a worker
  aborted in the middle of a poll may pick a piece for its peer after the peer
  was forgotten and came back. The entry stays until the peer leaves.
- `SavedSeedLoads` fails: KINDS and SEEDS are written one after the other
  (store.rs:393), so a crash while a share changes between "in place" and
  encrypted copy leaves a record that loads as the wrong kind.
- In `Pieces` a complete encrypted download can fail its `verify`: an endgame copy
  that passed the `has` check before the first copy was stored is sealed over it
  while `verify` reads, and it opens the writer again that `release_writers`
  closed. The next run finds the piece. If it happens every time the
  download never completes, so `DownloadCompletes` counts it as a disturbance.
- After a power loss an encrypted file can be as long as its header without
  having it. `preallocate` keeps such a file and every open fails; the
  exception in `DownloadCompletes`.
- A download that is forgotten while it still waits for its manifest records itself
  afterwards (`remember_download`, download.rs:224), so `ForgottenIsNotOffered` fails
  also without its exception for `Recording` calls, and sooner.
- With `Overlap = TRUE` and three slots, two `set_allowed_peers` calls on one handle
  violate `AllowlistIsSaved` too: each writes ACCESS and then the object
  (client.rs:802, 805), and the writes may come in opposite orders.
- In `Saved`, a progress record can outlive its download record (a save after
  `forget`); a later `forget` only removes the progress of downloads it finds and so
  leaves it. It is harmless but stays.

## 6. What is not modelled

- The wake-ups of idle workers (`wake`, `finished`): a worker looks again after
  a second anyway, so they only shorten waits. The panic of a blocking task.
- Download: `check_peer`, which only diagnoses. Saves are in Saved and Pieces, not
  in Engine. Joining ends with the manifest and Engine begins with the files laid
  out; `Pieces` has what happens in between for one file.
- Local share: importing and exporting. A file that somebody else changes while it
  is served in place is in Uploads, one that is being downloaded is not. Pieces has one file; those of a share meet only in
  `verify` and in the saved record, which take all of them. Engine sees a piece
  as stored or bad; an I/O error acts like bad data, as in the code. `verify` and
  `restore_progress` read the file in one step each; errors of the store
  (a save that fails) are left out of Pieces.
- Serving: authorization. A subscription is authorized once, when it starts.
- Uploads: the private shares' tokens (a peer is admitted or not); several files
  (the note is made once per file); the limiter's fractions of a byte. The same
  limiter paces downloads, which is not modelled.
- Saved: the data files that `remove` deletes, the content of records, several
  downloads of one share to different folders, formats of other versions.
- Discovery beyond what a download hears of it: joining and re-joining the swarm
  depend on a gossip library that is not part of this repository. Encodings of
  codes, manifests and frames, the node, the CLI: see the components in
  `PROJECT.json`.

## 7. Plan

Done: Scheduler, Engine with Transfer, Serving, Uploads, Joining with Layout,
Saved with DataDir, Pieces, and the proofs of section 4.

1. Saved: the data files of `remove`. Pieces: `import`, and several files by way of
   Layout.
