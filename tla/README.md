# Formal models of ipfs-filestorage

TLA+ modules that model the parts of this repository in which concurrency,
crashes and partial failures decide what a client sees: upload, soft delete and
collection on a cluster of IPFS nodes, the unpin store with its file, the
Redis protocol behind download grants, the disk cache of immutable files, the
cache of manifests, what an upload may take and must give back, redrawn masks
and the sizes made of them, and how a download is authorised and answered.
TLC checks small instances, TLAPS proves the main safety properties for every
value of the constants. Source paths are relative to `src/`; line numbers of
every definition are under `map` in `PROJECT.json`.

## 1. The system and its parts

Two storage processes (`docker-compose.yml`) sit behind a round-robin proxy.
Each has its own data volume; both talk to the same Kubo nodes, which run
without repository garbage collection (`scripts/ipfs-init.sh:41`).

| Part | State | Operations | Talks to |
|---|---|---|---|
| Upload handlers (`handler.go`, `video_handler.go`) | requests in flight, detached `replicateAsync` goroutines | `HandleUpload`, `HandleUploadMultiple`, `HandleUploadVideo` | cluster, unpin store (`TrackGroup`), upload budget |
| Delete (`handler.go`) | the detached goroutine that unpins | `HandleDelete` | grants (`Revoke`), unpin store, cluster |
| Cluster (`ipfs/`) | none of its own; pins and blocks are on the nodes | `ClusterAdd(Dir)`, `ClusterReplicate`, `ClusterUnpinAll`, reads with failover | nodes, by RPC, one goroutine per node |
| Unpin worker (`unpin/worker.go`) | the sweep it is in | `gc` | unpin store, cluster |
| Unpin store (`store/store.go`) | marks with time, groups, a JSON file | `Add`, `AddGroup`, `TrackGroup`, `GetGroup`, `Has`, `Remove`, `Expired`, `Load`, `saveUnsafe` | the file system |
| Media grants (`mediagrant/`, `media_grants.go`) | epoch, versions and guards in Redis | `Initialize`, `Snapshot`, `Check`, `Begin`/finish, `Revoke` | Redis; the API uses the same package |
| File cache (`file_cache.go`) | index, LRU list, byte count, reservations, blobs on disk | `open`, `Read`, `Close`, `finish`, `evict`, `remove` | cluster reads, the file system |
| Manifest cache (`manifest_cache.go`) | LRU of parsed manifests, shared flights | `load`, `get`, `put` | cluster reads |
| Upload budget, transcoding slots (`upload_budget.go`) | bytes per session and day, slots | `take`, acquire and release | upload handlers |
| Video pipeline (`video/`) | temporary files, ffmpeg processes | `Validate`, `Transcode`, `UploadDir` | cluster |
| Media access (`media_access.go`, `media_resource.go`) | none | `resolveMediaDelivery(Link)`, `validateMediaResource`, the download handlers | the policy service over HTTP, grants, unpin store |
| Variant overrides, face masks, fit previews | override map and its file, shared flights | `Set`, `Get`, the mask and preview handlers | cluster |
| Authentication, rate limit, middleware | provider, token buckets | wrapping every handler | Lua scripts |
| Image processing, bundles, configuration | none | pure | - |

What is hard here: the goroutines of a fan-out, of a request, of a detached
replication or unpin and of the collector interleave RPC by RPC, on nodes that
another instance uses too; the store's mutex is released between reading a
group or the expired list and acting on it; a process may die between any two
of these steps and keeps only the store's file; an RPC that reports an error
may have been carried out; the cache reserves disk space before it knows a
size and shares files with slow readers; grants are checked by one process
against state that others change; manifests and sizes are fetched and made
once for several callers with the context of one of them; a download decides in
several steps, each from an answer or a store that may have changed since.
The entries under `hazards` in `PROJECT.json` place each of these at its line.

## 2. Modules

| Module | What it is |
|---|---|
| `SoftDelete` | upload, DELETE, replication, collector and restarts of several instances on shared nodes |
| `MarkStore` | abstract specification: the durable, atomic store `SoftDelete` relies on |
| `UnpinStore` | the unpin store of one process with its file, save by save; refines `MarkStore` |
| `GrantState` | epoch, versions, guards, writers, issuers and downloaders of grants |
| `FileCache` | the disk cache and the downloads that share it |
| `ManifestCache` | the cache of bundle manifests and its shared fetches |
| `UploadAdmission` | authentication, form, budget, transcoding slots and temporary files of an upload |
| `VariantOverrides` | redrawn masks, their map with its file, and the sizes made of them |
| `MediaDelivery` | the download routes: unpin check, policy or grant, validation, choice of the rendition |
| `CacheLemmas` | lemmas on sums over finite sets and on the lists the two caches keep |
| `SoftDeleteProofs`, `GrantStateProofs`, `FileCacheProofs`, `ManifestCacheProofs`, `UploadAdmissionProofs`, `VariantOverridesProofs`, `MediaDeliveryProofs` | theorems and proofs; those about `UnpinStore` are in `SoftDeleteProofs`, which extends both |
| `MC...` | the instances TLC checks |

The modules meet at narrow places. `SoftDelete` takes the unpin store for
`MarkStore`, which `UnpinStore` implements (`Store(i)` of `SoftDelete` is the same module over
the maps of instance `i`); it begins where `UploadAdmission`
ends an upload in `FileProcess`, `BatchFile` or `Store`. `MediaDelivery` sees the unpin store as a
set of marks that grows and shrinks, grants as accepted or not (`GrantState`
says when), manifests as read or not (`ManifestCache`), and leaves which file
stands in for a mask to `VariantOverrides`.

Operators whose name ends in `Mutant` are plausible bugs of the definition they
stand next to. Nothing uses them; each is listed in `PROJECT.json` with the
property that fails when it takes the definition's place.

### SoftDelete

`entries` and `groups` are the maps of each instance's `UnpinStore` (an entry
is an age in ticks; ages saturate past the TTL), `pins` and `stored` are what
the nodes have. `upload`, `del`, `unpinning`, `repl` and `worker` are the
goroutines in flight: a request between two RPCs, a DELETE between `GetGroup`
and the marking, the RPCs `HandleDelete`'s goroutine and `replicateAsync` have
still to make, and the `gc()` call of each collector. `owed` and `gone` are
observers that record what was promised; no step depends on them.

* `UploadBegin`, `AddOnNode`, `AddNext`, `UploadFail`, `UploadDone`: one
  `ClusterAdd` or `ClusterAddDir` after the other, one step per node. A file is
  a single directory CID; a video is `Added[m]`, master last, of which
  `AllCIDs[m]` is what `UploadDir` reports. A step that fails leaves its pins. An
  error that no node caused (a CID mismatch, a playlist that cannot be
  rewritten) leaves the state an add leaves whose reply was lost, and is covered by it.
  Requests refused before the first RPC change nothing that is modelled.
* `ReplPin`, `ReplGiveUp`: `replicateAsync` for 30 s. A Pin that reported an
  error may be tried again.
* `DeleteBegin`, `DeleteMark`, `DeleteUnpin`: `HandleDelete`. The unpin RPCs of
  one DELETE are made in any order, which includes the code's.
* `WorkerScan`, `WorkerNext`, `WorkerUnpin`, `WorkerSkip`, `WorkerRemove`: `gc`.
  A sweep may begin whenever something has expired; the interval is left open.
* `Tick`: time passes, marks age, and replications past their deadline end.
* `Restart`: the process dies with all its goroutines and loads its store.

An RPC that reports an error may have been carried out (`NodeUnpin`,
`AddOnNode`); unpinning a CID that is not pinned is an error, as in Kubo.

### UnpinStore and MarkStore

`mem` is the pair of maps, `file[p]` what is at `UNPIN_STORE_PATH` and at the
fallback in `/tmp`, with `kind` telling a missing file, a torn one and
the two formats `Load` accepts. A call changes the maps (`Change`, with the
lock held until the save ends), then `Truncate` and `Write` are the two halves
of `os.WriteFile`. `Start` is the beginning of `NewHandler` with its fallback:
`Load` fails on a torn file, and on any file `os.ReadFile` cannot read at that
moment (permissions, an I/O error, no descriptors left), sound or not; only a
missing file counts as an empty store (`Opens`). A process that could not read its
file works in `/tmp`, or without a store if that file cannot be loaded either, and the
next start that can read the first one goes back to it; a torn one is never taken up again.
The process may end at any moment, any save may fail and any start may be
unable to read; `unsaved` and `hit` are observers that tell whether the last
save failed, and whether a save was ever cut short or failed or a start could not read.
`MarkStore` has the same flag as `broken`: from the step on that breaks it, it promises nothing.
Definitions that `SoftDelete` has by the same name carry the prefix `Store` here (`StoreRemove` is
`Remove` of `store.go`), so that one proof module can extend both.
Ages are left out: the store never interprets the times it keeps. `RemoveGroup`
and `Save` are not called by the program and have no action.

### GrantState

`epoch`, `version` and `guard` are the keys in Redis; `fresh` stands for
`randomVersion`, every draw a new number. Each Lua script is a step. Issuers,
the database (`reg` counts the changes of a registration), operators and
Redis failures are outside the repository and modelled from the package's
contract: an issuer takes its snapshot before it reads the database and issues
nothing for a blocked resource; a writer changes a registration only between
`Begin` and finish; an operator clears a guard only when its writer has ended
(`state.go:124-127`); one API process at a time calls `Initialize`. A Redis
restored from an old backup is not modelled: the repository's README requires
the epoch to be rotated then.

### FileCache

The index (`entries`, `size`, `readers`), the list `lru`, `bytes`, `active`, the
blobs and each download `req[q]`. A download holds the mutex across steps only
in phase `reserve`, where the eviction loop runs; other critical sections are
single steps, and `Free` is the mutex. `Read` delivers any number of bytes with
any ending, and its write may fail or be short. Keys in `Stuck` have files the
file system may refuse to remove. `Restart` is `newFileCache` clearing the
directory. A cache that could not be created (`nil`) passes downloads through
and is not modelled.

### ManifestCache

`lru`, `bytes` and `limit` are the cache (`limit = 0`: no cache), `call[p]` a
call of `readManifest`, `flight[c]` the call of the singleflight group for a
CID with its members, `chan[p]` what it sent to a member. A call checks its
context and the cache (`Check`), joins or starts the flight (`Join`), and takes
the first of its context's end (`Leave`) and the result (`Receive`), which sends
it back to the top when the leader was canceled and it was not. The flight
looks again (`FlightGet`), fetches with the leader's context (`FlightFetch`),
puts (`FlightPut`) and answers all members (`FlightLand`). Manifests have a cost
and no content: the bundle at a CID never changes. `fetched` and `failed` are observers.

### UploadAdmission

`req[p]` is an upload on one of the three routes with the deferred calls it has
registered; every early return is `Finish`, which runs them. `disk` holds the
temporary files, `slots` the places taken in `transcodeSlots`, `budget` the map
of the day. `Auth` is `AuthMiddleware`; what the Lua script answers is left
open. A token authenticates from five places (`Places`), of which
`uploadSessionKey` looks at three (`SessionPlaces`): an upload whose token came as
`X-API-Key` or `access_token` has no key and is not metered. The observer `accepted` counts
all bytes let in for a session, `unmetered` those among them the budget did not see. Order and moment of the checks are those of the code: a file and a video
are read before their bytes are taken from the budget, a batch after, by the
sizes of its parts. `Crash` empties the budget and the channel and leaves the
temporary files, which `TempOwned` therefore leaves out.

### VariantOverrides

`mem` and `file` are the map of replacements, seen as two functions: which
drawn mask stands for a masked variant, and which size is stored for a mask
(`PreviewKey` holds the file of the mask, as the key in `fit_preview.go` does).
`Set` is `Enter`, which takes the lock and changes the map, and `Saved` or
`NotSaved`. Refreshes and downloads are processes; a download of a size is
`Look`, `Join`, and for the first of its key `LookAgain`, `Make`, `MakeSet`,
`MakeDone`; `Land` answers all who waited. A map whose file cannot be read is
phase `nil`. `since[p]` records the masks in force since a download began.

### MediaDelivery

A request is one of the five download routes with what its URL names; `req[r]`
goes from the unpin check (`Begin`) through the policy (`ResolveMediaLink`,
`ResolveCID`, `ResolveLink`) or a grant (`GrantAccepted`) and
`validateMediaResource` (`Validate`, then `Scan` playlist by playlist) to the
handler's end. Policy and grants are outside: any answer at any call, but a
link has one file (`SourceOf`) for good. `Delete` and `Collect` change the marks
between any two steps. Every read may fail. Assumed are well-formed CIDs in one spelling
and playlists and posters as the upload pipeline writes them (`PosterAssumption`).
The policy may answer `deny` for a link too: `Resolve` refuses it, `ResolveLink` passes it on.

`serveFile` picks by key: a framed picture is cut to the size asked for if that is
configured, else to `fit_1024` (`VariantKey`), which is looked for in the bundle even when it
is not configured and nothing is cut (`Cropped`). "size" stands for the sizes that are
configured, `setup.cropSize` tells whether `fit_1024` is one of them, and `VariantsOf` what a bundle
holds. Three properties name cases in which the code does less than the sentence they
are about; the cases are part of the model and occur in the run:

* `MaskedBytes`: under a `deny` row `/file/link` sends the blurred picture if a size of
  it is asked for by name, and `/stream/link` plays the video. `DeniedRefused`, what
  `MEDIA-ACCESS.md:54` says instead, fails in the run `delivery_deny`.
* `FramedOnly`: a framed picture goes out whole on `/file` and `/file/link` when neither the
  size asked for nor `fit_1024` is configured, and on `/stream` and `/stream/segment`, which
  take its CID (`media_resource.go:23`) and know no frame, under the mode `original`.
* `DeletedNotServed`: `serveProtectedPoster` (`video_handler.go:648`) sends the masked
  poster without asking the unpin store about it, which `HandleStreamLink` does for the
  poster of a link (`video_handler.go:261`). The video itself was looked up, so the case is a poster deleted by its own CID, or
  one whose video's mark was collected before its own.

## 3. Runs

Every passing run takes at most about three and a half minutes.

| Run | Checks | Instance |
|---|---|---|
| `softdelete_file` | `AckedStaysPinned`, `NoForgottenPin`, `DeletedEventuallyUnpinned` | 1 instance, 2 nodes, 1 file, 2 uploads, 2 deletes, 1 restart, fair |
| `softdelete_video` | `AckedStaysPinned`, `NoForgottenPin`, `StoreCalls` | 2 instances, 2 nodes, 2 videos that share a segment, 2 uploads, 1 delete of any CID, 1 restart |
| `unpinstore` | `FileFollowsMemory`, `AnsweredHeldUnhit`, `ImplementsMarkStore`, `TornForGood` | 2 CIDs, 2 groups; crashes, failing saves and failing reads at a start without bound |
| `grants` | `AcceptedIsCurrent`, `RevokedRefused`, `RefusedForGood` | 1 asset, 1 file, 2 writers, 1 issuer, 5 versions drawn, 2 changes, 2 grants |
| `filecache` | `Reserved`, `DiskBudget`, `CompleteOnly`, `ReadersKeepFile`, `ReservingEnds` | 3 downloads, 4 objects of size 0, 1, 2 and 3, object limit 2, budget 5, 3 entry slots, 2 fills, fair |
| `delivery` | `OwnBytes`, `MaskedBytes`, `FramedOnly`, `DeletedNotServed` | 1 request of any route, two pictures and two videos with masks, posters and a shared playlist, links that name each other's files, a frame on each picture, `fit_1024` configured or not, any mode for any link, 2 deletions or collections |
| `overrides` | `FreshPreview`, `PreviewMatchesMask`, `MapsAgree`, `RefreshKept`, `ViewsEnd` | 1 masked variant, 2 versions to draw, 2 refreshes, 2 downloads, 1 crash, fair |
| `manifests` | `Budget`, `PutFindsRoom`, `NoBorrowedCancel`, `NoBlame`, `OnlyFetched`, `CanceledReturns`, `CallsReturn` | 3 calls, manifests of cost 1, 2 and 3, no cache or limits of 2 and 6 bytes, 2 entries, fair |
| `admission` | `SlotsHeld`, `TempOwned`, `QuotaHeld`, `BatchWhole`, `QueueEnds`, `GoneEnds` | 2 uploads of any kind, 2 files in a batch, 1 session with its token in any place, budget of 0 or 1 byte, 1 slot, 1 midnight, 1 crash, fair |

Bounds. Two nodes are enough for every partial failure, two instances for every
difference between stores; the second upload and delete give each race a
request that comes late. TTL and replication timeout are one tick each, which is
where they are closest together. Client slots overlap one upload with one
delete; concurrent uploads of one CID do the same idempotent adds. In `filecache` an
entry of size 2 leaves room for one fill and not for two, two small ones leave
one slot for two fills, and a third fill finds none: each of the three bounds
binds while the others do not, and reservations, eviction and streaming all occur.
In `manifests` bytes run out first under the small limit, where the largest
manifest is refused, and entries under the large one; three calls give a leader, one that
waits for it and one that comes late. Requests of `delivery` share nothing but the
marks, which change at any moment anyway, so one of them is enough; a single poster
is among what may be deleted, and `fit_1024` is left unconfigured only where there is a policy, since
nothing is framed without one. In
`admission` the second upload finds the slot and the budget taken, or a new day.
Where a symmetry set is used, no constant distinguishes its members;
the runs with temporal properties that are not plain action properties use none.
`MCManifestCache` fixes in which order the calls name their CIDs, which differ in nothing else.

Two runs of `SoftDelete` and one of `MediaDelivery` state what the repository's
documentation says and show an execution of the code that does otherwise;
clients of the first two delete only what an upload was acknowledged with:

| Run | What the docs say | What happens |
|---|---|---|
| `softdelete_404` | a deleted file answers 404 | once the collector has removed the entry the blocks are served again |
| `softdelete_stale` | the collector acts on expired entries | a mark renewed during a sweep is removed unexpired |
| `delivery_deny` | a `deny` row answers 403 (`MEDIA-ACCESS.md:54`) | `ResolveLink` passes it on, `mediaDeliveryHidesStream` does not hide it, and `/stream/link` plays the video |

The first two fail for a second reason with two instances
(`Instances = {i1, i2}` in these configurations): a DELETE marks the file at
one instance only, so the other still serves it. Differences without a run
of their own, most of them exceptions a passing property names:
a session uploads at most the daily limit (`upload_budget.go:14`, `MEDIA-ACCESS.md:71`), but not with
its token as `X-API-Key` or `access_token` (`QuotaHeld`);
a deleted file answers 404 (`README.md:621`), but a crash in a save leaves a torn file and
loses every mark (`TornForGood`), a save whose error is dropped loses its own, and a
start that cannot read the file runs without the marks in it (`AnsweredHeldUnhit`), and the masked
poster of a video is sent although it is deleted (`DeletedNotServed`);
an avatar shows only the part of its picture it was framed to (`handler.go:562`), but not
on the stream routes (`FramedOnly`); `HandleDelete` unpins at once (`handler.go:724`) where `README.md:75`
has the unpin after `UNPIN_TTL`, and it never calls `RemoveGroup`, which
`README.md:733` names; deleting a master takes its chunks and playlists along
(`store.go:44`) only at the instance that took the upload, and never the
playlists as they were pinned before `UploadDir` rewrote and pinned them again
(`uploader.go:107`).

### Fairness

`DeletedEventuallyUnpinned` assumes that time passes and that each collector's
goroutine runs (the Go scheduler and the ticker), that an RPC of `gc` returns
(an assumption on the nodes: `gc` sets no deadline), and strong fairness of a
successful unpin of a CID that is pinned when it is tried again and again. Nothing is assumed of
requests, of `HandleDelete`'s goroutine or of replication. `ReservingEnds`
assumes only that the goroutine holding the cache's mutex goes on; it makes no call
that waits for another download.

`CallsReturn` and `CanceledReturns` assume that calls and flights are scheduled
and that a fetch ends once its leader's context has; a fetch for a live leader
may take for ever, and `CallsReturn` is stated for behaviours in which no fetch does.
`QueueEnds` and `GoneEnds` assume steps of the process itself and those under a timer of their own
(queue, transcode), and, once the client has left, every step that runs with its
context. `ViewsEnd` assumes that the holder of the lock goes on and strong
fairness of each download, whose way to the lock others may cross again and
again; its reads end at the latest when its client leaves.

## 4. Proofs

The theorems have the form `Spec => []Inv` or `Spec => [][A]_vars`, but for the
refinements `Spec => ImplementsMarkStore` and `Spec => Store(i)!Spec`. Each follows from an inductive
invariant and holds for every value of the constants that satisfies the
module's assumptions.

* **SoftDelete.** `TypeCorrect` (with `Shape`: a fan-out in flight names a CID
  and a root). `AckedStaysPinnedCorrect` rests on `AckedInv`: whatever a sweep holds is
  still marked (`SweepMarked`), for an owed or clean CID no mark and no unpin
  RPC is outstanding (`OwedQuiet`), and the part of an upload already added is
  pinned where it was clean (`CleanPinned`). Without the first two a sweep that
  began before the upload could unpin what it acknowledged.
  `NoForgottenPinCorrect` rests on `GoneInv`: a deleted CID has no pin and
  no replication, or some instance covers it. That instance has it marked, the
  replications still running are at least as old as the mark, so that none is
  left when it expires, and a sweep without errors leaves no pin where it has
  been. This needs `ReplTimeout <= TTL`, which the shipped configuration satisfies and the code
  does not enforce.
  `StoreCallsCorrect` and `UsesMarkStores` close the gap between `SoftDelete` and `UnpinStore`:
  every step changes the store of an instance by at most one call of `MarkStore` (`StoreStep`,
  by cases on the actions), and a restart changes nothing of it. What one module assumes
  of the store is thus the specification the other is proved to implement until a save
  is hit or a start cannot read its file; what happens to the marks from then on is
  outside of `SoftDelete`. The run checks the action part only, which is what could fail.
* **UnpinStore** (in `SoftDeleteProofs`).
  The invariant says that the file in use can be loaded and
  agrees with the maps whenever no save is under way and the last one worked, and that it is
  the configured one until a save is hit or a start cannot read. A call takes effect at its
  `Change`, and every other step stutters. Crashes, failing saves and failing reads
  are steps of the specification and may come at any moment; `FileFollowsMemoryCorrect` and
  `TornForGoodCorrect` hold whichever do. `ImplementsMarkStoreCorrect` and
  `AnsweredHeldUnhitCorrect` promise something only until the first fault sets `hit`: a crash
  or a disk error during a save, or a start that cannot read its file, each of which can
  lose marks. The latter
  adds that the file or the maps, whichever is current, hold what was answered (`FileHeld`).
* **GrantState.** `GrantInv`: versions in use were drawn before (`Drawn`), a guarded resource
  has a version no grant carries (`GuardedIsNew`), the resource of a writer in flight is guarded and has no
  other writer as long as there is an epoch (`Bracketed`), and revoked resources have their tombstone.
  `RefusedForGoodCorrect` follows because every new epoch and version is a
  number not drawn before, a guard goes only with or after such a change, and data
  are lost only together with the epoch.
* **FileCache.** `CacheInv`: fills in flight fit the object limit, the mutex is
  held by at most one download (`Exclusive`), and `Reserved`, `CompleteOnly` and
  `ReadersKeepFile` together. `DiskBudgetCorrect` is about the disk and not about the counters,
  and needs `IndexExact` to relate them: the list names each entry once, the blobs on the
  disk are those of the entries (a file that cannot be removed keeps its entry), and `bytes` is the
  sum of their sizes. So (`BudgetFollows`) the blobs take `bytes`, and the partial files at
  most the object limit for each of the fills counted in `active`; `Reserved` bounds the two together.
* **ManifestCache.** `ManifestInv`: a flight has a leader and all its members ask for
  its CID (`Crew`), so that no answer reaches a call for another one; what a flight holds
  is what a fetch answered, and a cancellation only when the context of its leader has
  ended (`FlightTrue`); what was sent to a call is true of its CID, and a cancellation
  that was not shared is its own (`SentTrue`). `BudgetCorrect` adds that the list names no
  CID twice (`OnceEach`): the first `n` of it then cost what `BytesOf` is left with after the eviction of the
  others. `PutFindsRoomCorrect` follows from it: with all of them evicted nothing is counted
  any more, so that any manifest that is not refused fits, and the loop of `put` has stopped before.
* **UploadAdmission.** `HoldInv` says of every upload which deferred calls it has
  registered where it stands, that what it has on the disk is among them (`RowOK`), and
  that the places taken in the channel are those of the uploads that hold one. `QuotaInv`
  adds that the map holds what was accepted today and metered, and that nothing is accepted for a
  day to come (`Accounted`). `QuotaHeldCorrect` is about all bytes let in for a session and says by how
  much they may exceed the limit: by those that came with a token the budget does not look at.
* **VariantOverrides.** `OverInv`: a download knows a mask that was in force since it
  began and stores a size of that mask only (`Rows`); a refresh that renames has its mask
  in the map (`RefOK`); a variant once refreshed has a mask in the map as long as there
  is one (`MemKept`).
* **MediaDelivery.** `DeliveryInv` says of each request (`RowOK`) that its decision has the
  strictest mode of its rows (`DecisionOK`), which is `deny` on the link routes only (`DenyOK`), that when it is about to be served it names
  a part of the file of the decision, which had not been deleted (`ReadyOK`), and that what
  it sent fits (`ResponseOK`). CIDs counted as deleted since it came are still marked
  (`GoneMarked`), which is why a check of the marks at any later step is enough.
  `KindOK`, `FrameOK` and `GoneOK` are the parts of `ResponseOK` that carry the exceptions listed in
  section 2; no theorem assumes anything of the policy's answers.

`TypeCorrect` is proved for each of these modules (`UnpinTypeCorrect` for the store); the runs spend no property on `TypeOK`.

**Sums.** `DiskBudget` and `Budget` sum over sets of any size. `CacheLemmas` proves what
a sum does when an element is added, removed or changed by an induction that needs no operator
parameter: the subsets of a finite set are well-founded under strict inclusion, and a
set of counterexamples has a smallest one (`Minimal`), from which an element is taken.
The same lemmas say what removing an element, pushing to the front and cutting the tail do to
a list without repetition.

Checked by TLC only: the liveness properties (`DeletedEventuallyUnpinned`, `ReservingEnds`,
`ViewsEnd`, `CanceledReturns`, `CallsReturn`, `QueueEnds`, `GoneEnds`), which need fairness, and
the three properties that fail. Every other property of the runs is stated by a theorem.

## 5. Not modelled

The arguments and outputs of ffmpeg and the choice of renditions; image
processing; the wording of errors; URL and header forms and the text of rewritten
playlists; the encryption and expiry of grant tokens; the Lua interpreter, the
rate limiter, CORS; configuration, start and stop of the server. These either compute
without state or change nothing that another part sees. Bytes on the disk are not
counted outside of the file cache: a full disk is an error of the step that meets it.
Three effects are visible in the models and stated
as hazards rather than properties, because neither code nor docs promise
otherwise: an upload of a CID that is still marked is collected later, videos
that share segments are deleted together, and the entry of a CID that was
already unpinned stays for good. Other effects the code accepts are left as they
are: the budget of a day is lost in a restart and the bytes of an upload that fails
are not given back; a temporary file that cannot be removed stays on the disk, counted by nothing; a grant is checked before the file is opened and not again; `gc` calls the
nodes without a deadline; the table of the rate limiter is bounded by its sweep only.

## 6. Plan

1. The eviction loop of the file cache and the retries of a manifest call: the measure that
   falls with every round, as an action theorem; only the fairness would then be left to TLC.
2. The parts of `DeletedAnswers404` and `OnlyExpiredMarksRemoved` that the code keeps, as
   `AnsweredHeldUnhit` is for `AnsweredHeld` and `MaskedBytes` for `DeniedRefused`.
3. An abstract specification of the manifest cache (each call returns what a fetch
   of its own would) with the refinement.
4. Should nodes run with garbage collection, `SoftDelete` with a node's `repo gc`.
