# TLA+ verification of the OpenList/TinyList server

This directory holds TLA+ models of the server in `src/` (a Go file server with a
web front end, a WebDAV server, background transfers between storages and a search
index), the TLC configurations that check them on small instances, and proofs
checked by TLAPS. `PROJECT.json` maps every definition to the lines it models.

Every violation run shows a sentence of the repository that the code does not keep;
all other runs pass. Behaviours of the code that surprised the modeller, and that the
properties except, are listed in section 4.

## 1. Inventory

| Component | State | Operations | Hard because |
|---|---|---|---|
| WebDAV lock system (`server/webdav/lock.go`) | `byName` tree of nodes with reference counts, `byToken`, expiry heap, `held` flags | Confirm and its release, Create, Refresh, Unlock, collectExpiredNodes | several indexes of one set of locks; releases that run after other calls; callers bring old clock readings |
| WebDAV handlers (`server/webdav/webdav.go`) | per request: temporary tokens or a release | PUT, DELETE, MKCOL, PROPPATCH, COPY, MOVE, LOCK (create, refresh), UNLOCK, PROPFIND | every handler is a sequence of calls to the lock system and to the file system that other requests interleave with; early returns must release |
| WebDAV COPY/MOVE (`server/webdav/file.go`) | backup path of the old destination | prepareDestination, transfer, compensateFailedTransfer, cleanupBackup | any call to a storage can fail, also those that undo |
| WebDAV properties and XML (`prop.go`, `xml.go`, `internal/xml`) | the buffered multistatus; name spaces and open elements of decoder and encoder | props, allprop, patch, walkFS; reading and writing names, text and structs | a resource may fail when half of the answer is written; prefixes are declared again and undone |
| Transfer tasks (`internal/fs/copy_move.go`) | `groupID`, storages, progress | transfer, Run, OnSucceeded, OnFailed, SetRetry | a directory adds tasks while earlier ones run; retries; restarts |
| Task groups (`internal/task_group`) | pending count, hasSuccess, payloads by group | AddTask, AppendPayload, Done, HookAndRemove, verifyAndRemove | the last Done removes the sources: too early loses data, never leaves them |
| Task manager (`internal/task`, the `tache` library) | tasks, queue, workers | Add, next, Execute, Cancel, Retry, recover | cancel and retry at any time, persistence |
| Operations (`internal/op/fs.go`) and caches (`internal/op/cache.go`, `internal/cache`, `pkg/singleflight`, `pkg/utils/io.go`) | directory and link caches, flights, reference counts of shared files | List, Get, Link, MakeDir, Move, Copy, Rename, Remove, Put | a fill races with an invalidation; a close races with an acquisition |
| Local driver (`drivers/local`) | files, recycle bin, `DirectoryMap` of directory sizes | MakeDir, Move, Rename, Copy, Remove, Put, refresh | the map is refreshed after each change while other calls change the disk |
| Storage lifecycle (`internal/op/storage.go`) | database row, driver, `storagesMap` | Create, Load, Enable, Disable, Update, Delete, lookups | three stores updated one after another, no common lock |
| Users, metas, settings (`internal/op/user.go`, `meta.go`, `setting.go`, `hook.go`) | rows, cached rows, what hooks were told | read, create, update, delete | a read that missed stores what it fetched before a change |
| Downloads (`internal/net/request.go`), pipe buffers (`pkg/buffer/pipe.go`) | chunks, workers, buffers, connection limit | download, sendChunkTask, downloadPart, Read, interrupt, Close | goroutines, a shared limit, retries of a chunk, closing in the middle |
| Hybrid cache (`internal/hybrid_cache`, `internal/mem`) | mapped memory, a backing store, blocks | AllocBlock, RewindBySize, CopyFromN, ReadAt, WriteAt | one range of bytes lies in several stores |
| Streams (`internal/stream`) | the cached part of an upload, sections, forward readers | Read, RangeRead, CacheFullAndWriter, sections, ReadAt | order of reads and seeks; several goroutines |
| Ranges and preconditions (`internal/net/serve.go`, `util.go`, `pkg/http_range`) | none between requests | checkPreconditions, parseRange, ServeHTTP | many optional headers and kinds of remote server |
| Search (`internal/search`) | `Quit` pointer, queue, progress, update locks, Meilisearch task queue | BuildIndex, StopIndex, Update, task loop, filtered pages | builds, stops and updates overlap; the index server applies tasks later |
| API handlers that change files (`server/handles/fsmanage.go`, `fsbatch.go`, `fsup.go`) and permissions (`server/common/check.go`) | none between requests | mkdir, move, copy, rename, remove, recursive move, removal of empty directories, batch renames, uploads | many calls, any of which can fail, with others uploading between them |
| Logins and tokens (`server/handles/auth.go`, `server/webdav.go`, `server/middlewares/auth.go`, `server/common/auth.go`) | failed attempts by address, valid tokens, password timestamps | login by either door, logout, change of password, rehash | read-then-write counters, rows changed while a request is on its way |
| Archives, bootstrap, commands, messages, utilities, front end | - | - | sequential or library code (see section 7) |

How they interact: the HTTP server runs one goroutine per request. WebDAV handlers
call `memLS` (each method under one mutex), then package `fs`, which calls `op` on a
storage driver; a transfer between storages becomes a `FileTransferTask`, run inside
the request for WebDAV (`NoTaskKey`) and by the task manager's workers for the HTTP
API. The hooks of a task call the group coordinator, which calls `op` to remove the
sources. `op` keeps listings and links in its caches, finds the driver through
`storagesMap`, and hands listings to the search index. A download goes from the driver's link
through `net.Downloader` (pipe buffers over the hybrid cache) to the range handling
of `net.ServeHTTP`; an upload goes through `stream.FileStream` to the driver.

What makes them correct: two requests never write the same resource at once unless
a client's own lock admits it; a lock stays until it is unlocked or due; nothing
that a request takes outlives it; overwriting never loses the old content before the
new one is in place; a source is removed only after its upload, and then it is
removed; no group waits for ever; a reader gets the bytes of the range, in order and
once; what is cached is what the storage or the database says once the calls are
over; a request that was not asked to overwrite loses no file and stays within its
user's rights; a token lets in whom it was given to while the password stays.

## 2. Modules

| Module | Models | Checked by |
|---|---|---|
| `LockTable` | the promise of the `LockSystem` interface: a table of regions that never overlap | `MemLS` implements it |
| `MemLS`, `MemLSProofs` | `memLS`, one action per method | `memls`, TLAPS |
| `DavRequests` (extends `MemLS`), `DavRequestsProofs` | the handlers and `confirmLocks` over the lock system | `dav_headers`, `dav_tree`, `dav_base_path`, TLAPS |
| `DavCopyMove`, `DavCopyMoveProofs` | `moveFiles`, `copyFiles` and the `fs` calls they make | `dav_copy_move`, TLAPS |
| `TransferTasks`, `TransferTasksProofs` | background moves: tasks, manager, coordinator | `transfer_loss`, `transfer_live`, `transfer_old_file`, TLAPS |
| `ByteFifo` | the promise of a pipe buffer | `PipeBuffer` implements it |
| `PipeBuffer`, `PipeBufferProofs` | `pkg/buffer/pipe.go` | `download`, TLAPS |
| `Downloader`, `DownloaderProofs` | `internal/net/request.go` | `download`, TLAPS |
| `HybridCache` (and `DownloaderProofs`) | `internal/hybrid_cache`, `internal/mem`, `pkg/buffer/buffer.go` | `download`, TLAPS |
| `FileStream`, `SectionReader`, `ReadAtSeeker` | `internal/stream` | `download` |
| `HttpServe` | preconditions and ranges | `download` |
| `LocalDriver` | `drivers/local` | `op` |
| `DirCache` (and `ServerProofs`) | `internal/op/fs.go`, its listings and flights | `op`, `upload_over_dir`, TLAPS |
| `LinkCache` (and `ServerProofs`) | `op.Link` and `utils.SyncClosers` | `op`, TLAPS |
| `StorageLife` (and `ApiProofs`) | `internal/op/storage.go` | `api`, TLAPS |
| `RowCaches` (and `ServerProofs`) | cached users, metas and settings | `api`, TLAPS |
| `XmlNames`, `XmlText`, `XmlStructs` | `server/webdav/internal/xml` | `api` |
| `DavProps` (and `DavCopyMoveProofs`) | PROPFIND and PROPPATCH | `api`, TLAPS |
| `IndexBuild`, `SearchIndex`, `IndexUpdate`, `MeiliQueue` (and `ServerProofs`) | `internal/search`: building and updating, Meilisearch | `api`, TLAPS |
| `SearchPages` | `internal/search`: pages of results | `api` |
| `FsHandlers` (and `ApiProofs`) | the handlers of the HTTP API that change files, and the metas' rights | `api`, TLAPS |
| `Logins` (and `ApiProofs`) | logins and tokens | `api`, TLAPS |
| `MC*` | instances for TLC; `MCTransferLive`, `MCDownload`, `MCOp` and `MCApi` put several modules into one run |  |

### MemLS

A name is a sequence of segments; `walkToRoot` is its set of prefixes. A lock's node
keeps zeroDepth, duration, expiry, token, refCount and held. Every public method is
an action that takes its `now` from the past: callers read the clock before they take
the mutex. `claims` are the closures that `Confirm` returned and nobody has called.
`Condition.Not`, ETags and the owner's XML have no effect on the state and are left
out, as lookup leaves them out or refuses them.

### DavRequests

`conn[c]` is the stack of the goroutine that serves connection `c`: the method, the
paths before `JoinPath`, the tokens or the claim it holds, and `pc`. `confirmLocks` is
the part from `confirming` to `rejectIf`; `releasing`, `unlockDst`, `unlockSrc` and
`releaseClaim` are the deferred release. `Stat`, `StatParent` and `Apply` are calls to
package `fs`; `GiveUp` stands for every early return after the locks were confirmed
(permission, malformed header, driver error). The tree is the set of existing paths.
GET, HEAD and OPTIONS neither lock nor write and are left out; PROPFIND is in
`DavProps`.

### DavCopyMove

`call` says everything about the request and its storages that the code branches on:
source a file or a directory and its content, destination present or not, same
storage, same directory, whether the driver implements the transfer, Overwrite,
CanRemove. A call that fails is recorded in `failed`, as part of the request ("do") or
of undoing it ("undo"). Renames and uploads of files are atomic in the Local driver,
copies and removals of directories are not: a failed removal of the backup leaves it whole or in part (`backup`). `Twin` is a member of the source directory
with the directory's own name, which `verifyAndRemove` can take for the directory.

### TransferTasks

`exec[w]` is what worker `w` is doing: running a task, or in the completion that
`Done` started. `groups` holds the pending count, hasSuccess and payloads. `RetryAny`
says whether users retry tasks that are still queued or running, which the endpoint
allows; `RetryAny = FALSE` is what `/retry_failed` does. `AllowRetryCanceled` and
`MaxRetry` are the settings of those names. Copies add no source to remove and are
left out. States that last only within one step of a worker (errored, beforeRetry) are
not represented. Two files of a directory stand for any number: the coordinator only
counts. A directory whose members have been added is not run again, since new tasks
would be needed for its members; restarts are therefore checked with files only.

### PipeBuffer and Downloader

`pb` are the fields under `br.rw`, `signal` the channel of one token, `rd` and `wr`
the two callers, cut where they take and give up the lock, since the bytes themselves
are moved outside it (`ioWg`). `ByteFifo` is what a caller sees: bytes accepted and
bytes delivered. In `Downloader` the reader's goroutine and each worker are processes;
`mu` names the one that waits in the select of `sendChunkTask` with the mutex held.
A byte is its offset in the file, so "in order and once" is an equation. The server
may answer a part with an error, with fewer bytes, or that it is overloaded.

### HybridCache and the streams

`hmem` is the mapped memory with what is reserved, committed and used, `hback` the
backing store in one of its three forms, `hblocks` the blocks given out; `flat` is what
their owners remember. `FileStream`, `SectionReader` and `ReadAtSeeker` use bytes that
are offsets in the file; `fghost` and its like record that the owner read past what was
cached, which the code does not promise to survive (section 4).

### HttpServe

A pure function of the request and of the kind of link, checked for all requests over
a few tags, dates and specs of ranges: `VNext` picks the request and `ServeHTTP`
answers it. `Asked` is the independent reading of a range.

### LocalDriver, DirCache and LinkCache

A change of the disk and each refresh of `DirectoryMap` are steps, as they are in the
code under the shared lock; a change may fail half way, and the temporary file of an upload grows in steps that
a refresh can come between. In `DirCache` a call is a stack of frames ("put" calls
"get", which calls "list") and a step runs the upper frame to its next look at the
cache, the flights or the driver. `cover` marks the directories whose listings the code does not keep right: calls overlapped there, or a
listing was left behind (section 4). In `LinkCache` every load, add, swap and
store of the reference counter is a step.

### StorageLife and RowCaches

Every access to the database, the driver or the map is a step of its own, since
nothing locks a storage or a row over a whole call. `sclean`, `rlap` and `rtorn` mark
failures and overlaps that only a restart, or the expiry of the cache, mends.

### XmlNames, XmlText, XmlStructs, DavProps

A token of the client's body goes through the decoder, the encoder that writes the
property's value and a second decoder that reads it: three states and one step. Text
is a sequence of classes of characters. A struct type is a sequence of fields with the
paths of their elements. `DavProps` walks a small tree as `walkFS` does, and collects
the propstats in the buffer that `ServeHTTP` sends. The names in a propstat are kept at the
places that they have in the request, so that none can be there twice or move.

### The search modules

`IndexBuild` has the request that walks the tree, its consumer and `StopIndex` as
processes around the pointer `Quit`. `IndexUpdate` has one process per listing.
`MeiliQueue` has the consumer and a server that applies its tasks later. `SearchPages`
has one search that fetches batches in three ways.

### FsHandlers and Logins

One request of the HTTP API and other clients that upload; every call to package `fs`
is a step and may fail, a change at once or half way, a look at the paths in `ereq.blind`. `ereq.may` is whether the middleware and the user's bits let
the request in. In `Logins` a request is cut at each access to the row, to the counter
and to the token cache; an administrator edits the user between them.

## 3. Runs

A property of a run may be a conjunction of properties of the modules. Modules that
share no variable are explored in one run, one at a time: the variable `part` is chosen
at the start and only the actions of that part are taken, so a run's states are the sum
of its parts' and not their product, and each part's properties hold trivially in the
others.

| Run | Configuration | Shows |
|---|---|---|
| `memls` | 4 names, 2 tokens, 2 claims, 1 tick | `IndexesExact` (reference counts, tokens and heap describe one set of locks); `CanCreateExact`; `NoConflictingLocks`; `ConfirmExclusive`; `HeldExact` (no method panics with inconsistent held state); `HeldNodesStay`; `GoneOnlyWhenDue`; `ImplementsLockTable` |
| `dav_headers` | 2 connections, 3 requests, 3 names; either COPY, MOVE, PUT, LOCK, UNLOCK with plain headers, or PUT, LOCK and refreshes with tags, fallback lists and expiry | `WritersExclusive`, `NothingLeaks`, `LocksRespected`, `ClientLocksStay` |
| `dav_tree` | 2 connections, 2 requests, 3 start trees, 1 tick; DELETE, MKCOL, PROPPATCH, COPY, LOCK, UNLOCK, refresh; locks do not expire | `RequestsServed`: every request is answered |
| `dav_copy_move` | 2 files, all 720 combinations of request and storages | `OldSurvives` (until all of the source has taken its place), `FailureUndone`, `SuccessTruthful` |
| `transfer_loss` | a directory with 2 members and a file, 2 workers, 1 automatic retry, 1 cancel, 1 retry at any time | `SourcesSafe`: nothing is removed from the source before it was uploaded, also for tasks retried while they run |
| `transfer_live` | "finish": the same tasks, failures and 1 retry of a finished task; "crash": 2 files, 1 cancel, 1 retry, 1 restart | `GroupsAgree`, `MoveFinishes`, `TasksEnd` |
| `download` | 7 parts, below | `PipeSafe`, `PipeRefines`, `DownloadSafe`, `DownloadLive`, `CacheSafe`, `ReadersExact` |
| `op` | 3 parts, below | `LocalSafe`, `CachesSafe`, `CCallsEnd` |
| `api` | 12 parts, below | `SMountsMatch` (row, driver and map agree at rest), `RowsRight`, `XmlRoundTrip`, `DavAnswers`, `BuildsEnd`, `IndexFollows`, `LookupsExact`, `FilesKept`, `LoginsRight` |

The conjuncts of the larger properties:

- `GroupsAgree`: `PendingCoversLive` (no group completes before its last task),
  `NoGroupStuck`, `NothingLost`.
- `PipeSafe`: `PipeInOrder`, `PipeQuietAfterClose` (nobody is in the block when it is
  unmapped), `PipeWakeUp` (whoever waits is recorded or has a token). `PipeRefines`:
  `PipeBuffer` implements `ByteFifo`.
- `DownloadSafe`: `DInOrder`, `DEofComplete` (io.EOF only after the whole range),
  `DNoSlotLost` (the shared limit is given back). `DownloadLive`: `PipeReaderWakes`,
  `DWorkersEnd` (after Close every worker ends), `DReaderServed` (a reader gets to the
  end or an error, unless the server said it is overloaded).
- `CacheSafe`: `HReadsBack`, `HBlocksApart`, `HMemoryCommitted`.
- `ReadersExact`: `FRangeExact`, `FTeeWhole`, `FReadWhole` (looking at an upload does
  not consume it), `SSectionExact`, `RReadExact`, `RReadersAligned`, `VBodyExact` (a 206
  carries the bytes of the ranges), `VVersionsApart` (parts of two versions are never
  patched together).
- `LocalSafe`: `LSizesExact`, `LNoOrphans`, `LUploadsWhole`.
- `CachesSafe`: `CCoherent` (a listing shows what the driver has when no call is
  running), `CFlights` (a flight has one leader and ends with it), `CNoCircle` (calls never
  wait for flights in a circle), `CUploadKeeps` (a failed upload does not lose the old file),
  `KOpenWhileUsed`, `KNoLeak` (a shared file is open while used and closed once).
- `RowsRight`: `RFresh`, `RNearest`, `RHooked`.
- `XmlRoundTrip`: `XSameNames`, `XInverse`, `XRestored`, `YEscapedReadBack`, `YLineEnds`,
  `ZReadBack`, `ZWellFormed`.
- `DavAnswers`: `PWhole`, `PEach`, `PPatchAtomic`.
- `BuildsEnd`: `IComplete`, `IOnlyAsked`, `IDoneAtRest`. `IndexFollows`: `UOneRow`,
  `UFollows`, `QSettles`, `QOneGeneration`. `LookupsExact`: `SLongestMatch`, `SVirtualFiles`,
  `VPage`, `VNoneTwice`.
- `FilesKept`: `EKept` (no file is lost), `EEmptiesGone`, `EAllGathered`, and `RightsHeld`:
  `ERefusedUntouched`, `EWithinRights`, `ERenamesStay`.
- `LoginsRight`: `ATokenRight`, `ARehashKeeps`, `ALimited`.

Violations, each a finding of `PROJECT.json`:

| Run | What happens |
|---|---|
| `dav_base_path` | for a user with a base path, `confirmLocks` checks another path than LOCK locked |
| `transfer_old_file` | an upload over an old file fails and its source is removed |
| `upload_over_dir` | an upload whose path is a directory removes the directory |

Bounds. Three names give a lock, its ancestor and its descendant, or a source and a
destination; two connections are enough because every WebDAV property speaks of at most
two handlers, and the third request lets a LOCK come before both. Two tokens per request
are the most that `confirmLocks` takes, hence `MaxGen`. One tick separates what is due
from what is not. Two locks are few for `memls`; all its properties, the
refinement included, are proved for any number of names and tokens. Two members and one more file make a group with three tasks, of
which the first, a middle and the last can fail.

In `download`, a pipe buffer of 2 bytes fills and empties, and its second use comes
after a reset; the ranges 2..10 of 20, the whole of 11 and 1..4 of 5 bytes with parts of
4 and two workers give a shortened first chunk, a last chunk that is not full and one
chunk only, with one failure and one answer of overload; the hybrid cache is at most 5
bytes in pieces of 2, beginning with nothing, half or all of it in memory; an upload of 4
bytes has a declared size that is unknown, too small, right or too large. In `op`, the
local driver has paths of two names, uploads of 2 bytes and 3 calls by 2 callers with 1 failure (a change
below a directory that another call moves, an upload that fails after another call counted its temporary
file); the listings have a directory with a file, or a directory with one below it that can move into another
after the listing between them expired, with two kinds of driver, 2 calls of any
kind by one caller and the calls of another beside them; the links have 3 users. In `api`,
two rows and three mounts, of which two are balanced and one is nested, 3 calls by 2
administrators; 3 changes of rows with 2 processes; XML values of depth 2 with
prefixes declared, declared again, undone and never declared; texts of 3 characters of 9
classes; types of 3 fields; a tree of 4 nodes for PROPFIND; 2 requests and 1 stop of the
index; 3 listings of 2 directories, one inside the other; 4 matches in batches of 2;
trees of up to 9 nodes for the handlers with 6 sets of metas, 1 change that fails, at once or half way,
requests some of whose looks fail, and uploads by others; 3 requests, 2 changes of the user and 2 seconds for logins. These are small, but
each hazard named in `PROJECT.json` needs two actors and one failure or overlap, which
fit.

Deadlock is checked for `MemLS`, which can always be called. In the other models a
behaviour ends when the bounded requests are served, the one request is answered or
the tasks are finished, so `CHECK_DEADLOCK` is off; that handlers, tasks, calls,
readers and workers do finish is a liveness property (`RequestsServed`, `TasksEnd`,
`CCallsEnd`, `DownloadLive`).

Symmetry is used for connections (`dav_headers`) and for workers and members
(`transfer_loss`), never with a liveness property.

Fairness. `DavSpec` has weak fairness of each handler's steps: a runnable goroutine is
scheduled and drivers return. `TransferTasks` has weak fairness of the workers' steps
together, which suffices because all the work is finite; users are never obliged to do
anything. `DownloadSpec` has weak fairness of each goroutine: both ends of a pipe
buffer inside a call, every worker, the reader between its calls, and its owner, who
closes a download that ended; the code's callers do so with a deferred Close.
`OpSpec` has weak fairness of each call that has begun (drivers answer). The API's
run has no liveness property and no fairness.

## 4. Disagreements and exceptions

Behaviour met while modelling for which no run is kept. The models contain it unless
"not modelled" is said; the properties except it openly, by a premise or a ghost
variable that the module explains.

WebDAV: a removal of a backup directory that fails half way (`file.go:210`, `RemoveAll` at `local/driver.go:398`)
leaves the new destination in place, only a part of the old content at the backup path, and an answer of 500;
`OldSurvives` and `FailureUndone` allow it only when the destination has all of the new content. A refresh of a lock in use is answered with 500 (`webdav.go:637`), where
`lock.go:73` promises 423. MKCOL checks its parent and `fs.MakeDir` makes it again if a
DELETE came between (`webdav.go:508`), against the comment at `webdav.go:483`. A list of
the If header with a tag confirms the tagged resource only, and the handler then writes the
resource of the request (`webdav.go:163`). DELETE and MOVE of a collection take a lock of
zero depth, so locks on its members do not stop them (`webdav.go:348`). MOVE and COPY
within one directory always fail, since `op.Move` and `op.Copy` refuse a destination in
the source's own directory (`op/fs.go:382`). `allprop` is called with the names in
`prop`, so the names in `include` are never added (`webdav.go:819`, `prop.go:258`). A
declaration of the prefix `xml` itself is left out of the model, and so are values
whose elements have the property's own name: `xmlValue` ends at the first end tag of that
name.

Transfers: a MOVE between storages reports success and keeps its source,
because the group is named by the whole destination path and looks below
it (`transfer.go:81`, `copy_move.go:165`; `file.go:33` promises more). A task that is
cancelled in the queue never reports to its group, so the other sources of the group stay
(`tache/manager.go:118`). A failed synchronous MOVE of a directory that has a member of its
own name has its source removed by the group's completion (`copy_move.go:186`) and its
destination purged, so files are lost. An empty directory copied to another storage is
answered with 201 and not made (`copy_move.go:239`). Tasks recovered after a restart with a
persisted `MaxRetry` above 0 join no group, so their sources stay (`copy_move.go:92`); a
recovered directory adds its members a second time (`copy_move.go:249`, not modelled). A
retry of a running member of a directory changes the group its hook reports to, so the first
group never completes (`copy_move.go:94`).

Downloads and streams: when the server says for one chunk twice that it is overloaded,
or to the last worker, nobody fetches the chunk and Read waits for ever
(`request.go:464`); `DReaderServed` excepts it. A cancelled context in the select of `sendChunkTask`
can give the shared limit back twice. A requeue after an interrupt can send on a closed
channel, which panics (state "panic"). An upload whose cached part was allocated but
not filled, or that was ranged into after it was read past the cache, returns mixed
bytes (`stream.go:174`, `stream.go:215`). In `ReadAtSeeker` a forward reader is known by its offset only, so two
goroutines that held one reader object at a time could not be told from two readers (`stream.go:444`). The slice of blocks of a buffer grows while
others read it (not modelled).

Operations and caches: an upload over a directory removes it (run `upload_over_dir`). A
Put that returns early after renaming the old file away leaves it under the temporary
name. Listings that overlap with changes can bring back what a change cleared, show a
renamed object twice or keep the listing of a directory that was moved away; a rename
onto an existing name leaves two objects, and a copy of a directory onto another keeps
the other's listing. Against the comment at `cache.go:72`, a directory that is moved, renamed or removed takes
only those listings below it with it that are reached through cached ones (`cache.go:51`): when the listing of
`/e` has expired and that of `/e/g`, which was made later, has not, removing `/e` leaves it, and a new
`/e/g` shows the old members until it expires. A wrong object of such a listing goes where it is moved or
copied. `CCoherent` excepts those directories (`cover`, `CLeft`). The slice of a cached listing is shared with its readers, and the detail cache
mixes balanced storages (neither is modelled).

Local driver: the sizes are not refreshed for the recycle bin, for a move or copy into or
onto an existing directory, and for a rename over a file. A call that fails half way returns before the refresh:
`RemoveAll` that removed a part of a directory (`driver.go:398`, `driver.go:443`), a MakeDir or a move to the
recycle bin that made some directories. A failed upload removes its temporary file without a refresh
(`driver.go:480`), so what a refresh counted of the partly written file stays counted. `LSizesExact` and `LNoOrphans` except
directories changed in these ways until the storage is opened again (`lclean`). A directory that is made again
before the remover's refresh keeps its old size. An upload whose directory is moved or
copied meanwhile leaves its temporary file.

Storages: an update with Disabled set leaves the driver mounted; a created row that is disabled
is mounted all the same; enabling by an update does not mount it, and panics in the
directory cache when the mount path changes as well. A Drop that fails after the rename
leaves the storage unmounted, a row that cannot be written leaves a dropped driver
mounted, and saving after a delete writes the row again.

Rows: the entries of users and metas are cleared before the row is written, so a
concurrent read stores the old row for up to an hour (`rlap`). The hook of a setting
runs before it is saved.

Search: a StopIndex before the first saved progress leaves the index "not done". Two
BuildIndex requests both pass the check and the second clears the first's rows. A
refused UpdateIndex reports the progress as done while a build is running. An
error of a listing is swallowed by the walk, and an ignored file ends the walk of its
directory. `DeleteSearchNodesByParent` looks for a row below "dir/", so a removed object
below the root keeps its own row. An update that began before a build adds its rows a
second time (not modelled). Meilisearch: a comparison of the root sees the documents of
all directories; listings queued at Release are lost (not modelled). A search by page
number may show a match twice when the index grows between two batches.

API handlers: `res, _ := fs.Get(...)` drops the error of the look before a move, a copy, a rename or an
upload (`fsmanage.go:144`, `fsmanage.go:250`, `fsmanage.go:351`, `fsup.go:66`, `fsup.go:158`), so a look that fails
says that the name is free, and the file there is replaced without `overwrite`. The model's looks fail at the
paths in `ereq.blind`, and `EKept` excepts what was there (`EUnseen`); a copy that becomes a task after such a
look replaces the file later, in the task, which is outside this model. What fails half way, a removal, an
upload that removed an empty object or made directories first, a copy or a MakeDir, leaves the part that it
did (`EHalf`). Names may contain slashes, so two names with one base replace each other
without `overwrite`. An unknown conflict policy moves over existing files, and batch
renames replace silently. A directory whose files the user may not see lists as empty
and is removed with them. A file uploaded between the look and the removal, or between
the look and the upload (`fsup.go:66`), is lost. FsRecursiveMove and the renames judge
later names when they get there. Making a directory makes its missing parents without asking
their metas.

Logins: an administrator's edit without a password resets the password's timestamp
(`handles/user.go:67`), so tokens for an older password can pass again. Two passwords
within one second share a timestamp. The rehash at login writes the whole row as it was
read and may undo a change made meanwhile. Attempts that overlap are counted once, and
the lock begins to run out only at the first attempt that is refused. Two logins within
one second get one token. A change of the user's name, and a write-back of the row by other handlers than
these, are not modelled.

## 5. Proofs

Every theorem below holds for all values of the constants that satisfy the named
assumptions, and for every bound: the numbers of requests, failures, retries and
restarts that the runs limit are arbitrary here.

| Module | Theorems |
|---|---|
| `MemLSProofs` | `TypeCorrect`, `IndexesAgree`, `LocksNeverConflict`, `CanCreateIsExact`, `HeldIsExact`, `ConfirmGivesExclusiveAccess`, `HeldLocksStay`, `LocksGoOnlyWhenDue`, `MemLSImplementsTable` |
| `DavRequestsProofs` | `DavInductive`, `LocksAreGivenBack`, `WritersAreExclusive`, `LocksAreRespected`, `ClientsKeepTheirLocks` |
| `DavCopyMoveProofs` | `TypeCorrect`, `OldAlwaysSurvives`, `FailuresAreUndone`, `SuccessIsTruthful`, `RepliesAreWhole` |
| `TransferTasksProofs` | `SourcesAreSafe`, `PendingIsEnough`, `NoGroupWaitsForever` |
| `PipeBufferProofs` | `PipeIsSafe`, `PipeImplementsFifo` |
| `DownloaderProofs` | `RangeIsSafe`, `BlocksStayApart` |
| `ApiProofs` | `LoginsAreRight`, `StoragesMatchRows`, `FilesAreKept` |
| `ServerProofs` | `RowsAreRight`, `FlightsAreSafe`, `LinksAreShared`, `BuildsAreComplete`, `IndexIsRight` |

**The lock system.** None of the properties of `MemLS` is inductive alone: `canCreate` is
exact only if the reference counts are, those only if the tokens are, and a lock may be
removed only because held locks are not in the heap. The invariant `SInv` of the struct
conjoins all of them and `ClaimInv` ties the outstanding claims to held nodes. The
argument has three layers: facts about names (`walkToRoot` is the prefix order, `Covers`
agrees with it, two regions overlap exactly when one root is on the other's walk), what
each helper of `memLS` does to the struct (`RemoveInv`, `AddInv`, `HoldInv`, ...), and
one lemma per action. `LocksGoOnlyWhenDue` and the refinement follow from the same
invariant: the expiries that a call collects and the call itself are together one step of
the table. Assumptions: `NamesAssumption` (names are closed under parents) and
`BoundsAssumption`.

**The handlers.** `DavInductive` carries `IInv` of the lock system through every handler:
`ConnOK` says what a handler at each point holds, `TempOK` that its temporary locks cover
what it confirmed, `SecretOK` that nobody else has their tokens, `Apart` that two handlers
share neither a token nor a claim. From it come `LocksAreGivenBack` and
`ClientsKeepTheirLocks`, for any base paths. `WritersAreExclusive` and `LocksAreRespected`
have the hypothesis `Bases \subseteq {<<>>}`, users without a base path: with one they
are false of the code, as the run `dav_base_path` shows. `DavAssumption` says that the
headers are made of names and tokens, that the start trees are trees, and that there are
tokens for every request.

**COPY and MOVE.** The invariant says where the old destination is at each point of the
request: in place before the rename (`Before`), at the backup path from then on
(`During`). A backup is removed only after the transfer is complete (`Transferred`), so a removal that leaves a part
of it finds the whole new content at the destination. Assumption: `FilesAssumption`.

**PROPFIND and PROPPATCH.** `PropInv` follows the walk of `walkFS`: the nodes that wait are apart from each
other and from what was answered, and whatever is within the depth was answered or is below
one that waits (`PWalking`). That the members of a node cover all that is below it is an induction
over the length of a path (`MemberAbove`). `SplitsIn` says that `makePropstats` loses no name and repeats none.
Assumption: `PAssumption`, a finite tree whose inner nodes are directories.

**Background moves.** `SourcesAreSafe` holds for retries at any time, cancellations and
restarts. Its hypothesis `StartDst = {}` says that the destination was empty: otherwise a
failed upload loses the source, as the run `transfer_old_file` shows. `PendingIsEnough`
and `NoGroupWaitsForever` are the other conjuncts of `GroupsAgree`. They rest on a count: the tasks
of a group that will still call `Done` (`lives`), each of which is in exactly one place
(`OnePlace`: the queue, a worker or nowhere) that its state tells. They need
`~RetryAny`, tasks that are retried once they have ended: a retry of a running task
changes the group that it reports to (section 4). The second also needs `MaxCancels = 0` and `MaxCrashes = 0`,
because a task that is cancelled in the queue never calls `Done` (section 4).

**The pipe buffer.** `PipeInv` says which bytes of the block are written (`PWritten`),
what the reader and the writer that are outside the lock have still to copy (`PReading`,
`PWriting`), and that the end of a chunk is the end of what was sent (`PChunkEnd`). The
refinement maps the block, the bytes being copied included, to the queue of `ByteFifo`; each
critical section is one step of it or none. Assumption: `PipeAssumption`.

**The downloader.** `DownInv` has a part for each thing that must not go wrong. `DCut`:
the position of the next chunk is where the chunks before it end (`ChunksFill`: the sizes
that `sendChunkTask` computes, the short first chunk and the long second one included,
lie end to end and fill the range). `DMapped`: a chunk that was sent and not taken out is in
`bufMap`, beside which only the buffer of the next chunk is. `DFilled`: every chunk that is not yet read
has a buffer of its own with its first bytes, of which the reader has read so many.
`DOwned`: each chunk is held by one worker, the channel or the sender at most, and what is
asked for next is exactly what its buffer lacks, however often it was retried or handed on.
`DPlaced`: the reader has got the chunks before its own. `DSlotsKept` counts the slots by
the workers that run. While nothing is read any more, after a cancel or a close, `DFilled`
claims nothing: workers may then write into closed buffers. Assumption: `DAssumption`
(a range begins within the file, and a length is not 0).

**The hybrid cache.** `BlocksStayApart` proves the two conjuncts of `CacheSafe` that say where
blocks lie. `HStoreInd` says of every block that was handed out where it is: in memory at its own
address, or as far into the backing store as it is behind the end of the memory, and below
what has been handed out of both (`HLies`); that no two share an address (`HParted`); and that
memory has as many cells as are committed, no more than are reserved, which is in
whole pages. Allocating moves an offset up only by what it hands out, and a rewind, which
moves it down, drops the blocks above it. Assumption: `HAssumption`.

**Logins.** `AInv` says of every request what it has read and what has changed since, of
every valid token for which password it was given, and that the count of failures is at
least what attempts one at a time have left there. Assumption: `AAssumption`.

**Cached rows.** `RInd` says that a key has one row (`RDistinct`), that a key without the mark
of an overlap is in order at every step of a read or a change (`RFits`: what a reader
carries to the cache is the row, what is cached is the row, and a change that is about to write
has left no entry behind), and that a setting's hook runs ahead of its row only while
the row is being written (`RTold`). The nearest meta follows by induction over the length of
the path: the climb of `getNearestMeta` asks each key on the way, and each answer is the
row's. Assumption: `RAssumption`, of which the proof needs that ids are positive and that the
keys are closed under parents, which the climb visits.

**Flights.** `FlightsAreSafe` proves `CFlights` and `CNoCircle`, two conjuncts of `CachesSafe`.
`CInd` says of the stack of a call that only its top frame waits and that what lies above a list, get or
mkdir frame works on a path nearer to the root (`CAbove`); that the flights in the air are
the disjoint union of those that the stacks lead (`CLed`, `CFlying`); and that who waits, waits for one
of them (`CAwaits`). Whoever leads the flight that a call waits for waits, if at all, for a listing or
for a path nearer to the root (`LeaderIsAhead`), so among the calls that wait the one nearest to the
root has a leader that runs. Nothing bounds the depth of a stack. Assumption: `CAssumption`, of which
the proof uses that paths are nonempty sequences of names.

**Shared links.** `KInd` has three parts for each link: the counter of an open file is
the number of its users (`KOpen`); that of a closed one is so far below zero that the users who were
refused and have not yet taken their reference back cannot lift it to zero, and it was closed
once or one user is closing it (`KShut`); and a fresh file that nobody counts yet has a user on
the way (`KNew`). Assumption: `KAssumption`, fewer users than `math.MinInt32` is below zero.

**Index builds.** `IInd` says where a build and its consumer can be together (`IBuildOK`), and of every
path that the build is to index that it is in the index, in the queue of the consumer, or
ahead of the walk (`IHeld`). A walk holds the members of a directory before anything above them
(`IWalkOK`), so that a `SkipDir` drops only what is under the directory that is skipped. What a build wants is stated
relative to the path where it starts: an update that starts in an ignored directory walks
it. Assumption: `IAssumption`, a finite tree whose directories are closed under parents.

**Index updates.** `UInd` counts the users of every lock (`UCounted`), of which there are more than
processes, so that a free one can be found (`FreeLock`); a lock belongs to one directory as long as it has users,
and who holds it is alone (`ULocked`). Between reading the rows and writing, nobody else
writes in the directory; only a deletion above it may take rows away, which unmarks
`uclean` (`URead`). Assumption: `UAssumption`, a finite number of processes.

**The queue of Meilisearch.** `QInd` follows a listing from the queue to the documents. While it waits,
it is the last one of its directory (`QLatest`). Once it has been compared, what the server has not yet applied
makes the documents those of the listing, name by name: an addition is on its way and no deletion, or the
other way round (`QSettling`). No deletion above a clean directory is on its way (`QSafe`), and a directory
waits for every task that touches its documents, which is why two generations of tasks never
meet (`QAwaited`). Assumption: `QAssumption`, paths made of the names.

**Storages.** `SInd` says, as long as only one call ran at a time and none failed, what is mounted
at each point of the call (`SPhase`): all enabled rows but those the call works on (`SRest`), by the drivers that have
their rows. `SHasDriver` says that a call has an object where it needs one, which needs that
`SFresh`, the least free one, exists: an induction over the numbers of the objects. Assumption: `SAssumption`, of which the proof uses that ids and drivers are
positive, so that 0 is none of them.

**The handlers of the API.** `EFilesInd` conjoins four invariants. `EInd` says of a handler at each point what it has already asked
(`EWorkSound`): every name that it will move, copy or remove lies in a tree that may be written,
and so does the place it goes to. From that, `RightsDown` gives the right for every path below,
since a meta below would have been seen, and `EWithinRights` follows from where each change of the
storage can differ (`MovedOk`, `CopiedOk`, `RemovedOk`, `PutOk`, `WithDirsOk`). `EPast` says that a handler that is still
looking, or was refused, has changed nothing. `ESameDepth`: what a batch of renames moved is
as deep as it was.

`EKeptInd` carries `EKept` through the changes, those that stop half way included: a part of an addition has all that
was there, and a part of a removal touches only what the removal may (`HalfKept`). A handler that removes or adds in place has every counted file where it was
(`EStays`), which needs that the directory it is about to remove as empty has nothing below that is seen (`EBare`).
One that moves has each counted file somewhere (`EMoving`) where nothing that it has still
to move will land (`ESafe`). That last part is what makes the property inductive: a move replaces what
is at its target, so the targets must be new, but for those whose look failed, and differ from each other (`EApart`, from the looks before the first move),
or, when gathering, must not be names that the destination shows (`EChosen`), and
directories must stay as they are. `EGoneInd` says that every directory that is empty now is, or lies below, one that waits in the
queue (`ELed`). `EAllInd` says that every file to gather is below a directory in the queue, or has its name at the destination
or in the list of moves to come (`EFilesCome`).

Assumption: `EAssumption`: trees and paths are made of `ENames`, and the result of
joining a directory and a name of the request is such a path. The last is an assumption on the
requests only because the provers cannot follow the fold of `EJoin`; TLC evaluates it.

Only model-checked:

- liveness (`RequestsServed`, `MoveFinishes`, `TasksEnd`, `DownloadLive`, `CCallsEnd`),
  which needs fairness and ENABLED;
- what a recursive definition computes for every input: `HReadsBack` over the pieces of a
  store, the XML values and texts of `XmlRoundTrip`, the folds of `SLongestMatch` and
  `SVirtualFiles`, the range headers of `HttpServe`;
- `LocalDriver`, which declares a RECURSIVE operator, and with it `LocalSafe` and the
  conjunctions of `MCOp`;
- `CCoherent` and `CUploadKeeps` of `DirCache`;
- `SearchPages` and the other streams, which have no proofs.

## 6. Plan

Done: the lock system, transfers, pipe buffers, downloads and logins with their proofs, and,
module by module, streams, the operations on storages and their caches, and the server around them.

Next would be proofs of `CCoherent` and `CUploadKeeps`, which relate the listings of `DirCache` to
what the driver has.

## 7. Not modelled

HTTP syntax, the tokenizer of XML markup other than names, text and field paths, the
lexer of the If header, logging, messages to the user, the formats of archives, the
database library, the cryptography of tokens, LDAP, WebAuthn and SSO, thumbnails, the
front end. Archives are unpacked by libraries and then uploaded like any file. Start-up and shutdown
are sequential. Direct uploads, uploads by URL and scans are left out: each is one call to a
driver. What a driver other than the local one does is external; the models use it as
`op` does, and any call may fail.

Locks on members when their collection is deleted or moved, and If lists with a tag about
another resource, are modelled as the code treats them (they do not stop the request) and
excluded from the properties that would otherwise speak of them.
