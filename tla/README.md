# PlainNAS in TLA+

PlainNAS is a home NAS: one Go process that serves a web front end over
HTTP, GraphQL and websockets, keeps its data in a Pebble key-value store and
leaves everything else to the file system and to command line tools (`lsblk`,
`mount`, `mkfs`, `vipsthumbnail`, ...). This directory holds TLA+ models of its
concurrent parts, TLC configurations that check them on small instances, and
proofs, checked by TLAPS, of what holds for instances of every size.

Paths below are relative to the repository (`internal/...`, `cmd/...`).
`PROJECT.json` gives the source lines of every definition, the properties of every run, a
mutation of the model for each property that shows what bug it would catch, and the hazards
the properties are aimed at.

- [Inventory](#inventory)
- [Modules](#modules), and how their state and actions correspond to the code
- [Runs](#runs), bounds and fairness
- [Proofs](#proofs)
- [Disagreements with the code](#disagreements-with-the-code)
- [What is not modelled](#what-is-not-modelled)
- [Plan](#plan)

## Inventory

### Trash (`internal/fs/trash*.go`)

*State.* Per disk a directory `.nas-trash` with the trashed files, each under
a fresh id, and a file `.lock`; in Pebble one record `trash:item:<id>` per file
and, for the listings, one key per sort order (by time, by time with directories first,
by name, by size). In memory a channel of ids whose size is to be computed.
*Operations.* `TrashPaths`, `RestorePaths`, `DeleteTrashByPath` and the purge
loops, each under an `flock` per disk; the stats worker, which rewrites a record
*without* it; the listings, which only read.
*Interaction.* Requests of the GraphQL API call it; users create and remove
files on the same disk through upload, copy, move and delete, which take no lock.
*Hard.* File system and database change in separate steps, any of which may
fail or be the last one before a restart; rollbacks that may fail themselves;
records read before the lock is taken; the unlocked worker.
*Correct when* file, record and listing keys of an id agree whenever no
operation is under way on it, the trash never overwrites a file that another
request put in place, and the lock is always released.

### Auto-mount and disk formatting (`internal/storage`, `internal/graph/storage_format_disk_api.go`)

*State.* The kernel's mounts at `/mnt/usbX`, a persisted map from
filesystem UUIDs to slots X, a counter of inhibitions, the udev
monitor's one-place channel and the debouncer's timer.
*Operations.* `EnsureMountedUSBVolumes`, run at startup, after udev events
and at the end of a format request; `FormatDiskSinglePartition`, which
inhibits such runs, unmounts, wipes, makes a filesystem and runs one itself.
*Interaction.* Runs of different goroutines share the map, the mounts and
the counter, with nothing to serialise them; disks come and go; administrators mount and
unmount by hand.
*Hard.* A run works on a listing that may be outdated, and clears every layer of a mount
point; events are dropped and debounced; a disk that is unplugged leaves dead
mounts behind.
*Correct when* a run takes neither a mount nor a reserved slot from another
filesystem, mounts on nothing that is mounted, a disk that is plugged in gets
mounted, and nothing is mounted while a disk is being formatted.

### Batching queue for command line tools (`internal/pkg/cliqueue`)

*State.* A bounded channel of jobs, a one-place answer channel per job, the
workers' batches. *Operations.* `Submit` and the loop of the workers. *Interaction.*
Thumbnail requests submit; the batch functions (`internal/media/thumb`,
`internal/media/video_thumb_worker.go`) run a command for the whole batch.
*Hard.* A full queue, callers that give up before, during and after their
job is run, batch functions that panic or return the wrong number of results.
*Correct when* every call returns, once, with the result of its own request, and no
worker ever waits for a caller.

### Event bus and websockets (`internal/pkg/eventbus`, `cmd/services/api/ws.go`)

*State.* The handlers of each topic, in order. *Operations.* `Subscribe`,
`Unsubscribe`, `Publish`. *Interaction.* Each websocket connection subscribes
closures that forward events to the browser and unsubscribes them when it breaks; the
long-running jobs publish. *Hard.* Handlers are found by their code pointer,
connections come and go at any time. *Correct when* every connection that is up
keeps its handlers and none is leaked.

### DLNA renderer discovery (`internal/dlna/discovery_async.go`)

*State.* The clients that wait for the current discovery window, whether a task is
running, a cache of renderers. *Operations.* A request registers, perhaps starts the
task and gets the cache; the task publishes what it finds and the end.
*Interaction.* Through the event bus to the browsers. *Hard.* Two locks, nothing
published under the first, requests at any moment of a window, also right at its end.
*Correct when* there is one task at a time, and a browser that listens hears of every
renderer and of the end.

### Tags (`internal/db/tag.go`, `internal/graph/tags_api.go`)

*State.* In Pebble a record per tag, with its name and a stored count, and for each relation of
a tag and an item two keys, one by tag and one by item. *Operations.* Create, rename and
delete a tag; add and remove relations, of given items, of all items of a query, of an item that is
trashed; count a tag anew after each; count all anew after a rebuild of the media index.
*Interaction.* Requests call it, and so does the cleanup of a media scan.
*Hard.* Every operation is several calls to the database, without a lock or a
transaction around them; a count is loaded, computed and stored in three of them, and storing
it writes the whole record.
*Correct when* the two keys of a relation agree, a count is the number of relations, and
a tag that was deleted stays so.

### Media scan, media store and media trash (`internal/media/scan.go`, `control.go`, `store.go`, `trash.go`, `internal/graph/media_scan_api.go`)

*State.* In Pebble a record per file, under an id made of its inode and change time, a key
by path, and keys for sorting; in memory three flags and the cancel function of the last
cleanup. *Operations.* A scan lists a root, its workers store records, and a cleanup
in the background deletes those it did not see and, after a reset, tags without an item;
pause, resume, stop, rebuild; what requests that upload, move, delete, trash or restore
a file tell the store afterwards.
*Interaction.* With requests through the store and the flags, with users and other
programs through the disk, with the tags. *Hard.* Nothing keeps two scans, or a scan and
a cleanup, from running at once; a scan works on a listing; the file and its record are changed
in separate steps; a file that is moved or replaced gets another id.
*Correct when* a scan brings the store into agreement with the disk, no cleanup
deletes a record of a file that stayed where it was, and tags go with their files only.

### Media search (`internal/media/search_index.go`, `cmd/services/watcher/run.go`)

*State.* Twelve files: for names, paths and the n-grams of both the posting lists, their
offsets and a dictionary; in Pebble a number per document. *Operations.* The build at
startup, a search, the removal at a reset. *Interaction.* With scans and requests
through the records. *Hard.* Files are written in place and opened one by one; a build may be broken
off; the index is never brought up to date, and searches make up for it by reading all records when
they find nothing. *Correct when* an index that opens is whole and a search finds
what matches.

### Uploads (`web/src/lib/upload`, `cmd/services/api/upload.go`, `internal/graph/upload_merge_chunks_api.go`, `uploaded_chunks_api.go`)

*State.* In the browser a queue of tasks and a map of those that run; on the server the
chunk files of each content, and the files. *Operations.* Queue, start, pause, resume,
retry and remove uploads; list chunks, receive a chunk, merge, receive a file in one request.
*Interaction.* Requests that may be broken off on either side, shared directories of chunks.
*Hard.* The browser's code runs from one `await` to the next, and a task that was paused and
resumed may have two runs; handlers go on after their connection broke; chunks are kept for
later attempts; a name is found free before it is taken.
*Correct when* what is reported done is on the disk and whole, files that are to be kept are
kept, and no upload is forgotten.

### File tasks (`internal/graph/file_tasks_async.go`, `file_tasks_store.go`, `files_copy_move_api.go`, `web/src/stores/tasks.ts`)

*State.* The tasks in memory, a bounded queue of their ids, their records in
Pebble, the browser's list. *Operations.* A request creates a task; one worker copies
or moves file by file; each change is published and now and then stored; the browser merges
events, answers and the list. *Interaction.* Event bus, websocket, users who change files
meanwhile. *Hard.* A move across filesystems is a copy and a removal; snapshots,
answers and restarts overtake each other; the queue may be full.
*Correct when* no file is lost, a task ends, and its end is what is stored and shown.

### Thumbnails and previews (`cmd/services/api/fs.go`, `internal/media/thumbnail.go`, `cover.go`, `thumb/vips_worker.go`, `internal/fs/pdf_preview.go`)

*State.* In Pebble thumbnails and failures, in a directory the PDFs made of documents, each
under a key with the file's path, time of change and size; in memory a queue per size and
quality, a lock per preview. *Operations.* Serve a thumbnail, made from a picture beside the
file, the cover in it, a frame or the file; serve a preview. *Interaction.* With the batching queue, and
with everything that changes files. *Hard.* The key is made at one moment and the file
is read at others; first requests come together; previews are looked for without the
lock; what tools and copies leave behind when they fail. *Correct when* an answer belongs to the file
as it is, and a preview is whole and made once.

### The rest

| part | state and operations | what makes it correct |
|---|---|---|
| Delete and the walk of copy and move (`internal/graph/files_*_api.go`) | system calls on trees | nothing is overwritten unless asked |
| Self-update (`cmd/updater`, `internal/update`) | two renames and a service restart, in a process of its own | there is always a binary to start |
| File search (`internal/search`) | the same posting lists, a walk, filter lists | a search finds what is indexed |
| Sessions, password, URL tokens (`internal/db/session.go`, ...) | single keys | a revoked session stays revoked |
| Event log (`internal/db/events.go`) | one bounded list | entries are kept up to the limit |
| Database and cache (`internal/db/db.go`, `internal/cache`) | Pebble | single writes are atomic |
| Samba sharing (`internal/samba`) | configuration files, a service | the files say what the database says |
| API layer (`internal/graph`, `cmd/services/api`) | none of its own | plumbing |
| Metadata (`internal/media`) | none | parsers of file formats |
| Web front end (`web/`) | the browser's | calls the API only |

## Modules

| module | models | extends |
|---|---|---|
| `Trash` | the trash of one disk | |
| `TrashInv` | parts of its inductive invariants | `Trash` |
| `MCTrash` | instances for TLC | `TrashInv` |
| `AutoMount` | auto-mounting and formatting | |
| `AutoMountInv` | what a run knows between its steps | `AutoMount` |
| `MCAutoMount` | instances for TLC | `AutoMountInv` |
| `Calls` | what `Submit` promises (abstract) | |
| `CliQueue` | the batching queue; instantiates `Calls` as `C` | |
| `CliQueueInv` | where a job can be | `CliQueue` |
| `MCCliQueue` | instances for TLC | `CliQueueInv` |
| `EventBus` | bus and websocket connections, composed with its publishers | |
| `DlnaDiscovery` | discovery, on top of the bus | `EventBus` |
| `MCDlnaDiscovery` | instances for TLC | `DlnaDiscovery` |
| `Tags` | tags, relations and counts | |
| `TagsInv` | what a request knows between its calls | `Tags` |
| `MCTags` | an instance for TLC | `TagsInv` |
| `MediaScan` | media store, scans, cleanups and the requests around them | |
| `MCMediaScan` | instances for TLC | `MediaScan` |
| `IndexFiles` | posting lists as they are written and read: pure operators | |
| `MediaSearch` | the build of the index and a search | `IndexFiles` |
| `MCMediaSearch` | instances for TLC | `MediaSearch` |
| `Uploads` | the browser's queue and the handlers | |
| `UploadsInv` | what a run waits for, and how far an upload that is left alone has come | `Uploads` |
| `MCUploads` | instances for TLC | `Uploads` |
| `FileTasks` | tasks, worker, files and the browser's list | |
| `MCFileTasks` | instances for TLC | `FileTasks` |
| `FileServing` | thumbnails, previews and their caches | |
| `MCFileServing` | an instance for TLC | `FileServing` |
| `*Proofs` | see [Proofs](#proofs) | the above, `TLAPS` |

An action is one stretch of a goroutine between two points at which another one can see or
change what it works on: a system call, a group of database writes issued in a
row on one key's behalf, a channel operation, a critical section. A process's
`pc` says where it is in the code, further variables hold its locals.
Variables called *history* exist only in the model, to state properties.

### Trash

| variable | code |
|---|---|
| `live`, `bin` | files outside and inside `.nas-trash` |
| `item`, `idx` | `trash:item:<id>` and the listing keys of an id |
| `lock` | the flock on `.lock` |
| `queue` | `trashWorkCh` |
| `pc`, `op`, `cur`, `it`, `old`, `path` | control point, operation, id, the caller's copy of the record, the record that `storeTrashItem` found, and the path to rename to or from |
| `dirty`, `tainted`, `loose`, `orphaned` | history, below |

`TrashStart`, `RestoreStart` and `DeleteStart` are the part of a request before the
lock, where a restore and a delete load the record. `Acquire` is the flock.
`TrashMove`, `RestoreStat`, `RestoreMove`, `DropItem`, `DropIndexes`,
`DeleteRemove` follow the code under the lock, each with an action for its failure that
takes the code's rollback. `StoreBegin`, `StoreItem`, `StoreIndexes` and their
failures are `storeTrashItem`, shared by its three callers. `RawRemove` is the
removal of an item without a record. `WorkerTake` and `WorkerStat` are the
stats worker. `UserCreate` and `UserRemove` stand for the other file APIs, `Crash` for a
restart: files and records survive, locks and the queue do not.

History variables make the properties exact. `dirty` collects the paths
that users filled since the lock was taken, which a rename of the trash may overwrite, the
lock not being theirs. The other three say what became of an id when something failed:

| what fails | what the code does | in the model |
|---|---|---|
| moving or removing the file, storing or deleting the record, setting a listing key | undoes what it has done (`trash.go:143`, `trash.go:261`, `trash_gc.go:27`, `trash_store.go:131-147`) | nothing is excused |
| deleting a listing key other than the first, or any of the old record's; loading the old record (`trash_store.go:125-128`, `162-164`) | ignores it; some keys stay | `loose`: keys too many, none too few |
| nothing, but the copy loaded before the lock is not the record any more (`trash.go:216`) | deletes the copy's keys; the record's own may stay | `loose` |
| deleting the first listing key, the record being deleted already (`trash_store.go:156-158`) | returns an error; a restore renames the file back (`trash.go:261`), a delete leaves it, and the record is lost | `loose` and `orphaned`: the file may be without a record, a record is never without its file |
| a rollback, or the writes that repair a failed removal, after another failure | ignores it | `tainted`: nothing is said |
| a restart between two writes; an overlap with the worker or with the removal of an item without a record, which take no lock | nothing | `tainted` |

So `Consistent` promises agreement after every failure in the first row, the stated remains of it in
the next three, and nothing in the last two. `MCTrashRollback.cfg` shows the record that the fourth
row loses, `MCTrashGhost.cfg` the one that the worker of the last row brings back.

*Abstractions.* One disk: ids, files and locks of different disks are
disjoint. Sizes are one bit, "filled in or not", because a size changes only which
key the by-size listing has. The keys by time with directories first and by name never
change and are one key here. A request with several paths is several requests. A record
that cannot be read ends a request, and makes the worker skip the id, before anything has
changed. Restoring over a dangling symbolic link (`trash.go:251`) is not modelled.

### AutoMount

| variable | code |
|---|---|
| `plugged`, `disk`, `made` | connected disks, the filesystem on each, UUIDs used so far |
| `where`, `dead` | slots at which a filesystem is mounted; slots with a layer of a disk that is gone |
| `persisted` | `storage:fsuuid_slot`, 0 for none |
| `count` | `autoMountInhibitCount` |
| `monitoring`, `trigger`, `timer` | udev monitor, its channel, the debouncer's timer |
| `pers`, `todo`, `mapping`, `target` | a run's copy of the slots, the filesystems left to mount, the slots chosen so far; the disk of a format request |
| `stale`, `hot` | history, below |

`RunBegin` to `RunStoreFails` are one call of `EnsureMountedUSBVolumes`:
check and load, list the devices, choose and clear a slot, mount, and after the last
filesystem store the map. `TriggerReceived` and `TimerFires` are the debouncer,
`Event` the monitor. `FormatStart` to `FormatRelease` are `FormatDiskSinglePartition`; its
last run is the process's own `Run`, and its deferred release is in `Release`.
`Plug`, `Unplug`, `AdminMount`, `AdminUnmount` and `Restart` are the outside.

`stale[p]` says that another process changed mounts or slots since the run of
`p` began, or that its load failed and returned no slots: what the run then does, it does on
wrong knowledge, and the properties of mounting are about the other runs.
`hot` holds the disks that were plugged in while the monitor ran and have not been mounted since.

*Abstractions.* A disk has at most one filesystem. The order of layers at
one mount point is not kept. Slots by hand are `ManualSlots`, anything that is
not `/mnt/usbX` is one place, `Elsewhere`. The names and sizes of devices,
the protection of the system disk and the parsing of `lsblk` are left out: they are checks on
one listing. A monitor that dies is not modelled. A disk plugged in between the
startup run and the start of the monitor is in nobody's `hot`: the code does not see it.

### CliQueue and Calls

`jobs` is the channel, `resp[j]` the one-place channel of job `j`, `batch` and `results`
what a worker holds. `Submit`, `Enqueue`, `Receive`, `GiveUp` are a call; `Expire` is the
end of its context. `Take`, `Gather`, `Gathered` collect a batch, `Run` is the batch
function with its three outcomes (results in order, a panic, the wrong number of them),
`Answer` and `Answered` hand out the results. A job whose caller has given up is still run.

`Calls` knows only open and closed calls, and is what a caller may rely on.
`CliQueue` implements it under the mapping in `INSTANCE Calls`: `send` and `wait` are open.

### EventBus and DlnaDiscovery

`handlers` are the lists of the bus, by connection; `link` and `subs` follow
`wsHandler`: subscribe topic by topic, wait, unsubscribe in reverse. `Removed` removes the
first handler, because `findHandlerIdx` compares code pointers. A publication is one step:
the bus holds its lock throughout. Of the topics, the two of the discovery are modelled.

`clients` and `running` are `rendererDiscoveryManager`, `cache` is
`rendererCache`. `Register`, `flushCachedToClient`, `Spawn` are
`StartRendererDiscovery`; `onDevice`, `Snapshot`, `PublishFound`, `ScanOn`, `EndWindow`,
`PublishDone`, `TaskReturns` the task. `steady` and `heard` are history: the connections that
have had both handlers on the bus since their client asked, and what reached them since.

### Tags

`tag`, `rel` and `rev` are the records (their count alone; a name changes nothing here) and the
two keys. `AddTo`, `Update`, `Remove`, `ItemGone`, `DeleteTag`, `Rename` are the beginnings of
requests, up to their first write; `CreateTag` is a single write. `Primary` and `Index` are
`SaveTagRelation`; `Load`, `Count` and `Store` `RecomputeTagCount`; `DropBatch` the batch
that deletes relations; `SweepStart` to `Rebuilt` what follows a scan after a reset. One action is one
call to the database; an iterator sees the keys there are when it opens. `Fail` ends a request
at any call. `Restart` ends all of them, and then `EnsureTagRelationKeyIndex` fills the keys
by item, if there are none.

History: `over[p]` holds the tags that others wrote since `p` loaded or counted them,
`spoiled` those whose last count was so overtaken or cut short, `torn` the pairs deleted
or given up between their two keys. They make the properties exact: a count, or a
pair of keys, is right unless it is one of these.

### MediaScan

`disk` and `bin` hold the id of the file at each path and of the file that each item has in the trash:
that file has the id it had on the disk, which is not the item's if another file had taken its path.
`rec` and `byPath` are the record and the key by path, `tagged` the items with tags, `stop`, `pause`,
`needed`, `current` the flags and `cleanupCancel`. `Begin` to `EndScan` are
`ScanAndSync`: `Check` is the look at `stopFlag` before each entry, `List` and `Visit` what
follows once `pauseFlag` is clear, `Work` a worker's `UpsertMedia`. `Open` to `Swept` are the
cleanup. `Rebuild` and `Reset` are `rebuildMediaIndex`. `Put`, `Remove`, `Move`,
`TrashItem`, `RestoreItem`, `RestoreFile`, `PurgeItem` change a file, and `Find` to
`StoreRestored` are what the same request then does to the store. `Outside` is another program.

History: `lone` is the scan that began when nothing else was at work, until anything
disturbs it; `still[s]` the files that have not changed since scan `s` began, none after a stop.

*Abstractions.* One root, which is one directory without hard links; `UpsertMedia` and
`DeleteMedia` are one step each, and so are a request's look at a record and its file operation, a
cleanup's look at a record and the deletion. The keys for sorting follow the record, and the
names in the trash do not matter. `RebuildAllTagCounts`, which ends the sweep, is in
`Tags`. `Reset` waits for a free element of `Scans`. `Move` is a move to a free
path: one with overwrite, which replaces the file there (`files_copy_move_api.go:129-152`), is not modelled. The cleanup of a scan of `/`, which keeps
what is on disks that are away, is not modelled.

### IndexFiles and MediaSearch

A document is a sequence of terms, a term is a number. `Layout` is `buildIndexFiles`: the sorted ids
of a term as their number, the first and the differences, and for each term the place of its
list. `Posting`, `Intersect`, `Union`, `IntersectAll` read them. A varint is one number.
`builder` is `BuildMediaIndex` at the start of the service: `Check` is the look whether the index exists,
which comes before the scan of the disks; `Read` makes the folder and opens the iterator, `SetDocId`
leaves a document id for each record, and the files are written one after another, `CreateFile`
truncating and `WriteFile` filling each, the dictionary of an index last. `search` opens names, then paths,
then n-grams if it has found little, and looks up each record; `Scan` reads all records.
`Change` is every change of a record, by scans and requests alike; the scan before the build is
some of them. A file without content cannot be mapped, which is an error to a search; a list that is
said to end after its data, as parts of two builds may say, panics and ends the search.

`reset` is `ResetAllMediaData`: `os.RemoveAll` lists the folder (`ListFiles`), removes what it has
listed file by file (`Unlink`) and then the folder (`RemoveFolder`), which fails if a build has
created a file since; then the error is returned and the data stays. Otherwise the keys of records and of document
ids are listed and deleted (`ListRecords`, `ListDocs`, `DeleteBatch`), whatever a build has set under
them by then. A restart cuts a reset short anywhere.

History: `indexed` and `altered` are what the last build read and what changed, or lost its document id,
since; `unseen` and `touched` the same before and during a search. `halved` says that a removal, under way,
broken off or failed, has taken files and not gone through; `mixed` that the last build began then, and has
not had all its files there since: it may be writing among files of an earlier build,
all of which exist and open.

*Abstractions.* The two n-gram indexes are written in a row, opened and read together: they are one, so
that there are nine files. The limits on results and pages are beyond the instance, the substring
match of `Scan` is the relation `Inside`. One reset, one search and one build at a time. A batch of
keys is deleted at the end or when it is full: here with all that was listed by then. A search whose
mapped file is truncated under it dies with the process (`SIGBUS`), which is a `Restart`.

### Uploads

`task[t]` is a queue's task (`status`, `upload.status`, `upload.error`, `aborted`), `run` the
executions of `upload()`, of which a task may have several, `requests` what is on its way
or in a handler, `chunk` and `file` the server's disk. Most actions are an answer and all
that the browser's code does until its next `await`: `Return` is `executeTask` after `upload()`,
`ProcessQueue` the next tasks' start, `GoOn` the loop over the chunks. `Stop` is a pause or removal
with `xhr.abort()`. `CreateChunk` to `ChunkBreaks` are `uploadChunkHandler`,
`ChooseName`, `CreateFile` and `CreateFails` the choice of a path and the opening of the file, `DirectSaved` and
`DirectBreaks` `uploadHandler`, `AppendChunk` to `Merged` `mergeChunks`, whose copy may break off (`MergeBreaks`). A request's `own` says whether
its open file is still the one at its path, `cut` whether its connection is gone.

*Abstractions.* A chunk is missing, partly written or whole. `maxConcurrent`, ten in the code, is
the constant `Limit`. Hashing the file for its id is one step with the query that follows it.
A write that fails is a broken connection or a full disk (`Fault`).

### FileTasks

`task`, `queue` and `stored` are `m.tasks`, `m.queue` and the records; `create` and
`worker` where requests and the worker are; `dir` and `data` the files, by path and inode;
`socket` and `answers` what is on its way to the browser, whose list is `view`. `PublishNew` and
`Tells` are `publishSnapshot`, `Save` the throttled `persistTask`; `Settle`, `Rename`, `Open`, `Copy`,
`RemoveSource` are `copyFileOp` and `moveFileOp`; `Deliver` and `DeliverAnswer`
`upsertFileTask` and its callers. `Delete`, `Put` are users, `Restart` the process.

*Abstractions.* A file stands for a directory: the walk is left out, and so is progress in
bytes, of which only the number of finished operations is kept. Publishing and sending are
one step (the bus holds its lock), and so are publishing and storing a new task. The page
is loaded once and its websocket is up. Users put new files at free names, or at a path that
the worker has settled on.

### FileServing

`cache` and `fails` are `thumb:` and `thumbfail:`, `previews` the directory `preview_pdf`, `holder`
the locks of `pdfPreviewLocks`, `manager` the entry of `bytesMgrs`; `file` and `side` are the
contents of the file and of the picture beside it, of which keys know the `Stamp`
only, as two versions may have one. `Resolve` to `Original` are the request for a thumbnail:
`Look` makes the key, `FindSource` chooses what to make it from, `Resized`, `ResizedAlone` and
`Framed` read it. `Peek` to `Serve` are `GetOrCreatePDFPreview` and `servePDFPreview`. `Change` is
everyone who changes files.

History: `calm` are the requests during which nothing changed, `overtaken` the keys under
which something changed while a request was to read on, `lost` and `copied` those for
which a cover could not be copied, or a preview not renamed.

*Abstractions.* One file, one size, one quality. A submission to the queue is its outcome,
one's own result or an error, as `Calls` has it. Attempts with lower quality and small
pictures served as they are read the same source. Reads of the database do not
fail; its writes may, unnoticed. The list of recent files is left out.

## Runs

| run | question | states |
|---|---|---|
| `trash` | Do file, record and keys agree, are the inductive invariants right, is another request's file ever overwritten, does an operation that is over hold the lock? | 826 000 |
| `automount` | Does a run take a mount or a slot away, or stack mounts? | 743 000 |
| `automount_hotplug` | Is a disk that is plugged in mounted in the end? | 431 000 |
| `cliqueue` | Is every call answered, with its own result? | 220 000 |
| `dlna` | One window at a time? Does a listening browser hear everything? | 274 000 |
| `tags` | When can a count be wrong, do a relation's keys agree, do deleted tags come back? | 714 000 |
| `media` | Does a scan reconcile store and disk, do cleanups spare what is there? | 2 300 000 |
| `media_rebuild` | Do the tags of files on the disk survive a rebuild? No. | violation |
| `uploads` | Is an upload that is done whole? Are old files kept? Does every upload end? | 92 000 |
| `filetasks` | Is a file ever lost? Is the end of a task stored and shown? Do tasks end? | 1 230 000 |
| `mediasearch` | Is an index that opens whole, beside builds, removals and restarts? Does a search find what matches? | 5 500 000 |
| `fileserving` | Do answers belong to the present file? Are previews whole, and previews and queues made once? | 1 020 000 |

Each takes between a few seconds and three minutes with two workers.

*Bounds, and why they are enough.*

- `trash`: two requests, two ids, two paths, two files, failures and restarts. Most
  properties relate the parts of one id, and ids do not interact; a clobber needs a
  file other than the one restored. Behaviours with two items are followed up to the first tainted
  or loose id, those with one throughout (`Bounded`).
- `automount`: two disks, two filesystems, the slot 1 for administrators, the watcher
  alone; failures and restarts. Two filesystems compete for one slot, one of
  them away, and administrators overtake the run. Format requests run in the
  configurations of the [disagreements](#disagreements-with-the-code), with three UUIDs, because
  two disks must be there before and after a format.
- `automount_hotplug`: one disk is enough for a disk to be missed; liveness is
  checked without failures of commands, after which the code waits for the next event.
- `cliqueue`: four calls, two of which can be given up, one worker, batches of two, so that the
  queue of two (`New` raises 1 to 2) is full while a batch is under way. Several workers are the
  proofs' matter: they share only the two channels.
- `dlna`: two connections of two clients, a request of each (repeatedly), two tasks alive at a time,
  one renderer and a device that is none.
- `tags`: one tag, two items, two requests at a time next to the rebuild, three
  requests in all, failures and restarts. A property is about one tag or one pair; tags meet only
  in the order in which a request counts them, and two items make counts differ. The proofs
  need none of these bounds.
- `media`: two paths, two ids, two scans begun (so that one overtakes the other's cleanup),
  one request at a time next to them, two pauses, changes of files or rebuilds; resuming, stop and
  the tagging of items are unbounded. One of the two files is in the trash at the start; it may come
  back with its id, so that two files meet at the two paths and one replaces the other, which is
  what a stale key or a wrong deletion needs.
- `uploads`: two uploads, each any of four: a content of two chunks or of one,
  to replace or to keep; one at a time; two attempts, two runs of each, and one pause, removal,
  broken connection or failing disk. One fault is enough for each way in which runs and handlers
  overlap, since a paused run and its handler go on beside the resumed one.
- `filetasks`: two tasks on a queue of one, so that the worker has one, the queue one,
  and a request may wait; a copy and a move with two operations between two filesystems, which
  between them rename, copy, remove and choose unique names; one fault, a failed copy, a
  deletion, a new file or a restart.
- `mediasearch`: two records of two values, with repeated terms, terms of one document and of
  both and n-grams; one query of two tokens, one change, one reset and one restart, because a mixed index needs a
  build, a removal beside it and another build. The folder lists its files in one order, in which a removal leaves the
  index in place for a while and then parts of it; the proofs hold for all orders.
- `fileserving`: two requests, three contents, two of them with one stamp, one with
  a cover, one without a frame; three changes, so that one can come before, between and after the
  requests' looks at the file. A third request would find the caches as the second one does.

The type invariants of `DlnaDiscovery`, `Uploads`, `FileTasks`, `MediaSearch` and `FileServing`
hold in these instances as well (add `INVARIANT TypeOK`, `UploadTypeOK` or `SearchTypeOK` to the
configuration), as does the inductive invariant of `UploadsInv`; they are theorems, and no run is
spent on them.

*Symmetry* is used only with safety properties, over constants that no
definition orders. *Deadlock* is checked except in `cliqueue`, `media`, `uploads`, `filetasks`,
`mediasearch` and `fileserving`, whose bounds let the finitely many calls, scans, uploads, tasks,
requests and changes come to an end.

*Fairness.* `AutoMount`: the watcher's goroutine runs, its
commands are cut off after 30 seconds, and bursts of events end, without which the debouncer's timer,
re-armed by every event, never fires. `CliQueue`: callers and workers run; a batch
ends because `runBatch` gives it a context with a timeout. `DlnaDiscovery`: requests and
tasks run; the context of a task ends after a minute. `Uploads`: the browser's code and
the server's handlers run on, and every request is answered or breaks. `FileTasks`: the goroutines of
the worker and of the requests run on; the browser is not assumed to. `Trash`, `Tags`,
`MediaScan`, `MediaSearch` and `FileServing` state no liveness: a scan may be paused for ever, and LibreOffice
runs without a timeout. Nothing is assumed of users,
administrators, disks, networks and browsers.

## Proofs

The proofs hold for every value of the constants that satisfies the named
assumptions: any number of requests, ids, paths, disks, calls, workers. The assumptions say
that the special values (`None`, `Worker`, `Watcher`) are distinct from the others and that numbers are
numbers; TLC evaluates them in every run.

| theorem | module | says |
|---|---|---|
| `TypeCorrect`, `TypedAlways` | `TrashProofs` | types, and an operation's locals at each of its control points |
| `ExclusiveAlways` | `TrashProofs` | exactly the request in its critical section holds the lock |
| `TargetsFreeAlways` | `TrashProofs` | the path a request will rename to is free, or a user filled it |
| `NeverClobbers` | `TrashProofs` | `NoClobber` |
| `FreshIdsAlways` | `TrashProofs` | an id is unknown to others until its file is moved |
| `WritesInOrderAlways` | `TrashProofs` | one writer per untainted id, which left it as its control point says |
| `AlwaysConsistent` | `TrashProofs` | `Consistent` |
| `TypeCorrect` | `AutoMountProofs` | types |
| `AlwaysInformed` | `AutoMountProofs` | a run that nobody overtook knows mounts and reservations |
| `EvictsNothing`, `StacksNothing`, `StealsNothing` | `AutoMountProofs` | `NoEviction`, `NoStacking`, `NoSteal` |
| `TypeCorrect`, `JobsAlwaysInOrder` | `QueueProofs` | types, and where each job is |
| `NeverBlocks` | `QueueProofs` | `NeverBlocked` |
| `ImplementsCalls` | `QueueProofs` | the safety part of `Calls` |
| `TypeCorrect`, `AlwaysInformed` | `TagsProofs` | types, and what an actor that was not overtaken knows |
| `CountsAlwaysRight`, `IndexAlwaysAgrees`, `DeletedAlwaysStays` | `TagsProofs` | `CountsRight`, `IndexAgrees`, `DeletedStaysDeleted` |
| `TypeCorrect` | `MediaScanProofs` | types |
| `UnmovedAlwaysSpared` | `MediaScanProofs` | `SparesUnmoved` |
| `ReconciledAlways`, `TagsSurviveLoneAlways` | `MediaScanProofs` | `Reconciled`, `TagsSurviveLone` |
| `TypeCorrect`, `HandlersCountedAlways` | `SearchProofs` | types, and as many handlers as subscribers (`HandlersCounted`) |
| `OneWindowAlways`, `NoRendererMissedAlways` | `SearchProofs` | `OneWindow`, `NoRendererMissed` |
| `TypeCorrect`, `LockedAlways` | `FileServingProofs` | types, and who makes a preview holds its lock |
| `OneManagerAlways`, `ConvertsOnceAlways` | `FileServingProofs` | `OneManager`, `ConvertsOnce` |
| `ServesWholeAlways`, `ServesPresentAlways` | `FileServingProofs` | `ServesWhole`, `ServesPresent` |
| `TypeCorrect` | `FileTasksProofs` | types |
| `NothingLostAlways` | `FileTasksProofs` | `NothingLost`, if no copy onto its own path is told to overwrite |
| `NewsArrivesAlways` | `FileTasksProofs` | `NewsArrives` |
| `SearchTypeCorrect` | `SearchProofs` | types of the media search and the build (`SearchTypeOK`) |
| `NothingIsTrueAlways` | `SearchProofs` | `NothingIsTrue` |
| `ExistsIsWholeAlways` | `SearchProofs` | `ExistsIsWhole`, if `PostingsRight` |
| `FindsIndexedAlways` | `SearchProofs` | `FindsIndexed`, if `PostingsRight` and `ListsRight` |
| `UploadTypeCorrect` | `QueueProofs` | types, and each request that is not broken off is awaited (`UploadTypeOK`) |
| `OldIsKeptAlways` | `QueueProofs` | `OldIsKept` |
| `DoneIsWholeAlways` | `QueueProofs` | `DoneIsWhole` |

`SearchProofs` holds two independent halves, on the discovery and on the media search, and
`QueueProofs` two, on the queue for command line tools and on uploads.

*Trash.* `Consistent` says nothing of the moments between an operation's writes,
so it is not inductive. `WritesInOrder` adds what the id looks like at each of those moments
(`Midway`) and that two operations are never at such moments of one untainted id: two
requests are not because of the lock (`Exclusive`), a request and the worker are not
because the one that comes second taints the id. A key or a record that a failure leaves or loses
is in `loose` or `orphaned` from that step on, so that every other leaf still says exactly which keys there are. That nobody else works on
an id whose file has not been moved yet is `FreshIds`. `NoClobber` follows from `TargetsFree`: what was free under
the lock can be filled only by a user, because every other rename needs the lock.

*AutoMount.* `RunsInformed` describes a run that is not stale between its steps:
its copy of the slots is the persisted map, every mounted filesystem is in its mapping, and the
slot it cleared is empty. A step of anyone else that would break this makes the run stale;
unplugging does not, because it only takes mounts away (`MountsPresent`). The arithmetic is
`nextFreeSlot`: a finite set of slots leaves one of the first `n + 1` free.

*CliQueue.* `JobsInOrder` says that a job is in the queue or in one batch, once,
that its channel is empty until it is answered, and that results stand at the
positions of their jobs. The type of the queue needs it, for a worker takes a
result whenever it has a job left.

*Tags.* `Informed` (in `TagsInv`) says where each actor can be and with which locals, and that what
it has loaded and counted is still so unless `over` says otherwise; every write of another
actor goes through `Touch`, which says so. With it a store leaves the count right or the tag
`spoiled`. `IndexAgrees` needs `HalvesKnown`: a pair whose first key is gone before
its second is written is `torn` already. `DeletedStaysDeleted` needs `KnownIds`: nobody
writes an id that was not handed out. That the keys are a finite set makes the number of relations a natural number.

*MediaScan.* `SparesUnmoved` follows from an invariant on the way of a file that is in
`still[s]`: until it is visited its path is in what is left to visit, and from then on its id is in `seen[s]`.
A scan that sees the stop empties `still[s]`, a change of a file takes it out; `seen[s]` shrinks only
when the scan is over.

`Reconciled` and `TagsSurviveLone` speak of a scan that nobody disturbed, and `Alone` says how far such
a scan has come: a file is still to be visited, with a worker, or recorded; its cleanup finds at each path
a key it has still to look at or the id of a file it saw. This needs two invariants of
all steps: a path leads only to an item that is recorded there (`Keyed`), and no two files have one id, in
the root or in the trash (`Distinct`). With `Keyed`, `Reconciled` says that the path of a missing
file leads nowhere at all. The converse does not hold: deleting a trashed item drops the key
of its original path, which may by then be another file's, and a scan does not restore that
key, because `UpsertMedia` writes nothing when the record is the same. Nor does a cleanup find the
record of a file that was replaced, whose path leads to the new file.

*EventBus and DlnaDiscovery.* Types need the number of handlers of a topic (`Counted`): unsubscribing
takes one away by position. `OneWindow` follows from `Window`: nobody scans, or one task does, or one
request is about to start it. `NoRendererMissed` needs `Steady`: who counts as listening
is in both lists of handlers.

*FileServing.* `Locked` makes the requests in the critical section of a key one, and `ConvertsOnce`
follows. `WholeInv` follows a preview from its rename or copy to its answer. `PresentInv` says of each request
on its way, unless a change overtook its key, that the key is of the present content and that what it has found or made
has the key's stamp, and the same of what is in the caches; the step that decides is `Change`,
which puts the keys of requests that will read on among the overtaken ones.

*FileTasks.* `Typed` contains that a task is queued once and by one, and that no two paths have one inode.
`FilesRight` says what the worker knows of source and target between its system calls: what is in the
way of an operation was agreed to be lost, and before a source is removed its copy is whole.
The theorem has a hypothesis, `Beside`: without it the code loses files
(`MCFileTasksOnto.cfg` below). `NewsRight` orders what is known of a task, on its way, shown and stored, by
its stage and its finished operations: nothing is ahead of the task itself, and the last of its
news on the way is the present one. Two assumptions of the model came out of these proofs: there must be two inodes more than paths,
one for the worker's open file and one for a new one, and a unique name must
exist within `MaxCopies`, which is now the guard `HasTarget`.

*MediaSearch.* `Sealed` is about the sixth file, the dictionary of paths, whose name is the last of
those that `MediaIndexExists` asks for. Unless the build is `mixed`, once it is there the five before it are those of the last
build, or absent where a removal took them; it is absent while they are being replaced, for nobody builds
over an index that exists; and the n-gram files after it are that build's or absent. `Building` says the same of
the files a build has behind it, unless they or their folder were removed under it (`Gone`). A search opens the names,
and then the paths with builds, resets and restarts in between: `Intact` says that no file of an earlier build
can come between the two, and `Carried` that each record the search owes (`Owed`: there, matching,
unchanged) is in the postings it holds, the ids it has still to look up, or found. `Known` is what makes
an id lead to the record the index was built from, and lets a search that meets a mixed build owe nothing.
`NothingIsTrue` needs none of this: a search
ends with nothing only in `Scan`, and from then on every change of a record touches it.
The excuse is needed: `IndexIsWhole`, which is `ExistsIsWhole` without it, is violated by a removal that
is cut short beside a build, a restart and another build (`MCMediaMixed.cfg` below).
Two facts about `IndexFiles` are hypotheses of the theorems: what is laid out is read back
(`PostingsRight`), and sorting and intersection return what they should (`ListsRight`). They are
about the data alone, for every collection of records, term and query of the constants; the prover
has no induction for folds and recursive functions. TLC evaluates both for the constants of the
instance (`DataAssumption` in `MCMediaSearch`).

*Uploads.* A run of `upload()` goes on when its request is answered, so that everything rests on whose
answer that is. `Sound` says that a run waits for its last request, and that there is no other of it
that was not cut: pausing and resuming leaves old runs behind, whose requests are cut or still
awaited by them. It is stated of the arguments of `ProcessQueue`, because a step changes the
task, then the run, then starts the next tasks. `OldIsKept` needs `OldSafe`, that no request has
chosen an old file that is to be kept: every step lets a request go on with its destination, or
chooses one that is free or to be replaced (`Follows`), and writes only to a destination (`FileStep`).
`DoneIsWhole` follows an upload that its user left alone and whose connections held, on which nothing
acts but its one run: such a task has at most that run and one request (`Steady`); without another upload
of the same content or name, what its handler has written is whole and still its own (`Progress`),
the chunks before the present one are whole and no others are taken for uploaded (`Come`), and it
is completed without an error only with its file stored (`Saved`). Other tasks' handlers
truncate and remove only what is of their content or name (`Apart`). It is a chain of one chunk after
another: an attempt that fails is repeated for the same chunk, or leaves the error that
`DoneIsWhole` asks for, and the merge is asked for when none is missing.
The proofs made four assumptions of the model explicit: its bounds are numbers, `MaxRuns` is not zero, and `Other` and
`Nothing` are neither a content nor a path.

*Only model-checked:* the liveness properties (`HotplugMounted`, `DoneArrives`,
 `Settles`, `TasksEnd`, and the fairness of `Calls` in `Promise`), which are beyond the
prover; and `PostingsRight` and `ListsRight`, as said above. Every safety property of a passing run is
a theorem, `NothingLost`, `ExistsIsWhole` and `FindsIndexed` with the hypotheses named in the table,
each with the excuses that its comment names.

## Disagreements with the code

`media_rebuild` is a run: `rebuildMediaIndex` stops a running scan and resets the data without
waiting for it. The stopped scan ends as always and consumes `tagRelationCleanupNeeded`; its cleanup, or
what of it is not cancelled, finds the store empty and deletes the tags of all items, which the
rebuild's own scan is about to store again. `docs/tags.md` says that relations of missing items go.

The other disagreements are configurations to be run by hand, `tlc -config X.cfg M`; each ends with
a counterexample.

| configuration | module | property | what happens |
|---|---|---|---|
| `MCTrashGhost.cfg` | `MCTrash` | `MetadataIsTruth` | The stats worker, which takes no lock, stores the record of an item that was restored or purged meanwhile: it is listed again, without a file (`trash_worker.go:56`, against `trash.go:66`). |
| `MCTrashRollback.cfg` | `MCTrash` | `RestoreRollbackKeepsRecord` | A restore whose record is deleted, but not its listing keys, renames the file back into the trash without storing the record again (`trash_store.go:175`, against `trash.go:260`). |
| `MCAutoMountInhibit.cfg` | `MCAutoMount` | `InhibitHolds` | `defer` has evaluated the release when it is cleared, so that a successful format releases twice and the next one is not protected (`storage_format_disk_api.go:127`, against its line 29). |
| `MCAutoMountLost.cfg` | `MCAutoMount` | `ReservationsSurvive` | A run that overlaps another one erases the slot the other reserved (`mounts.go:155`, against its line 146). |
| `MCDlnaUnsubscribed.cfg` | `MCDlnaDiscovery` | `StillSubscribed` | A connection that breaks takes the handlers of the connection that subscribed first (`bus.go:190`, against its line 118). |
| `MCTagsCount.cfg` | `MCTags` | `CountCorrect` | Two requests count a tag, the one that counted first stores last, and the count stays wrong (`tag.go:414`, against `docs/tags.md:32`). |
| `MCMediaMixed.cfg` | `MCMediaSearch` | `IndexIsWhole` | A removal of the index that is broken off, or fails beside a build, leaves files among which the next build begins: while it writes, all six files exist and open, and are of two builds (`search_index.go:49`, against `run.go:34`, which builds the index if one is missing). |
| `MCUploadsSaved.cfg` | `MCUploads` | `DoneIsSaved` | A task is completed though its file was never saved whole: after the last attempt to send a chunk fails `uploadWithChunks` returns without an error, and a chunk that was broken off counts as uploaded (`upload.ts:277`, `upload.go:258`). |
| `MCUploadsNames.cfg` | `MCUploads` | `KeepsBoth` | With two uploads at a time both find the same unique name free, and the second truncates the first's file (`upload.go:44`, against `docs/file-conflicts.md:80`). |
| `MCFileTasksOnto.cfg` | `MCFileTasks` | `DuplicateBeside` | A copy onto its own path with overwrite opens its source for writing and empties it (`files_copy_move_api.go:47`); the browser asks for one when a user pastes into the same directory and chooses to replace (`files.ts:322`). |

Some sentences of `docs/thumbnails.md` differ from the code without a property: the answer
for no cover is 204, not 404, and a video whose frame cannot be extracted is served as it is, with
nothing recorded (line 111); the cap on thumbnails is a megabyte, and the last attempt with `vips` and
the frames of videos may exceed it (line 67); a picture beside a file replaces the thumbnail of an image too.

## What is not modelled

The components without a module are listed in `PROJECT.json` with the
reason: parsers, generated code, configuration writers, the updater and the rest of the web
front end are left out, because their difficulty is data or input and output rather than the
order of events; sessions and the event log are single keys.

Of the modelled components: the bus's once-only and asynchronous handlers,
which nothing subscribes; the websocket's handshake and encryption; a publisher held up
by a slow socket; casting to a renderer; the checks of a format request that read one listing;
the walk of copies over a tree, which is a sequence of the modelled operations; scans of `/`;
filters and the walk of the file search; a second load of the browser's page;
the formats of thumbnails.

## Plan

In order of importance; 1 to 12 are done.

1. `Trash`, its invariants, runs and proofs.
2. `AutoMount` with formatting, its runs and proofs.
3. `Calls`, `CliQueue`, the refinement and its proof.
4. `EventBus` and `DlnaDiscovery`, composed.
5. `Tags` and its proofs.
6. `MediaScan` and its proofs.
7. `FileTasks`.
8. `Uploads`.
9. `IndexFiles` and `MediaSearch`.
10. `FileServing`.
11. Proofs about `EventBus` and `DlnaDiscovery`, `FileServing`, `FileTasks`, and of `Reconciled`.
12. Proofs about `Uploads` (`OldIsKept`, `DoneIsWhole`) and the control of `MediaSearch`.
13. The file search on top of `IndexFiles`, with its filter lists.
14. Sessions, and the event log, as small modules.
