# Verification of emule-http-cache-go

TLA+ models of the chunk cache server in this repository, the TLC runs that check them on small
instances, and TLAPS proofs of the results that matter most, for every value of the constants.
Paths below are relative to the repository's root.

| module | what it is |
| --- | --- |
| `ChunkCache` | abstract specification: what a client may see of a chunk |
| `ChunkStore` | the chunk directory, one system call per action; implements `ChunkCache` |
| `ChunkStoreProofs` | proofs: types, the safety invariants, the refinement |
| `Allowance` | abstract specification: a key's daily allowance, its calls one step each |
| `Quota` | one key's daily byte counter, its gates and its file lock; with flock, implements `Allowance` |
| `QuotaProofs` | proofs: types, mutual exclusion, the daily limit, no update lost; that `Quota` with flock implements `Allowance` |
| `Install` | the setup page, its marker, the process around it, reload and shutdown |
| `InstallProofs` | proofs: types, one sweep loop, orderly exit, a refused install leaves nothing |
| `InstallKeyProofs` | proofs: who is shown which key, and which config is in service; extends `InstallProofs` |
| `Config`, `Auth` | what `Parse` makes of a config, who a caller is; operators only |
| `Service` | POST, DELETE and `/v1/stats` as requests through configs that a reload replaces; extends `Auth` |
| `ServiceProofs` | proofs: types, the free-space floor, lifetimes, deletion by the owner, the usage figures, the books of the quota; that `Service` implements `ChunkCache` |
| `Loading` | which config file a process reads and writes, by flag, environment and `.env` |
| `PublicAddr` | the address that `init` offers: a probe of several services at once, and the choice |
| `BaseURL`, `Links` | base URLs, and ed2k links written, read, redacted |
| `Forms` | the install form, from what is typed to the config that is read back |
| `LinksProofs` | proofs: links and redaction, and the form that is loaded back, for text of any length |
| `ServerProofs` | proofs: what the install page wrote is what is served, the address that is offered answers, the parts of `MCServer` together; extends `ServiceProofs` |
| `Traffic` | the sliding windows behind the last-day figures |
| `Download` | GET and HEAD of a chunk: byte ranges, streaming, and what is counted of it; extends `Traffic` |
| `DownloadProofs` | proofs: the last-day figures, alone and as `Download` uses them; types, what is sent, what is counted |
| `MC*.tla`, `MC*.cfg` | instances for TLC; `MCServer` has `Service`, `Loading`, `PublicAddr`, `Links` and `Forms` side by side |

`tlc -config MCQuota.cfg MCQuota` checks one instance, `tlapm QuotaProofs.tla` one module's proofs.

## 1. The system

The server is an HTTP cache of chunks. A client with an API key POSTs a body to `/v1/chunks` and
gets a URL that anybody can GET until the chunk's time is up. Everything is files: there is no
database, no lock over the chunk directory and no index in memory. The processes that share the
files are the `serve` daemon (a goroutine per request, one for the sweep loop), any number of
`gc` runs from a shell or cron, the `init` command, and an operator with an editor.

### Components

| component | source | state | operations |
| --- | --- | --- | --- |
| chunk store | `pkg/storage/store.go`, `area.go`, `chunkmeta.go` | per chunk a blob, a `.json` sidecar, a `.tmp-` file | `Ingest`, `Meta`, `Exists`, `Delete`, `AllIDs`, `RawExpiresAt`, `Usage`, `HasRoomFor` |
| expiry sweep | `pkg/storage/gc.go`, `cmd/gc.go` | a stamp file; otherwise the files of the others | `Sweep`, `Run`, the `gc` command |
| daily quota | `pkg/storage/quota.go`, `lock_unix.go`, `lock_other.go` | a counter file per key and UTC day, an in-process mutex (gate) per file | `Consume`, `Refund`, `forgetStaleGates`, reaping of old counters |
| chunk handlers | `http_public/upload.go`, `chunk.go` | none of their own | POST, DELETE |
| downloads | `http_public/download.go`, `byterange.go`, `middleware.go` | a cursor per response | GET, HEAD, byte ranges |
| install page, `init` | `http_public/install.go`, `internal/install`, `cmd/init.go` | the config file, `install.json` (the marker) | `handleInstall`, `Install`, `Claim`, `Reload` |
| server | `cmd/serve.go`, `http_public/http_public.go` | `current` (an atomic pointer to config and services), the sweeper and its mutex, viper | start, `Reload`, `sweeper.restart`/`stop`, shutdown |
| authentication | `internal/security/auth.go` | none | `Identify`, `OwnsChunk`, `ClientIP`, `IsLocalCaller` |
| configuration | `internal/config/config.go` | process-wide viper | `LoadConfig`, `Parse`, `ClampTTL`, `QuotaFor` |
| stats | `http_public/stats.go`, `status.go`, `info.go` | a usage cache and its mutex | reports, `usageCache.get` |
| traffic | `internal/traffic` | sliding windows of hourly slots, HyperLogLog sketches | `Add`, `Last24h`, `Merge`, `Count`, `Snapshot` |
| install form and generator | `internal/install/settings.go`, `generate.go`, `installer.go` | none | `FromForm`, `render`, `verify` |
| address probe | `pkg/publicaddr`, `cmd/init.go` | a goroutine per service and a channel | `Probe`, `Local`, `Choose` |
| ed2k, base URL | `pkg/ed2k`, `pkg/baseurl` | none | `String`, `Parse`, `Redact`, `Normalize` |
| bundle, log, conformance, docs | `pkg/bundle`, `log`, `internal/conformance`, `docs_api` | output only | commands and declarations |

### How they interact

* An upload reserves its declared length with the quota, asks the store for room, and hands its
  body to `Ingest`; if `Ingest` fails it refunds. A DELETE asks `Meta`, checks the owner, calls
  `Delete`, and asks `Exists` when `Delete` returns false.
* A sweep, in the daemon or in a `gc` run, calls the same `Store.Delete` on the ids `AllIDs` gave
  it, removes old temp files, reaps old counters, and drops the gates of other days from the
  `Quota` object of its process. The rest of it meets uploads and DELETEs in the file system only.
* The install page writes the config and the marker, then calls the `Reload` hook that
  `cmd/serve.go` gave it. `Reload` reads the config through viper, restarts the sweeper over the
  new store and publishes a new `current`. A shutdown cancels the context of every loop, waits for
  the handlers, among them one that may be in the middle of a `Reload`, and stops the sweeper.

### What is hard about it, and what makes each part correct

* **Chunk store.** Uploads, DELETEs and sweeps interleave between any two system calls; a crash
  can come between any two; a removal can fail on either file. Correct means: a published chunk
  stays whole until it expires or its owner removes it; nothing is left where no sweep would find
  it; a 204 means gone; a client sees a chunk come once and go once.
* **Quota.** Read-modify-write of a file by requests of several processes, two layers of locks of
  which one is replaced while it is held, midnight between reservation and refund, a crash
  between truncation and write. Correct means: what is reserved on a day never exceeds the limit,
  no update is lost, and every call returns.
* **Install.** The page is unauthenticated and must show a generated key once, never twice, never
  not at all, and never a key that the operator wrote by hand. Requests overlap, the process may
  be killed at any point, any system call may fail, and every marker write passes through an
  empty file.
* **Server.** Reload and shutdown both wait for a loop while holding a mutex, and a shutdown waits
  for handlers that wait for that mutex. Correct means: one loop at most, over the config in
  service; every shutdown ends; an orderly exit abandons no sweep.
* **Downloads.** A response's status and length are fixed before its blob is opened, and the blob
  may go, fall short or be waited for by nobody afterwards. Correct means: what is sent is the
  beginning of what the Range header asks for, every response ends, and none goes uncounted.
* **Traffic.** A window's slots are reused without housekeeping, by calls that read the clock
  before they took the lock. Correct means: a last-day figure holds the window's calls and no other.
* **Requests as a whole.** A handler reads its config once and another may be in service when it
  ends; free space is measured before a body and reserved by nobody; a client may owe its body for
  ever; one mutex is held across a walk of the store. Correct means: every error path gives back
  what it took, a 201 is for what was asked and allowed, only an owner removes a chunk before its
  time, a report is of one store, and no request waits for another's client.
* **Configuration.** The same lookup runs in `serve`, in `init` and again in `Reload`, in an
  environment that the first run of it has changed. Correct means: the file that the page writes is
  the one that is put in service, and the one that a restart reads.
* **The probe.** Goroutines outlive the call that started them. Correct means: the first good
  answer wins, all must fail for failure to be the answer, and no goroutine hangs.
* **Conversions.** A secret travels in a link, a form becomes a file by regular expressions. Correct
  means: what is read back is what was written, and what is redacted is gone.

The hazards are listed with their lines in `PROJECT.json`, each with the properties that cover it
or the part of it that none does.

## 2. ChunkStore and ChunkCache

One action is one system call with the local work around it. State and code:

| in the model | in the code |
| --- | --- |
| `blob`, `meta`, `temp`, `tempAt` | the three files of a chunk, and the temp file's mtime |
| `exp` | `ExpiresAt` in the sidecar |
| `up[i]` | how far `Ingest` of chunk `i` is (an id is 128 random bits, so it has one upload) |
| `pc`, `target`, `sawBlob`, `sawMeta`, `blobGone` | where a sweep or DELETE is in `Store.Delete` and its caller, with `Delete`'s locals |
| `at`, `todo`, `count` | `Sweep`'s `now`, the rest of its list, and its count |

`UploadBegin`, `UploadSlice`, `UploadCopied`, `UploadCut`, `SidecarCreate`, `SidecarWrite`,
`Rename`, `RenameFails`, `UndoSidecar`, `UploadCleanup` and `Acknowledge` are `Ingest` and its
caller; `StatBlob`, `StatMeta`, `RemoveBlob`, `RemoveMeta` are `Delete`; `LookupMeta`,
`LookupBlob`, `ExistsBlob`, `ExistsMeta` are `handleDelete`; `SweepStart`, `SweepJudge`,
`SweepReap` are `Sweep`. `Crash` is the loss of every process: files stay as the calls so far left
them and deferred cleanups do not run. (With `storage.fsync` off, a loss of power could lose
more. The model has the death of processes, not of the page cache.)

`os.WriteFile` is two actions, because a reader can see the file it has created and not yet
filled. That is what the finding `torn_sidecar` is about: a sweep that reads the sidecar in that
moment gets no expiry and deletes it, and the upload still commits. Such a chunk is `doomed`, and
the other properties say what holds of every chunk that is not.

The store takes every error of a look for the worst answer. `RawExpiresAt` has no expiry to give when
it cannot read a sidecar, be it torn or intact (`store.go:278-282`), and `Sweep` deletes what has none
(`gc.go:68-73`). So one `EMFILE` or `EIO` during a sweep deletes a fresh, published chunk. `SweepJudge`
may fail to read any sidecar, such a chunk is `misread`, and the properties name it as the exception
it is in the code. In the same way `Delete` and `Exists` take any error of a stat for absence
(`store.go:210-236`): `Stat` may miss a file that is there, which is then not removed, and a 204 or a
sweep's count can be wrong for it. Such a chunk is `unseen`. `MaxFaults` counts these failures with
those of removals and writes.

`ChunkCache` knows no files. A chunk is absent, then available, then gone, and may go for four
reasons only: it expired, its owner asked, it was doomed, it was misread. `ImplementsCache` is the
refinement, with `life` mapped to what `Store.Meta` would answer.

## 3. Quota

One key, because keys have files of their own. `counter[d]` is the number in the file of day `d`;
`gates[n][d]` is the gate a `Quota` object `n` has for it; a request goes `idle`, `gate`, `open`,
`locked`, `truncate`, `write` inside `withLockedCounter`, and `ingest` between its `Consume` and
its answer or `Refund`. `LockGate` and `LockFile` wait; `FailEarly` and `FailLate` are the I/O errors
before and after the truncation; `ForgetStaleGates` is the end of a sweep; `Midnight` and `Crash(n)`
come at any time. `LockSupported = FALSE` is the platform of `lock_other.go`.

`WithinDailyLimit` and `CounterIsExact` set two kinds of day aside, and each is a fact of the code:
a day whose number was lost between truncation and write (`lost`), and a day that was given back
bytes charged to the day before (`crossed`). The second is the finding `quota_midnight`.

`Allowance` has no files and no locks: a reservation is granted if it fits what the day has left and
refused if it does not, in one step; it is kept, or given back once to the day it is by then; a
failure or a crash ends what it meets and may lose a day's number. `Quota` implements it wherever
flock works. Proved as `CallsAreAtomic`, with a mapping in `QuotaProofs`: a day's number is what its
file holds, or what the call that has emptied the file had read. A refusal takes effect when the file is
read, a reservation or a refund when it is written, and no sweep and no gate shows. Without flock it
does not implement it: in `quota_gate` two reservations are granted from one number. `Quota.Used`, which
takes no lock and can read the emptied file as 0, is called by tests alone, and neither module has it.

## 4. Install

Requests to `/install` and runs of `init`, one system call per action, beside the process they run
in. `conf` is the secret in the config file; `marker` is what a reader makes of `install.json`,
which every write passes through `"empty"` and a short write over a longer text leaves `"garbage"`;
`probes` are the files with which `preflight` tries the two directories; `loaded` is viper;
`live` and `installed` are the server's `current`; `holder`, `registered` and `loop` are the
sweeper's mutex, its `cancel`/`done` pair, and the goroutines. A request goes

    stat -> marker -> secret ----------------------------------------.
         \-> recheck -> probes -> generate -> commit -> verify -> mark -> mark write
                                                                   -> load -> parse -> lock -> await -> store
                                              claim -> claim open -> claim write -> render -> done

and `init` starts at `recheck` and goes from `mark write` to `claim`. `Start`, `Signal`, `Drain`,
`StopLock`, `StopReturns` and `Exit` are `RunE`; `Crash` is a second signal or the death of the
process or the machine; `HandWrite` and `HandDelete` are the operator's editor.

The properties that speak of the key make exceptions of their own, and each names a path in the
code that really breaks the promise:

* `clash`: an install ran beside a request already past the marker. The code serialises nothing
  there, so the second rename replaces the first one's key. The hazard at
  `internal/install/installer.go:301` has the details. `RefusedLeavesNothing` is free of this
  exception, so it speaks of overlapping installs as well. A disclosure that begins in the middle
  of an install is such an overlap too, and an odd one: an unclaimed marker of a config that was
  since removed still reads as an offer, so a visitor who has read it and is then overtaken by the
  new install and its claim is shown a key that a page has closed. It takes four requests, a failed
  call and an edit, more than the run has; the attempt to prove `NotShownAgain` found it.
* `lost`: a secret on the way to a page whose process was killed, whose template failed, or whose
  request was a HEAD (the finding `install_head`).
* `leftovers`: `os.Remove` of the refused config failed, and its error is ignored. The config of a
  request that was told it had failed stays, and `InService` and `NoHiddenKey` except it.
* `unloaded`: `Reload` failed. `activate` only logs that (`http_public/install.go:218-222`): the page
  that follows is the ordinary "installed" one, the server goes on with what it had, on a first
  install with 503 for every `/v1` route, and nobody is told. `InService` sets such a request aside
  until the next start, which reads the file again. The comment at `install.go:206-211` has
  `activate` there to prevent just that, so it is among the divergences of section 9.
* `handOpen`: the operator wrote a config beside a marker that was still unclaimed. The marker
  names no key, so the next visitor is shown the operator's. What is shown of a config written by
  hand is `HandIsNeverShown`'s to say, and `NotShownAgain` leaves it alone.

`IsInstalled` takes any error of its stat for "not installed" (`installer.go:58-62`). `StatConfig` and
`Recheck` can therefore miss a config that is there, which counts as a fault. A visitor is then shown
the form although there is a config, and an install goes through and replaces the config. No
property forbids the replacement. What the properties do say, they say of that case too: a config
written by hand is replaced and not shown, and the new key is shown and closed like any other.

## 5. Download and Traffic

`Traffic` has the windows: `slots`, `hours` and `total` are those of `Window` and `sketchWindow`,
each counter kept as the set of the calls it has counted. A sum or a sketch's registers are
functions of that set, and `Merge` is its union, so one model serves both. `Call` is a request that
reads the clock, `Count` one call of the recorder under its lock. The clock may stand at any hour
at every call: it is the wall clock, and it can be set back. `late` names the figures that have
counted a call a whole window behind another, which is the one way to lose a slot that is still in
the window.

`Download` is one chunk and requests for it. A header is what its two sides say (`Bounds`), or one
that is ignored, or garbled. `Lookup` is `Store.Meta`, `Serve` is `serveChunk` up to the stream,
`Open`, `ReadSlice`, `WriteSlice`, `WriteFails` and `Finish` are `streamRange`, `Answered` and
`Counts` are `trafficRecorder`. A panic with `ErrAbortHandler` ends the stream; the recorder's
deferred function runs all the same and finds the status the handler set, because gin's recovery is
outside it. `body` is the set of positions sent; that it grows from the front is `BodyIsAsked`'s
to say. `ReadSlice` may fall short by any number of bytes, which stands for every way in which a
blob can be shorter than its sidecar says.

`Asked` is the reference: the positions RFC 9110 gives to a header. It makes one exception, for a
suffix length that fits no int64. The code answers 416, where the RFC, and the label of a case in
`byterange_test.go:28`, would clamp it; no chunk is that long.

## 6. Service, Config and Auth

`handleUpload`, `handleDelete` and `handleStats` in the order of their statements. What other
modules take apart is one step here: `Consume` and `Refund` (`Quota`), the two looks of `Store.Meta`
(`ChunkStore`), a slice of a body. A chunk goes by the name of the request that uploads it. State
and code:

| in the model | in the code |
| --- | --- |
| `serving`, `on[r]` | the config in `current`, and the one request `r` took from it when it began |
| `free` | what `statfs` would say of the volume |
| `charged` | today's counters, by key |
| `file`, `size`, `expires` | a chunk's files, its bytes so far, `ExpiresAt` in seconds |
| `ttl` | `requestedTTL` after `ClampTTL` |
| `walker`, `walk`, `cache` | `usageCache`'s mutex, `Store.Usage` under way, and the last result with its store and time |
| `asked`, `told` | the time a report read, and the store whose figures it gave |
| `unguarded` | history: uploads that were let in unmeasured, or had room while another was in flight |
| `faults` | how many calls have failed, up to `MaxFaults` |
| `misread`, `lost`, `unrefunded` | history: chunks whose intact sidecar a sweep could not read, keys whose counter a failed call has emptied, uploads whose refund failed and left the charge |

`Refusal` has the checks of a POST in their order, `Room` is `HasRoomFor`, `Charge` is `Consume` with
the creation of the temp file, `BodySlice` to `Publish` are `Ingest`, `Refund` follows every error
after the charge. `StorageFails` is a failed write, sync, close or rename at any of its places;
`Reload` puts the next of `Configs` in service at any moment; `Misreads`, `SweepsBlob`, `SweepsMeta` and
`SweepLeavesBlob` are the sweeper. The walk of `/v1/stats` reads shard by shard and then file by file, with uploads, DELETEs
and sweeps between any two looks.

Every call that a handler makes of the system may fail, and what the handler makes of it is an
action of its own. `ChargeFails` is a `Consume` that meets an I/O error: it answers 429 as if the day were
used up, and may have emptied the counter (`quota.go:121-151`). `RefundFails` is a `Refund` that does,
whose result `upload.go:107` ignores. `MetaFails` is a chunk that `Store.Meta` cannot read, a 404.
`DeleteBlobFails` and `DeleteMetaFails` leave a file, and the answer is 500 if `Exists` still sees one
(`routes.go:88-91`). `ListShardFails`, `StatBlobFails` and `ReadExpiryFails` are what `Usage` cannot read:
passed over, or counted as expired (`store.go:254-258`, `310-330`). `Room` may find that free space cannot
be measured, always and not as a fault, since `diskfree_other.go` never can: then every upload is let in
(`store.go:98-101`).

`Config` is what `Parse` makes of what viper holds: defaults, `normaliseKeys`, `validate`. `requestedTTL`
keeps the width of a `time.Duration`: seconds are multiplied and wrap round at `DurationLimit`, as
`upload.go:173` does. `StoredAsAsked` therefore promises the asked lifetime only for a number that
fits, and some lifetime within the ceiling for the rest.

`Identify`'s loop does not break, so of several keys with one secret the last wins. An
`Authorization` that is not a bearer token counts as no credential at all, so on an open server it
uploads as anonymous.

`ChargedIsStored` says what a key is charged byte by byte: `OwedBy(k)` has the pairs of an upload and
one of its declared bytes, for every upload that took from `k` and gave nothing back, and the counter is
its size. So a sum over requests is a cardinality, as in `QuotaProofs`' `Ledger`. An upload whose refund
failed keeps its charge, and belongs to that set; a counter that a failed call has emptied is below
its size from then on (`lost`), and never above.

What a client sees of a chunk over all requests is `ChunkCache` again, this time with `life` read off
a status: absent until a 201, available while its blob is there and its second has not come, then
gone. `ServiceKeepsPromise` is that refinement. So `ChunkStore` and `Service` keep one promise, the one a
system call at a time and through crashes, the other a request at a time and through reloads.

`FloorHeldAlone` is what `min_free_bytes` comes to: the check reserves nothing, so two uploads in
flight together pass it together, and the property is about an upload that had the volume to
itself from its check to its end, on a volume that could be measured.

## 7. Loading

One config file per name (`Paths`), a `.env`, a server that is started with some `--config` and some
environment, and runs of `init` and an operator beside it. `FileName`, `Opened`, `Read`, `ConfigFileUsed`,
`Installed` and `configPath` are the functions of `config.go` with what viper does in them; `held`
is what viper keeps from one load to the next, since a file that is not there is no error and
changes nothing; `environ` is the process environment, which `readEnvFile` overwrites and a second
load finds overwritten. `Start`, `InstallPage`, `ReloadConfig` and `Stop` are the server's life,
`InitCommand` a process of its own. `InstalledIsServed` is the sentence of `serve.go:85-87`, with the one case
in which it fails: LoadConfig asks for `EMULE_HTTP_CACHE_CONFIG` (`config.go:170`) before it reads
`.env` (`config.go:188`), so a `.env` that names a config file is overlooked when the server starts and
obeyed when `Reload` loads again.

## 8. PublicAddr, BaseURL, Links and Forms

`PublicAddr`: `DetectAddress` starts a goroutine per service; `Fetches`, `FetchFails` and `Sends` are
theirs, `Receives` is the loop of `Probe`, whose deferred cancel is `ended`, as the deadline is. An
address is kept as its class. `Choose` is a pure operator, and `AddressAnswers` compares what it offers with
what the listener would answer on. A listen host that is a name other than `localhost` has no address
for `splitListen` (`publicaddr.go:328-331`), while `net.Listen` binds the one that it resolves to: in a record
of `Listen`, `bound` is the former and `named` the latter. `Choose` treats such a listener as one on every
interface, against its comment at `publicaddr.go:209-210`, so of a named host the property says no more
than that the address is an interface's.

`Links`: text is a sequence of octets, and the clipboard any string of pieces typed one after
another, among them the separators, escapes and halves of escapes. It holds what follows the prefix
`ed2k://|httpcache|`, closing bar and slash included. `TakeOctet` folds the percent decoding over a
field; `Parse`, `String` and `Redact` are the code's. `TrimSpace` takes what `unicode.IsSpace` does, which in UTF-8
is one to three octets (`Spaces`). `LinkSurvives` and `SecretIsRedacted` are checked of every text of up to five
pieces, and proved of every text. `SecretIsRedacted` puts any other plausible secret in the place of a
link's, so that a `Redact` that keeps an end of it, or its length, is caught.

One text is read differently than in the code: of `ed2k://|httpcache|/` the closing bar is the prefix's
own, so `Parse` takes it for closed, slices `raw[18:17]` and panics (`link.go:96-102`), where its comment
promises false "for anything that is not a well-formed one" (`link.go:83-84`). In the model a text is
closed by a bar of its own (`IsClosed`), and that one is no link. Only tests call `Parse` and `Redact`.

`Forms`: a form is typed into field by field; `Faults` and `FromForm` are `settings.go`, `Expand` and what
follows are `generate.go`, whose replacement text is that of a regular expression and so reads
`$1` as a group, and `verify` loads the result back as viper would. A submitted form is refused by
`FromForm`, refused by `verify`, or installed; `FormLoadsBack` lists the forms that pass the first and
not the second:

* key ids with a dot or a capital, which viper changes;
* key ids that YAML reads as something other than text, since `generate.go:45` writes them without
  quotes: `null`, dates, and numbers that are printed differently than they were written, such as
  `007`, `1e3`, `1_0` and `0x10` (`Retyped`);
* key ids that are the name of a setting, which make its rewriting match twice (`generate.go:90-92`,
  `Refuses`);
* a URL with a `$`, an upper-case scheme, a path that is not normal after one `Normalize`, or longer than
  the limit, and one that is not UTF-8, whose stray octets `strconv.Quote` escapes as `\xff` and YAML
  reads as characters (`Quoted`);
* NaN gigabytes.

`Retyped` errs on one side: a number of more than 18 digits and a date that no calendar has count as
changed, though some come back as they were. `int64(NaN)` is implementation-specific in Go; the model takes either value of `NaNAsBytes`.

## 9. The runs

| run | checks | states | what it shows |
| --- | --- | --- | --- |
| `chunk_store` | `PublishedIsKept`, `NoOrphanBlob`, `DeletedIsGone`, `ReclaimedOnce`, `ImplementsCache` | 2.2M | one chunk, two sweeps and a DELETE race for it, with one failed call (a removal, a write, a stat, a read of an intact sidecar) and a crash |
| `chunk_reclaim` | `TypeOK`, `EverythingIsReclaimed` | 0.6M | two chunks, one deletion per sweep: all that is left behind is reclaimed |
| `torn_sidecar` | `SidecarFirstSuffices` | violated | the orphan that writing the sidecar first does not rule out |
| `quota` | `TypeOK`, `OneWriterPerFile`, `WithinDailyLimit`, `CounterIsExact`, `CallsReturn` | 0.8M | three uploads in two processes, across midnight, with one failure or crash |
| `quota_midnight` | `NeverOvershoots` | violated | a refund after midnight lets the new day overshoot |
| `quota_gate` | `GateIsEnough` | violated | without flock, a sweep across midnight lets two requests write one counter |
| `install` | `TypeOK`, `OneLoop`, `SweepsFinish`, `NotShownAgain`, `NoHiddenKey`, `RefusedLeavesNothing`, `HandIsNeverShown`, `InService` | 2.3M | an install and a second request of any kind, two starts, one fault or crash, one edit |
| `install_ends` | `EverythingEnds` | 0.1M | requests and shutdowns that wait for one another all end |
| `install_head` | `HeadNeverClaims` | violated | a HEAD claims the key |
| `install_once` | `ShownOnce` | violated | a GET during another request's install is shown the same key |
| `download` | `TypeOK`, `BodyIsAsked`, `NothingUncounted`, `NothingOld`, `NothingMissed`, `EveryDownloadEnds` | 0.4M | every Range header, against removal, short reads, stalling clients and any clock |
| `server` | `TypeOK`; of `Service`: `ChargedIsStored`, `FloorHeldAlone`, `StoredAsAsked`, `UsageIsReal`, `OnlyOwnerDeletes`, `EveryRequestEnds`; `InstalledIsServed`; `AddressAnswers`, `NoFetchIsStuck`; `LinkSurvives`, `SecretIsRedacted`; `FormLoadsBack` | 0.7M | three requests of any kind through three configs, with one failed call; a server started, installed and edited under every flag and environment; the probe; every link and every form of a bounded size |

`server` puts five parts that share no state in one state space: `part` chooses at the start, and the
parts not chosen rest. It is the sum of five small instances and no product.

Every property of a passing run has a mutant in `PROJECT.json`: the definition of the model it
guards, changed as a plausible bug would change it ("A bug to catch" in the modules), under which
TLC finds the property violated.

### Findings

1. `torn_sidecar` (`pkg/storage/store.go:186`). The comment above it relies on the sidecar's coming
   first to rule out blobs no sweep can see. `os.WriteFile` creates before it fills; a sweep in
   between deletes the sidecar and the rename still succeeds.
2. `quota_midnight` (`pkg/storage/quota.go:68`). `Refund` takes the counter of the day it is, not
   of the day that was charged.
3. `quota_gate` (`pkg/storage/quota.go:182`). `forgetStaleGates` keeps the day the sweep started on,
   so it can drop the gate of the day that has begun, while it is held. Where there is no flock
   nothing else guards the file, against the comment in `lock_other.go:9-10`.
4. `install_head` (`http_public/install.go:186`). `show` claims whatever the method, against
   `template.go:137`.
5. `install_once` (`http_public/install.go:111`). The marker is read in one step and claimed in
   another, so two requests in flight can be shown one key. What does hold is `NotShownAgain`: once
   a page has said that its showing is recorded, no later request is shown the key.

### Divergences that have no run

Met while modelling, left as exceptions in the properties named:

* `.env` naming the config file, against `serve.go:85-87` (`InstalledIsServed`, section 7).
* `X-Chunk-TTL` that wraps round to a short or negative lifetime, where `upload.go:47` describes
  clamping (`StoredAsAsked`).
* `FromForm` accepts forms whose config `verify` then refuses; `maxPublicBaseURL` is checked without
  the base path that is added later (`FormLoadsBack`).
* `Normalize` is not idempotent on a path that ends in a space, of any alphabet, before its slashes
  (`LinkSurvives`).
* A sweep that cannot read an intact sidecar deletes its chunk. The comment at `store.go:323-324` knows
  of the rule; that it takes a chunk before its time is nowhere said (`misread`, section 2).
* A listen host that is a name is offered on every interface, against `publicaddr.go:209-210`
  (`AddressAnswers`, section 8).
* A `Reload` that fails after an install is only logged, against `install.go:206-211` (`unloaded`, section 4).
* `Parse` of the prefix and a slash panics, against `link.go:83-84` (section 8).
* Key ids that YAML retypes, or that name a setting, pass `FromForm` and are refused by `verify` or
  `render` (`FormLoadsBack`).
* After a reload, the URLs in a 201 use the new config's base path while the routes were registered
  under the old one. The model has no routes, so no property says so.

### Bounds, and why they are enough

* **ChunkStore.** Chunks share nothing but a sweep's list and its cap, so one chunk is enough for
  every race over its files and two, with `MaxDeletes = 1`, for the cap. Two sweeps and a client
  are every pairing of callers of `Delete`. Times to 3 give a lifetime that ends during an upload,
  before, at and after a sweep's `now`; `TempMaxAge = 0` lets a temp file grow old under its upload,
  as a stalled client's does in an hour. One failure (`MaxFaults`) and one crash can fall on any call.
  `LastWrite` stops uploads, not sweeps, before the clock stops.
* **Quota.** Two requests in one process and one in another, lengths 1, 2 and 1 against a limit of
  2: any two may collide, and any pair is too much together. Two days are one midnight.
* **Install.** `r1` installs from the page or from the shell, `r2` is any request, so every pair of
  which one writes a config occurs; a request that only reads before any config exists ends at once.
  Two starts are a restart with what the first run left on disk. One fault and one edit may fall
  anywhere. `install_ends` has one start and no edit, for liveness only.
* **Download.** A chunk of 3 bytes in slices of 2 has a full slice and a short one, and every header
  has bounds below, at and past the end, absent, or too large. Requests share only the chunk and
  the counters, so the second one needs no range of its own. A window of 2 hours and a clock of 3
  reuse a slot; the theorems are for any window.
* **Service.** Two uploads that overlap, with a third request that deletes or reports, are every pair
  that meets; `r1` and `r2` may also report, so two reports meet at the mutex with an upload beside
  them. The three configs differ in everything a handler reads: the store, the floor, the ceiling,
  open upload, limits, a key disabled, renamed, repeated or left without a secret, and TTLs left to
  the fallbacks. A disk of 2 with a floor of 1 lets an upload of 1 in and not one of 2, nor two of 1 one after the
  other; under the config without a floor it fills up. One failure (`MaxFaults`) may be of any call, with
  any number of measurements beside it; that more of them break nothing is what the
  proofs of the safety properties show. One tick expires a
  chunk of the shortest lifetime in the middle of anything; 21 seconds wrap round a `DurationLimit` of
  8, and the other requests' 1 does not.
* **Loading.** Two files, two texts, two edits: a config removed, replaced or made unreadable, with a
  `.env` changed beside it, before or after the start and the page. The proof is for any number.
* **PublicAddr.** Two services, one of which may answer with a public address and the other with one
  that is no answer; hosts with no, one or several addresses of every class, listeners on every class and on names that
  resolve to an interface or to loopback.
* **Links, Forms.** Five of ten pieces are enough for a name and a base with an escape, a bar or a space, of one
  octet or two, in any place of either, and the limit of 11 octets cuts some off. A key id is one of sixteen:
  of every kind that is changed, of every kind that is not though it looks like one, and a setting's name. Two fields typed into are every
  pair of them, valid or not; paths have a first octet and up to three pieces, spaces of one and two octets and one that is not UTF-8
  among them. Longer texts have the same octets in the same
  neighbourhoods; that this is enough is what the proofs show, which are for any text.
* Deadlock is checked in `ChunkStore` and `Quota`. In `Install`, `Download` and `MCServer` all requests may be
  answered for good, so `CHECK_DEADLOCK` is off and `EverythingEnds`, `EveryDownloadEnds`,
  `EveryRequestEnds` and `NoFetchIsStuck` take its place.

### Fairness

* **ChunkStore**: `Tick`, every sweep's next step, and an upload's steps once its body is
  complete. A ticker that fires and goroutines that are scheduled are all that asks. A client owes
  nothing: its body may stall for ever, since `copyBody` has no read deadline.
* **Quota**: a request inside `withLockedCounter` takes its next step whenever the locks let it. No
  fairness for the body, for sweeps, or for midnight.
* **Install**: a request in flight, a loop told to end (`Run` looks at its context between sweeps,
  and a sweep is bounded by `gc.max_deletes`) and a shutdown under way take their steps. Nobody need
  ever open the page or send a signal. The mutex gets weak fairness only: `await` is left by
  whoever holds it, and with finitely many requests that suffices.

* **Download**: a handler takes its next step, and the deadline of a write to a client that takes
  nothing passes. Nobody need open a request, and a client may stall for ever.
* **Service**: while any handler can go on, one does. That is weaker than fairness for each, and
  enough, since none can take steps for ever. No client need send its body, no clock need tick and no
  sweep need run.
* **PublicAddr**: while a goroutine can go on, one does, and the deadline passes. A service need
  never answer.

## 10. What is proved

All the proofs hold for any sets of processes, any lengths and times, and any number of faults,
crashes and restarts. They assume what the modules' `ASSUME`s say of the constants: the numbers are
naturals, the limit and the lifetimes are positive, the special values are distinct from one
another. `QuotaProofs`' results beyond types add `LockSupported`.

| theorem | of | states |
| --- | --- | --- |
| `TypeCorrect`, `DownloadTypes`, `ServiceTypeCorrect`, `PartsTyped` | `ChunkStore`, `Quota`, `Install`; `Download`; `Service`; `MCServer` | the types; in `ChunkStore` also the cap on a sweep, in `Install` who may hold the sweeper's mutex, in `Service` that a request past its admission is one its config admits |
| `ChunksAreKept` | `ChunkStore` | `PublishedIsKept` |
| `NoBlobIsOrphaned` | `ChunkStore` | `NoOrphanBlob` |
| `GoneMeansGone` | `ChunkStore` | `DeletedIsGone` |
| `ReclaimedAtMostOnce` | `ChunkStore` | `ReclaimedOnce` |
| `Refinement` | `ChunkStore` | `ImplementsCache`: `Spec` implements `ChunkCache`'s |
| `FlockExcludes` | `Quota` | `OneWriterPerFile` |
| `LimitHolds` | `Quota` | `WithinDailyLimit` |
| `CounterExact` | `Quota` | `CounterIsExact` |
| `CallsAreAtomic` | `Quota` | `Daily!Spec`: with flock, `Spec` implements `Allowance`'s |
| `NeverTwoLoops` | `Install` | `OneLoop` |
| `OrderlyExit` | `Install` | `SweepsFinish` |
| `NothingWritten` | `Install` | `RefusedLeavesNothing` |
| `OnceClosedNotShown` | `Install` | `NotShownAgain` |
| `NoKeyIsHidden` | `Install` | `NoHiddenKey` |
| `HandIsSafe` | `Install` | `HandIsNeverShown` |
| `WhatIsInService` | `Install` | `InService` |
| `LastDayIsRecent`, `LastDayIsComplete` | `Traffic` | `NothingOld`, `NothingMissed`, for a window of any length |
| `DownloadCounters` | `Download` | both, for a server that answers downloads |
| `AskedIsSent` | `Download` | `BodyIsAsked`, for a chunk and a slice of any size and any header |
| `SentIsCounted` | `Download` | `NothingUncounted` |
| `FloorAlone` | `Service` | `FloorHeldAlone` |
| `AsAsked` | `Service` | `StoredAsAsked` |
| `OnlyItsOwner` | `Service` | `OnlyOwnerDeletes` |
| `UsageTrue` | `Service` | `UsageIsReal` |
| `ChargedForWhatIsStored` | `Service` | `ChargedIsStored` |
| `ServiceKeepsPromise` | `Service` | `Promise!Spec`: `ServiceSpec` implements `ChunkCache`'s |
| `InstalledServed` | `Loading` | `InstalledIsServed` |
| `AddressAnswersAlways` | `PublicAddr` | `AddressAnswers` |
| `LinkSurvivesAlways`, `SecretIsRedactedAlways` | `Links` | `LinkSurvives`, `SecretIsRedacted`, for text of any length |
| `FormLoadsBackAlways` | `Forms` | `FormLoadsBack`, for text of any length |
| `EachPart` | `MCServer` | a behaviour of the five parts together is one of each |

**ChunkStore.** `PublishedIsKept` is not inductive: it says nothing of a sweep that is already in
the middle of a `Delete`. What may make a chunk go before its time (`doomed`, `misread`) and what a
process overlooked (`unseen`) are histories that only grow, so failures add a case to each condition
and leave the argument as it is. `StoreInv` adds, for each upload, what it has on disk by how far it got
(`UploadOK`); for each process in `Delete`, that it has a reason to be there and that what it saw
of the two files still holds (`DeleteOK`: an upload that has settled creates nothing again, which
is what makes a stat that is several calls old safe to act on); for each client, that its chunk's
upload is over (`ClientOK`); and for each sweep, that its `now` is not in the future. `Stable` holds
what every step keeps (expiries of published chunks, membership of the histories), so that the
case for one process's step need not look at the others again. The orphan property and the 204
follow from it with one more argument each (`ReclaimInv`: whoever has reported a chunk reclaimed has
left neither file of it, and none comes back), and the refinement maps each system call to an
action of `ChunkCache` or to no change.

**Quota.** `LimitInv` ties the number a call has read to what is in force: while a call is between
read and write, no other is (`FlockExcludes`), so what it read still covers what is reserved
(`ReadIsCurrent`), a reservation that got that far fits (`ReservationFits`), and a counter at rest
covers all reservations (`NeverUndercounts`). That nothing is overcounted either needs more: a
refund takes off bytes that are on the books, which a sum over any set of requests in flight would
have to say. `Ledger` says it without a sum: the number in force on a day is the size of a set of
pairs of a request and one of its bytes, into which a reservation puts its own and from which its
refund takes the same ones. The gates are not used at all: with flock they are
redundant, without it they are not enough, as `quota_gate` shows.

**One call, one step.** `CallsAreAtomic` uses `LimitInv`, that flock excludes, and `ReadStands`: until a
call truncates, what it has read is in the file, from then to its write the file holds 0, and its day
has begun. So a day's number stands still through `Truncate`, moves in `Write` by what the request
declared, and is lost only where a failure or a crash meets a call between the two. Each action of
`Quota` has a lemma that names its action of `Allowance`, or that nothing is claimed.

**Install.** `Inv` says that a loop that is alive is the registered one (`AliveIsRegistered`: this is
what makes `stopLocked`'s wait enough), that a shutdown past its drain has no handler left that
could start another (`DrainedIsServed`), hence that an exit in order finds none (`ExitingIsSwept`);
and, for the refusal, that nobody has written a request's config before it does (`NotYetWritten`)
and that a request that ended refused has removed it. `KeyInv` is what the properties of keys need: a
request has no key before it makes or reads one, and its own while it installs (`OwnKeys`); without
a clash one install runs at a time and nobody else past the marker (`OneInstall`), so the key in
hand is the one in the config (`WhoseConf`) and no other request holds it before its install is over
(`OthersKeys`); a marker that is unclaimed offers no key that a page has closed (`MarkerIsClosed`), so
nobody who starts later is on the way to one (`NotAgain`); and a key in a generated config is on
offer, on a page, or on its way to one (`Reachable`). `HandIsApart` does the same for a config written
by hand. For `InService`, a loop is registered after the wait for the one before (`LoopComesLast`), what is
registered runs over what is live (`LoopRuns`), and a config not yet live is in the hands of the
request that brings it (`Activated`). A stat of the config that fails lets a request install over a
config that is there, so that nothing can be concluded of the config from being past `Recheck`. What is
concluded comes from what a request has written itself: `WhoseConf` and `HandIsApart` speak of the stages
after its commit (`Written`) and of the marker. The steps are summarised once, by what each may do to those
facts, and every conjunct is proved from the summary.

**Traffic.** `TrafficInv` says that a slot's calls are of the hour it says (`SlotsAreDated`), and that a
call leaves its slot only for one a whole window later (`SlotsAreKept`). The second rests on a lemma
of arithmetic, that two hours of one slot are a whole window apart, and on `late` for the calls
that come the other way round. `Download`'s every step is one of `Traffic` or none that its
variables see, so both results carry over.

**Download.** A stream's cursor (`Cursor`) splits what was asked into what was sent and what is owed;
that gives a prefix at every moment and everything at an orderly end. `Asked` and `parseByteRange` are
shown to agree for a chunk of any size by cases over the header's two sides. `Owed` says which
calls the recorder has still to make for a request that is over.

**Service.** `Admitted` has what an upload, a DELETE or a report has shown by its stage, `Filed` what it
has on disk and of which size, `DeletesOwn` that a DELETE past `Meta` holds its own chunk, `Meet` that
two uploads in flight are both unguarded; the floor follows, because alone an upload takes from the
volume only what it has asked for. `ReportInv` follows the walk: whatever was there before and is
there still is counted or yet to be looked at. The module proves it for any number of configs and
for an expiry in the middle of a walk.

**Loading.** Three facts: the page writes the file that the start looked for, while nobody edits the
environment is what the start made of it, and what the page wrote stays in its file.

**The books.** `Books` adds to `ChargedIsStored` only that the set of bytes is finite. Of all actions
two write in them when nothing fails, and each by what one upload declares; for every other it has to
be shown that no upload begins or ceases to owe, a failure between charge and publication among them.
The two that fail, `ChargeFails` and `RefundFails`, write 0 or nothing: an emptied counter is no larger than
what is owed, and stays so under any further charge, refund or failure. That `Refund`'s
floor of 0 never takes effect comes out as well: what is taken off is a part of what is there.

**The promise.** Most of `Service`'s actions, the failures among them but for a sweep's and a DELETE's removals, are `Unnoticed`: no chunk is seen to change and no
DELETE is let in. `AdmitDelete` is `ChunkCache`'s `Ask`, `Misreads` its `Misread`, `WriteSidecar` its `SetDeadline`, `Publish` its
`Publish`, the removal of a blob, or of a sidecar whose blob stays, its `Go` or, where time or another DELETE came first, nothing. A tick of
the clock is one second more or none (`NextSecond`, a lemma about division).

**PublicAddr.** `SetupInv` follows an answer from a service through its goroutine and the channel to the
caller (`AnswersAreSent`, `ProbeSays`); `ChooseIsSound` is about the choice alone, for any list of addresses.

**Links and Forms.** These are facts about functions of texts. `Decoded` is a fold: what it does on a
text and one octet more follows from the equation of a fold's function, which exists
because a length is smaller than the next. What holds of every text is then shown by a least
counterexample (`WFMin` of the library, which takes a set where the induction theorems take an operator).
So: what is encoded has no separator in it and decodes to itself, a text that was joined at its
bars is split there again, `Normalize` twice is `Normalize` once but for `SpacedPath`, a text that ends in no space of any alphabet is
left alone by the trimming, and `Quoted` leaves UTF-8 alone as `Expand` does a text without a dollar. The invariants of the two state machines add little to these: the clipboard
holds octets, and a form that has been submitted has the outcome that its fields call for (`Verified`).

**The parts together.** `EachPart` carries all of this to the specification that `server` checks.

The proofs corrected the statements in three places that the runs' bounds hide: the disclosure
beside an install, the config written by hand under `NotShownAgain`, and `leftovers` under `InService`
(section 4).

### Only model-checked

* Liveness, which is out of this prover's reach: `EverythingIsReclaimed`, `CallsReturn`,
  `EverythingEnds`, `EveryDownloadEnds`, `EveryRequestEnds`, `NoFetchIsStuck`.
* The five runs that expect a violation.

## 11. What is not modelled

* `ChunkStore`: the content of blobs (a blob is whole or part) and the stamp file of a sweep. Reaping
  of week-old counters is left out of `Quota`, whose days are never that far apart.
* `Quota`: the limit 0 (unlimited) touches no file; `Service` has it. Two key ids that sanitise to one
  file name (`quota.go:189`) would share a counter.
* `Install`: what a config says beside its secret (`Config`, `Forms`), `gc.interval = 0`, the temp file of
  the commit (its name is its request's own), and a listener that fails. `ConfigFlag` models `--config`: with it,
  `config.Installed` is true of a file that does not exist; no run sets it, and `Loading` has
  the case instead. Two preflights that probe with one file name (`installer.go:301`) can refuse each
  other; that ends in a refusal, which the model has.
* `Service`: one volume for all stores; a chunk whose sidecar is swept before its blob is there
  (`ChunkStore`); midnight (`Quota`); response bodies and headers; `Warnings`, the settings of `gc` and of
  the log; status and info, which print the config; `ClientIP`, which only the access log and the
  count of clients read.
* `Loading`: other variables than the config's name and one setting that overrides the file, and a
  `.env` that cannot be read.
* `Download`: headers no control flow depends on, several chunks, and `/v1/stats`. A download is counted
  by its status, so one whose blob had gone counts as a download of no bytes. A snapshot whose
  time was read before a walk of the store can miss the oldest hour, if a call of the next hour is
  counted during the walk: `NothingMissed` speaks of calls no later hour has pushed out.
* `Traffic`: the sketch's estimate, a floating-point formula over its registers.
* `Links`: the prefix, and with it the panic of `Parse` (section 8). `BaseURL`: scheme and host, and `IsLoopback`, on which only a
  note of `init` depends. `Forms`: the banner and comments of the generated file, and another template than
  the one compiled in.
* Formatting, logging, page templates, generated documentation, the conformance client and the bundle
  command: no state that the server reads back.

## 12. Plan

Done, in this order: `ChunkCache` and `ChunkStore`, `Quota`, `Install`, `Traffic` and `Download`; then `Config`,
`Auth` and `Service`, `Loading`, `PublicAddr`, `BaseURL` with `Links` and `Forms`; and the proofs listed in section
10, among them every safety property that a passing run checks. What would add most next:

1. `Service`'s one-step `Consume` and `Refund` as steps of `Allowance` too, one allowance per key, so that both
   modules of the quota meet in one specification as those of the chunk do in `ChunkCache`. It needs a
   limit that a reload may change and that may be 0.
2. The stamp file and the reaping of old counters, beside uploads of another day.
3. Routes and base path across a reload, with the public URL in a 201.
