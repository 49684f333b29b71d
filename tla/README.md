# TLA+ development for ZigMachine

ZigMachine is a fantasy computer (video with raster interrupts, a blitter and a
copper, music chips, an Atari-style ROM with a desktop, and KOS, a small
operating system with a GEMDOS-like file interface) with three hosts: the
browser page (`docs/`), a native window, and an FPGA board with its helper
processor "glass" (`fpga/`). Most of the repository is content that runs on it.
This directory models the parts whose correctness is a matter of *order*: who
writes what before what, and what is left when something stops half way.

Paths below are relative to the repository's root.

## 1. Inventory

| Component | State | Operations | Hard behaviour | What makes it correct |
|---|---|---|---|---|
| **KFS**, the writer of the C: image (`rom/kos/kfs*.zig`, linked into every host; `docs/kos-cfile.js` is the page's door to it) | the FAT image; FSInfo's count; the generation `gen` | `write` (a chunk of a save into a temporary file, the last one committed by renaming), `abort`, `delete`, `rename`, `mkdir`, `rmdir`, `setattr` | power cut between any two sector writes; a disk or folder that fills up half way; lookups kept across edits | never a name that leads to free or foreign clusters; a save whole or not at all; the volume clean between requests |
| **GEMDOS, write half**, in each cart (`gemdos_write.zig`, `gemdos_wops.zig`, parts of `gemdos_io.zig`) | handle table, one 32 KB buffer shared by all handles, its owner, what the host already has of each file | `Fcreate`, `Fwrite`, `Fseek`, `Fclose`, `Fdelete`, one-request calls (`Frename`, `Dcreate`, `Ddelete`, `Fattrib`) | handles taking turns with the buffer, seeks behind and before it, requests that fail, a cart that is swapped out in the middle of a save | `Fclose` puts exactly the written bytes in place or answers an error and leaves the old file; `Fwrite` returns |
| **GEMDOS, read half and drive cache** (`gemdos_drive.zig`, `gemdos_io.zig`, `gemdos_file.zig`, `gemdos_search.zig`, `fat.zig`, `fat_dir.zig`) | the volume as mounted and the one sector it holds, a cache of runs of eight sectors, current folder, open files (position and remembered cluster), the search in the DTA | `Fopen`, `Fread`, `Fseek`, `Fclose`, `Dsetpath`, `Fsfirst/next`, `mediaChangeA` | the image written by the program itself, or the floppy changed, under open files and searches; a backend that stops answering | a path is looked up on the disk as it is; an open file reads its own bytes; a search finds what is there, once |
| **Cart swaps in the page** (`docs/sealed-loader.js`) | the running cart, the swap guard, trapped flag, carts that failed, keys held, mounted disk | `swapCart`, `changeChannel`, `instantiateCart`, the render loop | everything between two `await`s: frames, keys, another request, a failure half way | one swap at a time; no key stuck; a failed swap leaves a machine that runs |
| **Songs and effects in the page** (`docs/sealed-loader.js`, `docs/audio-worklet-sealed.js`, `libs/zig/sfx_queue.zig`) | song generation, the song posted to the worklet, a promise chain of effects | play by name, call by name, effect, reset | fetches that finish out of order, fail, or end after the cart that asked is gone | no slow song over a newer one; effects in order and after their song; the chain not blocked for ever |
| **Blitter queue** (`libs/zig/blit_queue.zig`, `libs/zig/effects/blit_list.zig`, `machine/blitter_queue.zig`, `fpga/cycles/bchisel.c`, `fpga/rtl/blitter`) | a ring in two halves, what is pending, the words the block holds, CHISEL's copy of them | op, fill, kick, flush, `hwBlit`, stores to the block | the CPU fills one half while the engine reads the other; cache sweeps put off | every op runs once, in order, with the words it was given |
| **glass: the board's file requests** (`fpga/glass/src/kos_file.zig`, `kos_drive.zig`; `fpga/cycles/bkosfile.c`, `bkosdrive.c`) | two request blocks in shared memory, sequence numbers, the C: generation, the kernel's cache of the partition | a call's request, glass's service, deadlines, cart loads and resets | a deadline racing a late answer; a restart under a request; a cache under a write | an answer belongs to the call that gets it; reads show the writes before |
| KOS boot, system variables; desktop; video, copper, blitter pixels; audio synthesis; arena; RTL; applications; tools | see `PROJECT.json` | | | not modelled, with the reason there |

How they interact: a cart calls GEMDOS (linked into the cart); GEMDOS calls the
host with a request; the page (`kos-cfile.js`) or the native host calls KFS,
which edits the image and answers before the call returns. On the board the same
request goes through a block in shared memory to `glass`. The page tells every
reader that C: changed through `gen`. The loader owns all of the above in the
page: it swaps carts, forwards audio messages to the worklet and serves disk
sectors.

`PROJECT.json` lists under `hazards` what is hard to test in this code, at its
line, with the properties that would catch it.

## 2. Modules

| Module | What it is |
|---|---|
| `KfsDisk` | a FAT volume as a value and each edit of `kfs_fat.zig`/`kfs_dir.zig` as a *course*: the sequence of the disks that the edit passes through, one per sector write |
| `KfsServe` | the requests of `kfs_ops.zig`/`kfs_file.zig` as courses, and their answers; no variables |
| `Kfs` | the machine that serves one: `Request`, `Write`, `Reply`, `Cut`, `Fsck` |
| `FileStore` | abstract: a tree of names; the request served happens whole or is refused, as its answer says; what a power cut in it may leave |
| `KfsServeProofs` | what the courses of `KfsServe` keep, whatever the volume and the request |
| `KfsProofs` | the theorems about `Kfs` |
| `MCKfs` | small volumes and request sets |
| `GemdosRead`, `MCGemdosRead` | the read half of the library in the cart over `KfsServe`'s disk |
| `GemdosReadProofs` | the theorems about `GemdosRead` |
| `GemdosWrite` | the write half, with the host's answer inside the step that asks |
| `SaveFile` | abstract: an open file is an image of its own, and `Fclose` commits it whole or not at all |
| `MCGemdosWrite` | a small instance |
| `GemdosWriteProofs` | the theorems about `GemdosWrite`, the refinement of `SaveFile` among them |
| `CartSwap`, `MCCartSwap` | the page's swaps of the running cart, cut at each `await`; two channels, the menu, a power-on disk, a visitor's disk, one key |
| `CartSwapProofs` | the theorems about `CartSwap` |
| `SongBridge`, `MCSongBridge` | the page's songs, SNDH calls and effects |
| `SongBridgeProofs` | the theorems about `SongBridge` |
| `OpQueue` | abstract: what a program may expect of the blitter, a queue of ops each with its words |
| `BlitQueue`, `MCBlitQueue` | the library's lists, `hwBlit` and CHISEL |
| `BlitQueueProofs` | the theorems about `BlitQueue`, the refinement of `OpQueue` among them |
| `FileCall` | abstract: what a cart may rely on when it calls `env.kosFileOp` and `env.kosDriveRead` |
| `FileBlock`, `MCFileBlock` | the firmware and glass over the two request blocks |
| `FileBlockProofs` | the theorems about `FileBlock` |

`Kfs` implements `FileStore`, `GemdosWrite` implements `SaveFile`, `BlitQueue` implements
`OpQueue`, `FileBlock` implements `FileCall`; each is a PROPERTY of a run. `GemdosRead` composes
the cart with the host: its requests are served by `KfsServe`, the operators that `Kfs` cuts by the
power. `Kfs` and `GemdosWrite` meet in
the temporary file: `Takes` and `Refuses` of `GemdosWrite` are the answers to
`ServeWrite`, seen from the cart.

### 2.1 KfsDisk, KfsServe and Kfs

State and code:

| Model | Code |
|---|---|
| `disk.fat`, `disk.data`, `disk.fsinfo` | the image's sectors (`kfs_fat.Disk`), FSInfo's free count |
| `todo` | the sector writes of the request in service that have not reached the device |
| `served`, `gen` | the request in `kfs.Server.serve` and the answer it will get; `Server.gen` |
| `powered`, `cuts` | (external) the power |
| `files` | history: what the paths name; while a request is served, what they named when it came |

`Request(q)` is the whole of `Server.serve`: it computes the course of the request
by running the handler on the disk, each helper reading what the earlier ones
wrote. `Write` lets the device take the next sector; after the last one `Reply` answers
the request, and `gen` moves if it succeeded. `Cut` takes the power before the next
sector, or before the answer; `Fsck` is the repair that `docs/KOS_GEMDOS_WRITES.md` expects (lost clusters
freed, FAT 1 copied over the others) and can only happen if that repair is all the
disk needs. Requests are not interleaved with each other, because the code answers
one before it returns.

Data abstracted: a cluster is one sector and file sizes count clusters; a folder's
cluster has three slots (16 in the code); a long name is one marker slot; C:\ is a
cluster folder (KOS mounts a folder, `HD`, as C:\). FAT12/16 entries, which take two
byte writes, are in `KfsDisk` (`Torn`, chosen by `WholeEntries`), and no run uses
them: what fsck.fat makes of a half-written entry is outside the model. The theorems
of section 4.6 hold of them too. A slot in the writer's hands is a record as in the code (`kd.Slot`: its index, its sector, its
32 bytes): `Found` looks one up, `WriteSlot` puts it back where it was found, whatever happened to the sector in between. A loop of
the code is a recursive function over its rounds (`freed`, `killed`, `put`, `linked`). A walk (`Chain`)
that meets a free cluster is the code's `error.Corrupt` (`fat.zig:131`), as is one that does not end.

Properties, beyond the shape (`TypeOK`):

- `ChainsSound`: after **every** sector write, each live entry's chain is inside the
  volume, free of free clusters, ends, and is as long as the entry's size.
- `RepairSuffices`: whatever a cut leaves, lost clusters and differing FAT copies are
  all that is wrong (`kfs_fat.zig:9-10`), unless the request was a move between folders. Without that
  exception it is `RepairAlwaysSuffices`, which fails (section 5, 4).
- `CleanWhenIdle`: between requests, refused ones included, fsck has nothing to say.
- `FsinfoHonest`: the stated free count is right, or "unknown".
- `Implements`: `FileStore`. There a request is asked (`Ask`), which fixes an answer it may get: an error if a rule of
  the request is broken, `ok` otherwise, or for want of space an error all the same. `Reply` then makes the change of
  *that* request if the answer is `ok`, and none if it is an error, save that a refused first chunk of a save has emptied or
  removed its temporary file. Only a `Cut`, which needs a request in service, may leave anything else: the state before or after it; in a save,
  any content of the temporary file; in the commit of a save that would have been answered `ok`, the window between the two directory
  sectors, with the new bytes under the temporary name and nothing under the file's; in a move between folders that would
  have been answered `ok`, both names. A `Repair` changes no file. `served` and `powered` of `Kfs` are the same
  variables, so a save that is answered `ok` and has done nothing, a refused one that has done all, or a crash
  state with no cut, is a violation.

### 2.2 GemdosWrite

State: `Dos.files`/`Dos.wfiles` by handle (`open`, `path`, `pos`, `size`, `boff`, `blen`,
`sent`, `failed`), the buffer (`wbuf`, `wowner`), the host's temporary files and files
(`temp`, `tlen`, `store`), and the locals of the one `Fwrite` that runs. Each call is an
action; `Fwrite` is a loop, with a step for `take` (which may flush another handle's
bytes, or its own) and a step for the copy. `Flush` is `flush`/`close`: nothing to send, a request
taken, or one refused; a refused first request may leave an emptied temporary file or
none, which is what KFS can leave. `Restart` is a cart swap at any point, in the middle
of an `Fwrite` too: the cart's memory is new, the host's files stay.

Properties:

- `BufferSound`: every byte that a live file was given is at the host or in the buffer,
  with no hole between them, and the position is inside the file.
- `FailsForTheHost`: the library never sends a request out of order or out of range.
- `Implements`: `SaveFile`, with the image of an open file mapped to the temporary file with
  the buffer laid over it.
- `FwriteReturns`: an `Fwrite` comes back.

### 2.3 CartSwap

JavaScript runs an async function from one `await` to the next without a break, so that is
what a step is. A call that waits is a record in `task`, and its `at` says for what:

| `at` | waiting in | resumed by |
|---|---|---|
| `list`, `tune` | `changeChannel`, `tuneToChannel`, for `channels.json` (no swap yet) | `Listed`, `Tuned` |
| `file` | `bootUserFile`, for the visitor's file | `File` |
| `mount` | `mountDisk`, for the disk's image | `Mount` |
| `gem` | the fetch of `demo-gem.wasm` | `Gem` |
| `link` | `WebAssembly.instantiate` | `Link`: `Boots`, `BootTraps`, `LinkFails`, `NotACart` |

Whatever is waited for may fail, which leads to `Fails`: `swapCart`'s `catch` and `finally`, or
`bootUserFile`'s, which puts the disk back and starts another swap. `CartRequest` is a frame in
which the cart's `pollCartRequest` answers something (which program asks for what:
`demo_main.zig`, `Asks`), `Trap` one in which it throws. `KeyDown`, `KeyUp`, `Blur`, `Insert`,
`Eject` are the listeners and `kosMedia`.

| Model | Code |
|---|---|
| `swapping`, `trapped`, `bad`, `currentTag`, `mounted`, `heldDirs` | `swapping`, `cartTrapped`, `badCarts`, `currentTag`, `mountedDisk`, `heldDirs` and `heldKeys` |
| `demo` | which program the exports belong to, and for the POST `kosDrive`, which nobody else reads; `home` is history |
| `window` | whether the cart RAM still holds what `demo` left there (`unpackCart`) |
| `lost`, `pressed`, `blind` | history: a failed swap took the window; the keys as the running cart sees them; those of them that `releaseAll` dropped unreleased |

Properties:

- `OneSwap`: the guard is set exactly while a swap or an upload is under way, and there is
  never a second one, though most callers wait for something between their test and the swap.
- `WindowOwned`: whoever asks first whether the cart may be called never calls it while the next one is
  being put in its memory. After a *failed* swap it may be (section 5, 1), hence `lost`.
- `KeysKnown`: no swap, failed or not, makes the page forget a key that the cart takes to be down.
  A loss of focus during a swap does (section 5), hence `blind`.
- `TagFits`: `currentTag` is the channel the running cart came with. A cart that trapped in its
  `boot()` is left aside: it runs, and is not what `currentTag` says.
- `SwapEnds`: the guard is released on every path.

### 2.4 GemdosRead

One drive, A or C, of a cart. A sector is a cluster, so a file's position counts sectors.

| Model | Code |
|---|---|
| `disk` | the image: for C the host's, which `KfsServe` edits; for A the floppy that is in |
| `mem.sector`, `mem.buf` | `Volume.buf_sector`, `Volume.buf`, the one sector the volume holds |
| `mem.runs`, `mem.victim` | `Drive.cache`, `first`, `count`, `victim` |
| `state`, `top`, `cwd` | `Drive.state`, `top`, `cwd` and `depth` |
| `file` | `Dos.files`: entry, position, and the cluster remembered with its index |
| `dta` | the search: folder, slot, attributes |
| `up` | (external) the backend answers |
| `orig`, `seen`, `new` | history: what an open file held and whether it is still there; what the search must find and has found; another floppy is in and the program has not told GEMDOS |

Each call is an action that runs the whole handler: the mount if the drive is unknown, every sector fetched
through buffer, runs and backend, up to an error. `Write` is a call that changes C: it looks, as
`gemdos_wops.resolve` does, and if the look finds no fault the host changes the disk and the drive
forgets its runs and its mount, but *not* the volume's buffer. `PutIn` and `MediaChange` are the floppy and
`mediaChangeA`; `Break` and `Mend` the backend.

Properties. They are about what the program's *next* call would answer, in every state:

- `LooksAfresh`: a path is looked up on the disk as it is now, after the program's own requests and after
  a media change it has told of, and fails only with the backend.
- `HandleReads`: `Fread` answers the bytes the file had when it was opened while that file is on the disk
  (of drive A, until another floppy is in, which nothing in the program writes),
  whatever was saved, renamed and deleted around it. This is the delicate one: `Fread` does not call
  `ready()`, so it goes on with the volume's buffer of *before* the write. "The cache and the volume are read
  afresh at the next use" (`gemdos_drive.zig:58-59`) is therefore not true of `Fread`; it does no harm because a
  write never moves a cluster of a file that stays, which is what the property says.
- `SearchFinds`: `Fsfirst`/`Fsnext` find each entry that stays in its slot, once, whatever the program
  deletes, renames and saves between.

Seen and not stated as properties: an `Fread` that fails half way has moved the position on; C: that failed to
mount once stays absent until something is written or, for A:, the medium changes.

### 2.5 SongBridge

One action is one task of the page's event loop with the promise jobs it leads to, as nothing can come between:
`Frame` (the pump: a song request, the calls, the effects), `FetchEnds`, `LoadEnds` and `BootEnds` (the two waits of
`startAudio`), `SoundOn`, `SoundOff`, `InstantiateCart`. A task builds its outcome in steps, from a record of the bridge's state.

| Model | Code |
|---|---|
| `audio` | `audioCtx` and `audioNode`: neither, a context that has no node yet, a node, or a second node made by another start in the same context |
| `starts` | the runs of `startAudio`, one for each `audioReady`: its files or its worklet's `addModule` awaited, its worklet made and not yet `ready`, resolved, rejected |
| `reqs` | the requests by generation (`songGen` is their number): what was asked, for which start it waits, and whether it is being fetched, has ended or failed |
| `resident`, `songPosted` | `sndhResident`'s `gen`; whose load the promise `songPosted` is of |
| `sfxChain`, `calls` | the messages that wait on the chain, in order, each with the load it waits for; how many calls wait for the image of each request |
| `wire` | what was posted to the worklet since it was made: it handles messages in order, and what it plays is not modelled |

A frame makes any number of calls of one name and hands over one batch of effects; a song's name may be `"refused"` (a Paula cart's own stream, a path outside).
Promise jobs are written out in closed form: which calls' loads are settled, and how much of the chain that lets go.

A start of the audio need not succeed. While it loads, it may throw (`StartFails`: a file that does not come, or an `audioCtx` that
`main()` has closed meanwhile), and the songs that wait for it fail with it. Once its worklet is made, only the worklet's "ready" lets it go on
(`sealed-loader.js:1159-1162`): a worklet that answers "error", or is closed by Sound off before its "ready" came, leaves it "booting" for
ever. `SoundOff` is `main()` with a context, started or starting. Sound turned off and on while the first start still loads makes two starts that share the globals `audioCtx` and `audioNode`:
each may make a node in the one context (`"doubled"`).

Properties: `SlowSongNeverLast` (a song by name never starts over one asked for later, nor after a stop, nor over a song
image the cart held itself), `EffectsInOrder`, `EffectAfterLoad` (an effect waits for the .mod, .xm or .kt before it), `CallAfterLoad` (a
call into an SNDH arrives after its image or not at all; not claimed of two nodes, where the load went to the one and the
call goes to the other), `EffectsSent` (liveness: a failed load, a start that throws or sound turned off does not block the chain. It is blocked
only behind a song that waits for a worklet which never says "ready", `Stuck`, and then for good: section 5).

Seen and not stated: song bytes that wait on the chain behind a slow .mod start over a song requested meanwhile
(`sealed-loader.js:1445`); `instantiateCart`'s reset (`:422`) does not step `songGen`, so songs and effects of the cart that is gone are
still played after it (in the model the reset carries generation 0); a failed SNDH fetch leaves the resident name, so later calls are dropped.

Left out: a page without `AudioWorklet` (an insecure one: no sound at all), and the moment between `main()`'s `audioCtx.close()` and the globals' reset, which
here are one step.

### 2.6 OpQueue and BlitQueue

`BlitQueue` has the cart's half of the queue (`Op`, `Fill`, `kick`, `flush`, `hwBlit` and stores to the block) and the
engine's: on the board CHISEL's firmware with its copy of the block, the lazy wait and the cache sweep that
is put off to the next list, in the browser the machine that works at once. A descriptor is a partial function from words to values;
a half is the words it opens with and its ops; the content of a half is dropped when its list ends, so a stale read would show. Left
out: `COMMAND`, pixels, the refusal of an op outside the planes, Q ranges that the library never makes.

A value has an upper and a lower half, since `keep()` cuts words 3 and 5 to the lower one although a blitter reads both (`U_MASK`, `V_MASK`): those are
`Narrow`. Anyone may store to any word of the block at any time. `OpQueue` says exactly what an op then sees, and knows no
lists or halves: each op with its own words and those of the ops before it since the kick, whole; what was given before that kick,
as far as it is kept, if the block held something else when the first op was queued after it (`Restated`); and for any other
word the block as it is at the kick. The documented contract, that *every* word given is seen "whatever the block holds", is stronger. That
is `WordsKept`, which fails (section 5, 3).

Properties: `HalvesApart` (the CPU never writes what the engine reads), `NothingStale` (no engine reads
memory that the data cache still holds), `PendingKnown` (the library's `pending` is the engine's), `GoWhenIdle`
(no GO while the engine works), `Implements` (`OpQueue`: every op once, in order, with exactly those words), `HwBlitReturns` (liveness).

### 2.7 FileCall and FileBlock

The firmware writes a block word by word, magic last, and spins; glass's one thread polls the two blocks in turn, copies,
takes, serves, flushes, answers, acknowledges, each a step. A header is copied in one step: a torn copy is
refused by the check word (a coincidence of the XOR is ignored). Sequence numbers never
wrap. `serves` says whether there is a glass, and one with file requests. A deadline may
pass at any time, at most `MaxLate` times while glass is there; where it is not, it does pass. What a request does to the card is
an entry in the log `ran`, `disk` and `raw` say how much of it the card and the raw reader's cached sectors show. A cart load (`Restart(TRUE)`) zeroes
the window, a reset leaves it.

The protocol has two holes, and nothing in the model closes them: a restarted cart may call at once, and a deadline or a restart may come at any
time. History tells which calls fell into one (`flaw`):

- *crossed*: when the call was made, glass was serving, at its block, a call of the same number from before a restart (`g_seq` starts
  from 0 at every load and reset, `bkosfile.c:26`, `bkosdrive.c`). Glass's late answer to the old one may be taken for the new one's.
- *torn*: the firmware gave the call up after glass had looked at the block and before glass had copied the bytes (250 ms for KF_TAKEN
  that pass between `kos_file.zig:56` and `:63`, or 10 s between the KF_TAKEN and the copy). The call is told EWRPRO or EWRITF, and glass
  still writes, maybe with bytes that the cart has changed by then.

The properties are of the calls that are neither, over any number of restarts and deadlines; what the documents claim of *all* calls is
`AnswersTrue`, which fails (section 5, 5). `FileCall` likewise has an answer that tells nothing (`unsure`), which only a crossed or torn call is
given; even of these it promises that the card is changed at most once a call.

`Flush` drops the raw reader's cache after every request that reaches it. A request refused by `kos_file.zig` before it runs anything takes the other branch of
`Serve`, past it; nothing was written, so it makes no difference.

Properties: `OwnAnswer` (an answer is glass's to that very call), `ReadsSeeWrites` (a sector read shows every write answered before it), `GenTold` (the
generation told with a write is past every earlier one), `KeepsPromise` (`FileCall`), `CallsReturn` (liveness).

## 3. Runs

| Run | Instance | Shows |
|---|---|---|
| `kfs` | 6 clusters, 2 FATs, 2 files, folders `D`, `E` and `D\E`, 2 handles, chunks of 1 or 2 clusters, 2 answered requests and any number of refused ones, 1 cut, from a disk with one file, one with a folder, one with a save half done, one with nested folders; about 300,000 states | saves, chunked and interleaved over two temporary files, aborted, refused for lack of space, deleted; folders made, moved, removed; files moved and saved into them; each of them cut |
| `gemdos_write` | 2 handles on one path, buffer of 2 bytes, files up to 3 bytes, 6 calls; about 475,000 states | sharing of the buffer, seeks, failures, restarts; liveness |
| `drive_read` | 7 clusters, a C: with two files and two floppies, 1 open file and 1 search, 2 runs of 2 sectors, 2 writes, media changes or failures; about 175,000 states | what a look, a read and a search see after the disk changed under them |
| `cart_swap` | 2 waiting calls, a channel that is a data disk and one with a boot sector, the menu's plain cart, a power-on disk whose sector hands over to the desktop, 1 key; about 1,330,000 states | swaps, uploads, media changes, keys and focus in any order; liveness |
| `blit_queue` | 2 words, one of them narrow, 6 ring words to a half (the opening and two or three ops), board and browser; about 1,045,000 states | lists, kicks, flushes, direct ops and stores to the block in any order against CHISEL; liveness |
| `file_block` | 3 calls, 1 restart, 2 late deadlines, with and without a glass; about 1,313,000 states | requests of both kinds against deadlines and restarts; liveness |
| `song_bridge` | a `.mod` and an `.sndh`, 3 requests, 2 calls, effects, samples or song images, 1 new cart or turn of the sound off; about 693,000 states | fetches in any order, failures, another cart, starts of the audio that go on, fail or never are ready; liveness |
| `cart_window`, `song_effect`, `blit_keep`, `kfs_move`, `file_promise` | as above; `song_effect` with a `.hip` and no breaks, `kfs_move` with the moves only, `file_promise` with 2 calls | the five disagreements of section 5 |

Why the bounds suffice. In `kfs` the root folder of three of the four disks has room for one more entry or none, so that a
new name makes it grow by a cluster and puts two entries in different sectors; 6
clusters are few enough that the disk fills within two requests, and the
search for free clusters wraps round. A file of two clusters has a first, a
last and a link between them. Two answered requests are the two chunks of a save, or two saves, or a change and what it
makes possible; the disk with the half-done save adds the request before them, so that a save in two chunks has
another between. Refused requests that change nothing do not count.
One cut and its repair, with requests before and after. In `gemdos_write` a buffer of
two bytes and an `Fwrite` of up to three covers a buffer that is not full, just full and
overrun; files of three bytes a seek before, inside and behind what is buffered;
six calls are two creates, two writes, a seek and a close. Both handles save to the
same path, the harder case.

In `drive_read` a run has two sectors and the cache two, so that runs overlap, are evicted and end near the
disk's end; a file lies in two clusters that do not follow each other, another in two that do; reads of one and
two sectors, aligned or not, take both ways of `File.read`. Two changes are a write and another, or a
write and a failure; between them any number of calls.

`cart_swap` has no bound but `Tasks` and `PowerOn`: behaviours are of any length. Two waiting
calls are one swap under way and one that wants to start; the guard's test before and
after a wait needs no third, which would be refused for the same reason as the second. The
four disks are the four kinds `parseDisk` tells apart.

In `blit_queue` a half holds two or three ops, so that the next makes the library kick by itself, and behaviours are long enough for each half to be
used twice. In `file_block` three calls are one that times out, one that meets its late answer and one
after them; one restart lies before, among or behind them, in the middle of a call or between two, and calls on both of its sides may have
the same number. In `song_bridge` three requests are a slow song, a newer one and a
stop or a third; one turn of the sound off is enough for two starts of the audio, of which the first is still
loading, waits for its worklet, or is done.

Deadlock is not checked (`CHECK_DEADLOCK FALSE`) where behaviours are bounded by a count of calls, requests or cuts and simply end;
in `Kfs` a disk that the repair does not suffice for stops too, which is what `RepairSuffices` excludes.

Fairness. `Kfs` and `GemdosRead` have none and no liveness is claimed for them. `GemdosWrite` has
`WF_vars(Loop)`: an `Fwrite` that has been called goes on, since it runs
in the cart's own thread of control and every request is answered within the call. Nothing
is assumed of the program: it need not make another call.
`CartSwap` has `WF_vars(Resume(t))` for each call in a swap or an upload: a file read, a fetch and
a compilation end, well or badly, and the browser then resumes the function. Nothing is assumed of
`list` and `tune`, which hold no guard, of the visitor or of the cart. `SongBridge` likewise assumes that a song's
fetch ends and that the loading of the audio's files does (`WF` of `FetchEnds` and `LoadEnds`). Nothing is assumed of `BootEnds`: the worklet need never say that it is
ready, and `EffectsSent` says so.
`BlitQueue` assumes that the engine works and that a call into the library goes on; `FileBlock` that the
firmware's spin loop and glass's thread run, and, where nobody serves a block, that the firmware's clock does.

Every property of a passing run is broken by a mutant of a definition (`PROJECT.json`,
`mutants`): an operator, next to the one it replaces, with a bug that the code might have
had: clusters freed before the entry goes, a full buffer not noticed, and so on.

## 4. Proofs

### 4.1 GemdosWrite

All for any number of handles, any sizes of buffer and file, any set of bytes,
from `GemdosWriteAssumption` only (the shapes of the constants).

- `TypeCorrect`: `Spec => []TypeOK`. The copy stays in the buffer.
- `BufferAlwaysSound`: `Spec => []BufferSound`.
- `NeverOutOfOrder`: `Spec => []FailsForTheHost`.
- `SavesAreWhole`: `Spec => Implements`, that is, `GemdosWrite` implements `SaveFile`.

The inductive invariant is `Inv == TypeOK /\ BufferSound`. `FailsForTheHost` and the
refinement are not inductive: that an offset is in range needs to know that the buffer's
bytes begin at or before the end of the bytes at the host, for *every* live handle
(`Accounted`), since a `Take` by one handle flushes another; and that a `Copy` fits needs
to know what `Take` left (`LoopSound`). `Accounted` says of the
buffer's owner that `boff` is inside the temporary file and `size` is the end of the file
that a flush would leave; of every other live handle that it has nothing buffered and `size` is the
temporary file's length; and that behind its end the temporary file holds nothing, without
which the mapped image would not be determined by what was written. `InvNext` has one lemma per action; `FlushOthers` and `FlushSelf` are
what a flush does to a live handle that is not, and one that is, the one flushed.

The refinement maps `image` to `Laid(i)` (temporary file with buffer over it) for a live
handle, blank for one that is closed or failed. `Fcreate`, `Fwrite`, `Fseek`, `Fclose`, `Fdelete`, `Return` and `Restart` map to
their namesakes, `Copy` to `Put`, `Take` to a stutter (the bytes only move) or, if its flush is refused, to `Fail`
of the handle flushed, which may be another than the one that writes.

### 4.2 CartSwap

For any number of waiting calls, any channels, kinds of disk and keys, from `CartSwapAssumption`:
`TypeCorrect`, `OneSwapAtATime`, `WindowAlwaysOwned`, `KeysAlwaysKnown`, `TagAlwaysFits`, that is, all
the invariants of `cart_swap`.

The inductive invariant `Inv` adds to `TypeOK`, `OneSwap` and `TagFits`:

- `OwnUrl`, `TuneUrl`: a call that is no upload has a disk of the page's own for its url, one that is
  tuning a channel. Without it a step could remember a visitor's disk as bad, or make it `currentTag`.
- `WindowTracked`: a window that is taken was lost or is being linked *at this moment*.
  `WindowOwned` speaks of callable carts only, and says nothing of what an upload that is refused
  will leave when it lowers the guard.
- `KeysTracked`: `KeysKnown` without its guard, since it must hold through the swap to hold after it.

Most of the argument is about one call that is the only one swapping (`Only(t)`): it may go on waiting
(`AwaitsGuard`) or end (`OverGuard`), and each stretch of code between two awaits does one or
the other. The calls that wait without the guard (`UnguardedGuard`) cannot disturb it. On top of
these are lemmas for the parts that several actions share (`FailsInv`, `UnpackInv`,
`SwapCartInv`) and one per action.

### 4.3 BlitQueue

For any words, values, sizes of the halves and numbers of ops: `TypeCorrect`, `HalvesNeverMeet` (`HalvesApart`),
`NeverStale` (`NothingStale`), `PendingTold` (`PendingKnown`) and `NeverDropped` (`GoWhenIdle`). The inductive
invariant says for each place in the code where the library or the firmware is which half is open, which half the engine has, and what it
has been told; one lemma per action.

`ImplementsOpQueue` (`Implements`): `BlitQueue` implements `OpQueue`, with no assumption but the shapes of the constants: whoever stores to the
block and whenever, and whichever words are kept by half. On top of `Inv` stands `Data`, which says how the words each op must see come about, without looking
back over the whole list:

- `OwnSound`: what the library owns is what the cart has given, cut to the halves kept.
- `ListSound` of the open list: the words an op must see are its descriptor laid over those of the op before it, or
  for the first one over the list's opening. A kick lays the block under all of them, and since laying over is associative (`OverOver`) the
  equations stand as they were.
- `OpenSound`: what was stated since the kick (`held`) is what the last op put must see.
- `DoingSound`: the same equations for the list that runs, with the blitter's working copy in the place of the oldest op's predecessor.

A draw then answers for the next op only, and an op that is put for its predecessor only; that the first op put after a kick is the one that
opens a list is `StatedBy`. In the refinement a put is `Give`, the GO of a list is `Kick`, that of an op is `Direct`, and `flush()`'s return is `Flushed`.

### 4.4 FileBlock

For any number of calls, restarts and late deadlines, whenever they come: `TypeCorrect`,
`TakesOwnAnswer` (`OwnAnswer`), `ReadsShowWrites` (`ReadsSeeWrites`), `TellsGen` (`GenTold`), and
`ImplementsFileCall` (`KeepsPromise`): the two blocks implement `FileCall`. What the first three say, they say of calls that are not crossed (2.7); what goes wrong
with the others is in no theorem's way, but must be told apart in every step.

`Inv` has two parts. `Sound` says who has which request, and is inductive by itself:

- `CallerSound`: the firmware waits for one call, the last, and its block carries that call's sequence number.
- `Held`: a whole block holds a call of its own kind; if it can still be copied, that call waits or its machine was
  restarted (this is where a withdrawn magic matters); if its call was carried out, the block is acknowledged or glass is at it.
- `Serving`: what glass has copied is not carried out twice, and what it answered is in the block
  before the acknowledgement.
- `Told`: an acknowledgement that the firmware accepts is of the call it waits for. A sequence number that
  fits and is an older boot's means that the call was crossed when it was made.

`Shown` and `Counted` stand on it: what the card and the raw reader's cache hold of the log when an answer is
given, and what the generation word was when it was told. One lemma per action says what it does field by
field (`CopyIs`, `FlushIs`, ...), one that it keeps `Sound`. In the refinement `Issue` is `Ask`, `Serve` and `Read` are `Do`,
`TakeAnswer`, `GiveUp` and a restart under a call are `Return`, the rest stutters.

### 4.5 SongBridge

For any numbers of requests, calls, effects and new carts, from `BoundsAssumption` only: `TypeCorrect`, `SlowNeverOver`
(`SlowSongNeverLast`), `EffectsKeepOrder` (`EffectsInOrder`), `EffectsAfterLoads` (`EffectAfterLoad`) and `CallsAfterLoads`
(`CallAfterLoad`), that is, all the invariants of `song_bridge`.

None of the four is inductive, since each speaks only of what is on the wire and the steps put there what has
waited on the chain. `IInv` therefore relates the three places a song or an effect can be: a request, the chain, the wire.

- `ResidentOK`, `CallsOK`: the song that may be called is the newest request, an SNDH's, and once its fetch has ended well
  the worklet has it; a call waits for a request that was made, with the same promise.
- `StartsOK`, `Pending`, `Silent`: a context was made by some start; a request that waits for the audio waits for a start that goes on; without a node nothing is on
  the wire.
- `WireOK`: a load that an effect on the wire had to wait for is settled.
- `ChainUp`, `WireThenChain`, `WireUp`: the commands' numbers rise along the wire, along the chain, and from the one to the other.
- `PostedOK`, `ChainOK`: an effect waits for a `.mod`, `.xm` or `.kt`; nothing on the chain is a song by name or a call.
- `HeadWaits`, `CallsWait`: between tasks the chain's head waits for a load under way, and so does every call that is kept.

The last two do not hold in the middle of a task: a fetch ends, and only the promise jobs behind it let the chain
go. So `IInv` is split into `Mid`, which each step of a task keeps (`GrowsMid` for requests made or ended, `SendsMid` for messages
posted, `JoinsMid` and `LeavesMid` for the chain, and on top of these the songs, calls, batches and ends of fetches), and the
two that `JobsSound` brings back at the end of the task.

### 4.6 Kfs

For any volume (any number of clusters, FAT12/16 or FAT32 entries, one FAT or two, any slots in a cluster), any requests,
any bounds, from `KfsDiskAssumption` and what `Kfs` assumes of its inputs: a path has a name in it, and the first disk is a
well-formed one that fsck has nothing to say about.

- `TypeCorrect`: `Spec => []TypeOK`.
- `FsinfoStaysHonest`: `Spec => []FsinfoHonest`.
- `CopiesStayClose`: `Spec => []CopiesClose`. At a cut the copies of the FAT differ in one cluster's entry at most, and between
  requests in none: whichever copy a repair believes, it decides one entry. `CopiesClose` is in no run of its own.

The hard part is not the machine but the courses, since `Serve` runs a whole handler in one step. `Course(cs)` says that every
disk of a course is well-formed and that, behind the first, FSInfo states nothing and the copies of the FAT differ in one entry at
most; `Rest(cs)` that the course could end here, the copies alike. There is one lemma per helper, from
`SetRest` (an entry set in every copy; only inside it is a course not at rest: `Setting`), `SlotRest`, `FreeChainRest`, `AddRest`, `KillRest`, `WriteAtRest` and
`CommitRest` up to `ServeRest` for any request. A helper that loops needs an argument on its
rounds. The library's induction takes an operator, so it is made with sets: `Rounds`, from the well-foundedness of < on the naturals
(a set that holds 0 and passes on from round to round holds the last one). It shows first that the recursive function exists, then
that every round is at rest.

The inductive invariant `KInv` is what a course leaves to the steps between: the disk now and the disks of `todo` have their
shape, `todo` ends alike, somebody is served while there is a write to come, and a disk that states a count is clean. The last is what makes `FsinfoHonest` inductive: a cut
before a request's first write is followed by a repair of a disk that states a count, and the repair of a clean disk
changes no entry (`RepairedIs`). TLC has checked `KInv` and `CopiesClose` on the instance of `kfs`.

The lemmas of the courses are in `KfsServeProofs`, without a variable, since `GemdosRead` asks the same server.

### 4.7 GemdosRead

For any volume as in 4.6, any size of a run, of the cache and of a request, any numbers of handles, any paths that a program may
give, any requests and any disks in the drive that are well-formed and as a machine is handed them (`DisksAssumption`: the
folders end, no name is twice in a folder, files are as long as they say):

- `GemdosReadInvariant`: `Spec => []IInv`.
- `LooksTrueAlways`: a look that answers, answers what the disk in the drive says, on either drive and after any writes.
- `LooksAfreshAlways`: `LooksAfresh` wherever the disk's folders end (`FoldersEnd`): a look fails only with the backend.
- `DriveALooks`, `DriveAHandles`, `DriveASearches`: `LooksAfresh`, `HandleReads` and `SearchFinds` of drive A, whatever
  floppies are put in, whenever the program tells of it, and whatever the backend fails at.

The memory of a drive is described by pairs of a sector's number and what it holds. `Within(m, B, R)`: the volume's buffer
is one of the pairs in `B`, and the runs of the cache are made of pairs in `R`. A helper of the read half keeps `Within` for any
`B` and `R` between which the disk now lies (`Trusted`), so each helper is looked at once and used twice: with all pairs that some disk could
have (`Sectors`) it gives the shapes, after a write or a floppy the program has not told of, and with the pairs of the disk now
(`Current`) it gives the freshness. The invariant `IInv` has three parts:

- `TypeOK`.
- `Coherent`, of both drives: unless another disk is in untold, the runs are of the disk now; if the drive is mounted, so are the volume's buffer and the
  top folder. After a write the runs and the mount are gone and the buffer may be old: a look begins by mounting, and the mount drops the buffer.
- `DriveA`: a live handle is of a file that is whole, and its remembered cluster is the one its remembered index says (`HandleSound`); a
  search stands in its folder, and of what it must find it has found exactly what lies in front of it (`SearchSound`).

What the loops of the code do is said by one lemma each, about the recursive function that stands for it: `DirSectorIs`, `NextEntryIs`,
`WalkIs`, `WalkedIs`, `StraightIs`, `ReadOnIs`. All loops have one form (`Runs`), and `Loop` and `LastRound` show, as `Rounds` does in 4.6,
that the function exists and what holds of its last round. A look that comes to its end in an error may stop anywhere; that it does not without the backend's
fault needs the folder's chain to end within the disk, hence `FoldersEnd`. TLC has checked `IInv` on the instance of `drive_read`.

### 4.8 Not proved

Only model-checked:

- Liveness (`FwriteReturns`, `SwapEnds`, `HwBlitReturns`, `CallsReturn`, `EffectsSent`), which is out of the prover's reach under fairness.
- `ChainsSound`, `RepairSuffices`, `CleanWhenIdle` and `Implements` of `Kfs`. They speak of all the chains of a tree at once, so that
  every edit would have to be shown to leave every other chain as it is; the tree itself is found by recursion (`FoldersOf`).
  `ChainsSound` is moreover false of a save to a temporary file's name (section 5), so a theorem needs requests that name none.
- `HandleReads` and `SearchFinds` of drive C, and that `FoldersEnd` stays true of it: there the program's own writes change the disk under handles and searches, and the
  proof would need, of every course, that it leaves the chains and slots it was not asked about as they are: the same facts that `ChainsSound` is made of.

## 5. Where the code and its documents disagree

Each of these is a run that ends in the counterexample.

1. **A failed swap and the old cart's memory** (`cart_window`). `unpackCart` writes the next cart over the
   running one's RAM (`sealed-loader.js:401`) before it is known to link; `swapCart`'s `catch` says "The
   running cart keeps going" and it does, in that memory. `bootUserFile` handles the same failure by starting another.
2. **An effect before its SNDH** (`song_effect`). An effect asked for after an `.sndh`, `.sap`, `.hip`, `.ymraw` or `.raw` song does not
   wait for it (`sealed-loader.js:1390`): only `.mod`, `.xm` and `.kt` loads are put on the chain.
3. **Words that are not kept** (`blit_keep`). "The words set() and the ops gave are kept from list to list [...] whatever the block holds"
   (`blit_queue.zig:19-21`). A new list restates words 3 and 5 without their upper halves
   (`blit_list.zig:26`), so that a word whose upper half is not 0 (`U_MASK`) changes from one list to the next. And it restates only what the block does not
   hold *when the list is opened* (`blit_list.zig:59`): with `Narrow = {}` the same run ends in a store to the block between the first op of
   a list and its kick, which the op then draws with.
4. **A move that is cut** (`kfs_move`). `rename` between folders adds the new entry before it deletes the old one
   (`kfs_ops.zig:115-116`). A cut between the two leaves two live entries on one chain, neither of the two kinds of damage that
   `kfs_fat.zig:9-10` and `docs/KOS_GEMDOS_WRITES.md` section 5 name, and not what that repair cures. `FileStore` admits it.
5. **A refused save that is written** (`file_promise`). The 250 ms for KF_TAKEN may pass between glass's look at the magic and its KF_TAKEN: the cart is told
   EWRPRO, of which `bkosfile.c:69` says "nothing was written", and glass writes. With `MaxLate = 0` the same run ends in the other hole: `g_seq` starts from 0 at
   a restart, and a call takes the answer to an older call of its number ("the firmware takes only the answer to its own request", `test_kos_file.py:3`).

Seen while modelling and in no run:

- **A program's file with a temporary file's name.** `kfs_path` accepts
  `~KOS0.TMP` as a path. A save to it through handle 0, made twice, looks up
  the old file (`kfs_ops.zig:46`), deletes it as the stale temporary file (`:50`), gives
  its slot and clusters to the new one, and then frees "the old file's" clusters (`:74`), now the
  new file's. The requests of `kfs` name no temporary file; with `ChainsSound` and `Requests <- TempNameRequests` in `MCKfsMove.cfg` TLC finds it.
- **A worklet that is never ready.** "error" from the worklet, or Sound off before its "ready", leaves `startAudio` pending
  (`sealed-loader.js:1159-1162`). A `.mod` asked for meanwhile never settles, and every effect after it waits on `sfxChain`, even once the sound is on again.
  `EffectsSent` without `[]Stuck` fails in that.
- **Two starts in one context.** Sound off and on while the audio loads: the first start goes on with the second's context, and each makes an
  `AudioWorkletNode`; nobody posts to the earlier one any more, whatever it was playing.
- A save refused for lack of space has already changed the temporary file's entry, and `gen` has not
  moved (`kfs.zig:46`); when the first request of a save fails after KFS made the file, `Fclose` sends no abort (`gemdos_write.zig:101`); `releaseAll` empties its sets
  even if it may not call the cart (`sealed-loader.js:985`), so in a swap that then fails the old cart keeps a key down.

## 6. Not modelled

- Device errors (`error.Io`) inside KFS: the image is memory or a file in the hosts modelled.
- The checks of the request block's pointers (`kos-cfile.js`): a handler of its own, without state.
- FAT12/16's fixed root folder, clusters of several sectors, dates, attributes but read-only.
- `temp` in `GemdosWrite` is by slot: the files saved are in one folder, where the temporary name decides.
  A program that saves to a temporary name is excluded here; what becomes of it is in section 5 (`TempNameRequests` of `MCKfs`).
- In `CartSwap`: the desktop's flags, the name card, audio, a raw `?demo=` cart, a page that is still loading.
  A data disk is one of format v1; a v2 disk that is not executable differs only in what a
  chainload request, which its cart never makes, would do. Pointer and touch are held like keys.
- Everything that `PROJECT.json` lists as `not_modelled`, with its reason.
- In `GemdosRead`: both drives at once, several DTAs, handle slots taken by files being written (`GemdosWrite` has them), bytes inside a sector,
  FAT12/16's fixed root, `Fattrib`, `Dgetpath`, `Dsetdrv`.
- In `SongBridge`: the raw and the MP3 stream, a cart's claim of the Paula channels, a page without `AudioWorklet`, the wait for a context to close.
- In `FileBlock`: what a request does inside the card's tree; a check word that fits a torn block by chance.

## 7. Plan

Written in this order, the most important first; all but the last are done.

1. `KfsDisk`, `KfsServe`, `Kfs`, `FileStore`: the disk. Runs `kfs`, `kfs_move`. Proofs of its shape, FSInfo and the FAT copies.
2. `GemdosWrite`, `SaveFile` and their proofs.
3. `CartSwap` and its proofs.
4. `SongBridge` and its proofs.
5. `BlitQueue`, `OpQueue` and their proofs.
6. `FileBlock`, `FileCall` and their proofs.
7. `GemdosRead`.
8. `Arena`: mark, release and alloc against a reference definition.

The theorems wanted next: `ChainsSound` of `Kfs` for requests that name no temporary file, on the
lemmas of `KfsServeProofs`, and with it `HandleReads` and `SearchFinds` of drive C.
