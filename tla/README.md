# Verification of 9pfs

9pfs is a GNU Hurd translator: a multi-threaded server that answers the Hurd's file system RPCs (`dir_lookup`,
`io_read`, ...) by sending 9P requests over one connection to a remote 9P server.  This directory holds TLA+
models of its core, the TLC configurations that check them on small instances, and TLAPS proofs for all
instances.  `PROJECT.json` lists, for each definition, the source lines it models, and for each property the
run that checks it and a plausible bug in the code that it would catch.

To check a run: `tlc -config MCP9Rpc_safe.cfg MCP9Rpc`. To check the proofs: `tlapm P9RpcProofs.tla`, and
likewise for each module whose name ends in `Proofs`.

## 1. The system and its parts

Clients' messages arrive on Mach ports and are dispatched by libports, one thread per message, to the handlers
`S_*`.  Handlers share four kinds of objects and call `p9_rpc` (blocking) any number of times:

* a **node** (`struct node`): one per lookup, with a lock, a qid, a cached stat, a message size limit, an
  optional pager and its fid;
* a **peropen**: node, open flags, file offset, the root's qid path and the port of the root's parent; shared
  by the protids of one open;
* a **protid**: what a client's port names: user, peropen, `walk_fid` (never opened, for walking and
  attributes), `io_fid` (opened on demand), a directory read buffer;
* a **fid**: a 32-bit handle at the server, from a global counter; it exists from a successful
  `Tattach`/`Twalk` to `Tclunk`.

| Part | State | Operations | What makes it correct |
|---|---|---|---|
| RPC multiplexer, `9p-rpc.c` | `interest_table`, `next_tag`, `some_thread_is_reading`, both streams, `write_mutex` | `p9_rpc` = register, send, wait for header, read body, pass the token on | one reader; every caller gets its own reply; nobody is forgotten; requests leave whole |
| Path lookup, `dir-lookup.c` | locals of the call, fids at the server | walk in batches, create, retry, set up the protid | the path leads where its names lead; leaving the root is noticed; only live fids are used, none is left over |
| Fids, protids, opening: `9pfs.c` `p9_ensure_open`, `fsys-getroot.c`, `io-reauthenticate.c`, `file-sync.c`, `make-*`, `release-*` | `walk_fid`, `io_fid`, `server_open_flags` | attach, clone, open, reopen, release | no request on a dead fid, no double clunk, no leak; an I/O fid in use is open for it |
| Node references: `nref.c`, `nrele.c`, `nput.c` | hard and weak counts, node lock | reference, demote, drop | the node outlives its users and no longer |
| Directory changes: `dir-mkdir.c`, `dir-rmdir.c`, `dir-unlink.c`, `dir-rename.c` | a temporary fid | two or three requests each | the fid is clunked on every path; the right entry changes |
| Directory reading, `dir-readdir.c` | buffer, `next_entry`, `next_offset` | parse, rewind, read the next block | every entry once, in order, for any sequence of positions and buffer sizes |
| File I/O: `io-read.c`, `io-write.c`, `io-seek.c`, `io-readable.c` | `po->offset`, message size limit | capped read and write | offset and data agree; amounts fit a message; the lock is released |
| Stat cache: `io-stat.c`, `io-identity.c`, invalidations in `io-write.c`, `file-set-size.c`, `file-chmod.c`, `file-utime*.c` | `np->stat`, `np->last_stat` | cached stat | no answer from before one's own change |
| Memory mapping: `io-map.c`, `pager.c` | `np->pager`, `np->pager_fid` | map, page in, drop | pager and fid live and die together |
| Wire codec and errors: `p9_do_vsend`, `p9_do_vrecv`, `9p.c`, `9p-err.c` | none | serialise, parse, map | what is written is what was counted; parsing stays in its message |
| Open modes: `io-*-openmodes.c` | `po->user_open_flags` | set and clear | only settable modes change |
| Startup and options: `9pfs.c`, `main.c`, `fsys-*-options.c` | options, user, protocol version, message size, descriptors | parse, connect, negotiate, report | the source is taken apart rightly; clients come only when all is set up; the report reproduces the options |

The rest are fixed answers, fixed errors, and `netfs.c`, an old version that is not built; `PROJECT.json`
lists all of them.

**Interactions.**  All handlers meet in the multiplexer, which has no thread of its own: callers read each
other's replies.  Handlers on the same node meet in `np->lock`, where they take it (`io_read`, `io_write`,
`dir_readdir`, `io_map` do; `io_stat`, `file_sync`, `io_reauthenticate` and `dir_lookup` do not).  All
clients, of this translator and others, meet at the server.

**What is hard.**  Passing the reading token among callers, with interruption and loss of the connection at
any blocking point; tags that wrap; multi-request handlers between whose requests other threads and clients
act, and each of whose requests can be refused; exit paths that must account for every fid. `PROJECT.json`
lists each such place as a hazard, with its line.

## 2. The modules

| Module | Models | Checked by |
|---|---|---|
| `P9Rpc` | the multiplexer, its streams and (external) the server | `MCP9Rpc`, 4 configurations |
| `RpcService` | abstract: what `p9_rpc` promises its callers | implemented by `P9Rpc` |
| `P9RpcProofs` | theorems about the token and the table of `P9Rpc` | `tlapm` |
| `P9StreamProofs` | theorems about its streams and replies, and its refinement | `tlapm` |
| `DirLookup` | `S_dir_lookup` and (external) a server tree and other clients | `MCDirLookup`, 2 |
| `DirLookupProofs` | theorems about `DirLookup` | `tlapm` |
| `OpenFiles` | one node with its peropen, protids, fids, references and pager, used by several threads | `MCOpenFiles`, 2 |
| `OpenFilesProofs` | theorems about the references, the lock and the fids of `OpenFiles` | `tlapm` |
| `FileData` | data, offset, limits, open modes and cached attributes of one file | `MCFileData`, 1 |
| `FileDataProofs` | theorems about `FileData` | `tlapm` |
| `ReadDir` | `S_dir_readdir` on one protid, call after call | `MCReadDir`, 1 |
| `ReadDirProofs` | theorems about `ReadDir` | `tlapm` |
| `Wire` | sending, receiving and parsing one message; errors | `MCSession`, through `Startup` |
| `WireProofs` | theorems about `Wire` | `tlapm` |
| `Startup` | options, users, connecting, negotiation, serving with the codec of `Wire` | `MCSession`, 2 |
| `StartupProofs` | theorems about `Startup` | `tlapm` |

The modules meet where one leaves off: `P9Rpc` says who reads and writes and leaves the contents of messages
to `Wire`; the handlers' modules take a whole `p9_rpc` for one step, which `RpcService` justifies; `OpenFiles`
has how fids get opened and `FileData` and `ReadDir` what is done with them; `Startup` composes the options
with the codec, whose version it negotiates.

### P9Rpc

A thread's `pc` is its place in `p9_rpc`:

| `pc` | code |
|---|---|
| `idle` | outside `p9_rpc` |
| `registered` | after `p9_register_interest`, before `write_mutex` |
| `writing` | in `write_mutex`, header written |
| `flush` | `write_mutex` released, at `fflush` (9p-rpc.c:374) |
| `sent`, `woken` | about to take `mutex` at `again` (line 70) |
| `wait` | in `pthread_hurd_cond_wait_np` (line 86) |
| `read` | token taken, reading a header (lines 102-114) |
| `dispatch` | header read, about to take `mutex` (line 116) |
| `body` | owns the reply, reading its body in `p9_do_vrecv` |
| `release` | body read, about to clear the token (line 636) |

Each critical section of `mutex` is one action (`Register`, `WaitForHeader`, the four `Dispatch*`, `Release`),
as is each stdio call made outside it (`WriteHeader`, `WriteBody`, `Flush`, `ReadHeader`, `ReadBody`).
`interest_table` maps a tag to a thread; `got[t]` is `interest->size` and `->type`, `hdr[t]` the locals of
`wait_for_header`.  `Live(k)` tells an interest of a call in progress from a pointer to a stack frame that is
gone; what the code does through such a pointer is undefined and left to choice (`DispatchStale`). When a body
is left unread, the next header read is arbitrary bytes. A write is buffered or, at the whim of stdio, takes
everything buffered to the connection.  What the outgoing stream carries once a write has failed is not
tracked: every later request fails.

Messages keep their tag, the call they answer (a ghost), and one of three kinds: the reply asked for, an error
reply, another type; that is all `p9_do_vrecv` tells apart before it parses.  Requests are two parts, header
and body, so that interleaved writes would show.  `OutCap` bounds what the connection buffers, `InCap` what
the server takes before its replies are read.

`Faults` selects what the environment may do: `down` (the server closes the connection, cutting the last reply
short or not), `cancel` (the call is interrupted: the condition wait returns an error, and a blocked `fread`,
`fwrite` or `fflush` fails, the latter two possibly with part of what was buffered written: `WriteOut`),
`nomem` (`hurd_ihash_add` fails).  `TagReuse = FALSE` restricts to behaviours where fewer than `NTags` (65536
in the code) calls start during any one call.

### RpcService

The contract: a thread calls; the server answers each call once; the call returns that answer.  The refinement
maps "calling" to `pc # "idle"` and the answers to the replies in transit or half read.

### DirLookup

One action per request to the server, with the local code up to the next one: `Begin` (entry, lines 61-84),
`Gather` (collecting a batch), `DoWalk` (the walk and the four ways it can end), `CreatePrepared`, `Create`,
`Rewalk` (the O_CREAT path), `Found*` (setting up the result), and `Continue`, where the client closes one of
its two protids and looks up again from the other. A name is `"a"` (a directory), `"f"` (a file that may or
may not exist), `".."`, or `"."`, which also stands for an empty name; `pos` indexes the path where the code
has the pointer `part`.  `Rival` is another client creating or removing files. `NoFid` is `P9_NO_FID`; fids
are numbered as `fid-alloc.c` does.

`misused` and `before` are ghosts: whether a request ever named a fid the server does not have, and the fids
at the start of the lookup.  `Meaning` is the reference: resolution name by name, stopping where `..` is
applied to the root.

Reading `nnp` uninitialised after a trailing slash on a file (line 365) is a choice between returning and
crashing.

### OpenFiles

One node, from the `fsys_getroot` that makes it.  A thread's `pc` names the request it is about to make, and
`op` the handler: `read`, `write`, `readdir`, `map` (with the node lock), `sync`, `reauth`, `getroot`, `stat`
and the directory operations (without it), `page` for a page the kernel asks for, `release` for
`p9_release_protid`.  Each request is one step with the local code after it, and any but a clunk may be
refused.  `p9_ensure_open` is the four steps `EnsureOpen` (the flags, lines 132-172), `EnsureClunk`,
`EnsureWalk`, `EnsureTopen`. `port` is the life of a protid as libports sees it: `making`, `open`, `dropped`
by its clients, and, when `io_reauthenticate` fails, `orphan`: it was made but never put in the port set, so
that nobody ever hears that it is unused. `hard` and `weak` are the node's `refcounts`, `po_refs` the
peropen's.  A fid at the server is the set of modes it is open for.  `aborted` is a failed assertion.

`io_read` and the rest are here only for the fids they use; the blocks that one `dir_readdir` loads before its
last leave all of this as it is (`Use`).  A call releases the lock it holds (`Return`), but for
`ReturnLocked`: a write whose server tells of more bytes than it was sent (io-write.c:76, `Overreports`),
after which the lock is `Stuck`.  Directory operations are on one directory; `dir_rename` between two would
name the walk fid of a second protid, which its port keeps alive as the first.

### FileData

The same handlers for the data they move.  `call[t]` has what was asked for and the locals. A read or write is
`Begin*` (checks, the first cap, the buffer), `Open` (the lock, and `p9_ensure_open`, which may lower the
node's limit), `Request` (the second cap, the start, the invalidation) and a reply or a refusal.  `Cap` is the
code's unsigned `max_message_size - 24`, modulo `Word`.  `io_stat` is `BeginStat`, `Fetch` (the server's
answer), two `Store`s of the node's copy (up to `st_size`, and from there on; io-stat.c:80-205) and `Stamp`,
between which time passes and others act; `file_set_size`, `file_chmod`, `file_utimes`, `file_utimens`
invalidate first and then change the file.  Attributes are the size and, as ghosts, the version they show and
when. `last` and `gap` are ghosts: where the last transfer at the shared offset ended, and whether one did not
start there.

### ReadDir

A call is a sequence of steps of the loop `parse_existing` and of the part below it that loads a block.
Entries are their indices, and so are positions: in 9P2000.L the server sends with each entry the position
after it, in the core protocol the code adds up sizes, and the server accepts only 0 and where the last read
ended (`Readable`). A rewind that fails leaves no I/O fid (the walk was refused) or one that is not open. The
requests are constants: `FirstEntries` and `Counts` are any sets of integers, since the code checks neither.
`asked` and `out` are ghosts, the entry asked for and the entries returned.

### Wire

A message is its bytes counted: `count` is what was written, `bytes_read` or `*consumed`, `stream` how far
into the message the connection is, `rest` the elements of the format still to come, in the letters the code
uses.  Sizes and lengths that are read are chosen freely, the size of the message itself too.  Any `fread` may
come short (`CutAfter`), because the stream has ended or has an error (`ended`, `StreamEnds`): the call then
stops reading with no error of its own, and only a stream with an error fails it (`StreamError`); after the
end outputs are unset, and what an error reply said is whatever was in memory (`Untold`).  `whole` is a ghost:
the elements read so far end within the message.  The error tables are those of `9p-err.c`; `Holds` says which
texts contain which pattern.  The parsers of stats and directory entries are a step per field that has a
length of its own. File types are the bits of `S_IFMT`.

### Startup

`conf` is the globals that options set, `Default` their initial values.  Texts are sequences of words and of
the characters that separate them, so that taking them apart is what the code does with `strchrnul`.  A
numeral is a word in `Numerals`.  `establish_connection` is a step per system call; each may fail, and exits
with a reason.  Memory that is freed while a global still points into it reads as anything (`Freed`,
`Contents`).

## 3. The runs

Passing runs:

| Run | Instance | Shows |
|---|---|---|
| `rpc_safe` | 3 threads, 3 tags, every kind of reply, calls that find no memory to start | `StreamMutex`, `TokenHasHolder`, `TableExact`, `NoLostWakeup`, `RightReply`, `OutFramed`; a failed assertion would stop a thread and show as a deadlock |
| `rpc_service` | 3 threads, fair, room for all replies | `ImplementsFairService`: refinement of `RpcService` with its fairness; every call returns its own answer |
| `rpc_faults` | 2 threads, connection loss, interruption of every wait, read and write, tags reused | one reader; nobody waits for a request still in the buffer |
| `lookup_safe` | all paths of up to 4 names in batches of 2, with O_CREAT all paths of one batch; two lookups; refusals, no memory; read-only or not; other clients making and removing the files to be created | `LiveFidsOnly`, `ResolvesInside`, `FidMatchesNode`, `FidsAccounted`, `SlashMeansDir`, `ExclusiveMeansNew` |
| `open_files` | 2 threads, 2 protids, 3 calls (100 000 states; the invariants hold for 4 calls, 1.3 million, too); a server that may report too much written | `LiveFidsOnly`, `OpenForUse`, `FidsOwned`, `PagerServes`, `RefsExact`; `CallsReturn` under fairness |
| `file_data` | 2 threads, 3 calls, a limit that an open may lower, one change by another client, replies delayed | `SequentialAccess`, `FitsMessage`, `BufferFits`, `NeverEmpty`, `StatFresh`, `ReadYourChanges` |
| `readdir` | 4 entries in blocks of at most 3, any calls (also for negative entries and counts), both protocols | `RightEntries`, `EmptyMeansEnd`, `WithinLimits`, `OffsetContinues`; `CallsReturn` (of calls with a sensible request) under fairness |
| `session` | startup with two options, one change while serving; messages whole, short, long, malformed, and cut by the end or an error of the stream | `SourceParsed`, `ReadyWhenAnnounced`, `OptionsReproduce`, `SizeAnnounced`, `StaysFramed`, `OutcomeRight`, `NoOverrun`, `TypesAgree` |

Runs that show where the code does something other than its comments or assertions say (details under
"findings" in `PROJECT.json`):

| Run | Shows |
|---|---|
| `rpc_eof` | at the end of the stream the reader wakes nobody ("Wait for that thread to wake us up") |
| `lookup_escape` | `..` as first name of a batch, or after `./`, is not checked ("See if, at any point, we walked out of the root") |
| `pager_remap` | `io_map` after a refused walk, or after the pager was dropped, aborts (`np->pager_fid == P9_NO_FID`) |
| `session_user` | a user given by name is sent with the number 0 ("If set (not NULL, not -1), always use this user") |

**What the passing runs leave out.**  Each is restricted where the code is known to do otherwise, and only
there; lifting the restriction shows the case:

* RPC: a server that takes no more requests until its replies are read can leave all asleep, the one signal
  having gone to a thread blocked in `fflush` (9p-rpc.c:642; three threads with `OutCap = 2`, `InCap = 1`).
  After an interrupted call its reply takes the token to a dead interest (line 86; `"cancel"` with
  `TokenHasHolder`).  The result of `fflush` is ignored (374).  A header that announces the size 0, read by
  another thread, is taken for no reply yet (71); sizes are left to `Wire`.
* Lookup: O_CREAT behind more than `MAX_PARTS` names walks from a clunked fid (dir-lookup.c:220). O_CREAT that
  loses the race returns the fid it started from (263).  O_EXEC alone reaches an assertion (9pfs.c:163).  With
  O_EXCL and read-only EROFS comes before EEXIST (63).  A server that answers a walk with more qids than names
  makes the call fail (134) and is taken to have made no fid; the `malloc` of the created name (232) is not
  checked, and taken to succeed.  `FidsAccounted` excepts the two exits that forget the fid they reached (no
  memory, trailing slash on a file); `SlashMeansDir` speaks of one batch, since with exactly `MAX_PARTS` names
  and a trailing slash the last batch is empty.
* Open files: a client that does not wait for its `file_sync` (`SyncOverlaps = TRUE`) has fids clunked under
  its other calls (file-sync.c:45).  A failed `io_reauthenticate` leaves a protid and its peropen reference
  for ever (io-reauthenticate.c:94).  The weak reference of `p9_nrele` is never dropped, so no node is freed.
  The counter of fids may wrap (fid-alloc.c:29).  In the core protocol rename sends its wstat to the directory
  (dir-rename.c:78), and the page read has neither a cap nor a retry for a short answer (pager.c:46).
* File data: after a write whose server reports more than it was sent the node stays locked for good
  (io-write.c:76).  That is a step of `OpenFiles`, whose `CallsReturn` says that calls return or wait for that
  lock; here it is the fault `"overreport"`, which the run leaves out.  An iounit of 24 makes every transfer
  empty and a smaller one wraps the cap (io-read.c:53; such `Iounits`).  `StatOverlaps = TRUE`: an answer
  fetched before a write is stored, and served, after it (io-stat.c:49).  SEEK_END and `io_readable` use
  attributes whether or not they were ever fetched; a negative seek succeeds with the offset unset
  (io-seek.c:67).
* Directory reading: a call for an entry before the first or for fewer than -1 entries, or with room for no
  entry, may load the same block for ever with the node locked (97, 282), since the loop condition never
  holds.  Negative entries and counts are in the run; `CallsReturn` is for the other calls (`Sensible`), and
  nobody goes on after a count below -1 (`GoesOn`).  A failed rewind (`"open"`, `"buffer"` in `Retried`)
  leaves the cursor and the buffer apart; without memory for the reply, or with room for no entry, entries are
  skipped (dir-readdir.c:121). Rewinding loses the memory of the old buffer (243); a call for no entries may
  return an unset error (215).
* Codec: an element that straddles the end of its message takes bytes of the next (9p-rpc.c:466; `whole`
  excludes it).  The end of the stream within a body leaves outputs unset and reports success (489, 649):
  `OutcomeRight` excepts just that.  If the text of an error reply is cut before its length, `strcasestr` is
  given a null pointer (`NoText`, which ends the run).  `TypesAgree` is for the versions that read directories
  as stats, before 9P2000.L, and for modes with at most one type bit.  The length of the extension is not
  converted from little endian (9p.c:185), and the wrong pointer is tested after `strndup` (9p.c:246).  "no
  such" is twice in the table, so that ENODEV is never the answer.
* Startup: an IPv6 literal is split at its first colon (main.c:189).  The default user's name points into a
  freed buffer (main.c:516), and an `--aname` set while serving into the message.  The tree in the source
  overrides a reported `--aname` (TODO at main.c:272).  One address without a socket ends the program though
  others would work (413). A limit larger than the one proposed is accepted.  `--settrans` only matters at the
  start and is not reported; `OptionsReproduce` leaves it out of the comparison.

**Bounds.**  Three threads are the reader, the owner of the header read, and a third who must not be
forgotten; more add no new role.  Two suffice where faults make the space large: an interrupted or failed call
and one that meets what it left behind.  `NTags` equals the number of threads; in `rpc_faults`, where tags may
be reused, two calls can then share a tag and meet interests left in the table.  The code's 2^16 only moves
the point of wrap.  `OutCap = 2` is one request in transit.  Four names with `MAX_PARTS = 2` give one, two
full and an empty last batch; 16 in the code changes no case.  Two lookups in a row let a wrong fid of the
first be used by the second.  `MaxLookups` bounds the counter of fids. In `open_files` two threads meet in one
protid or in two of one peropen; three calls are the one that makes the root and two that overlap, and
releases and dropped pagers come on top.  In `file_data` a limit of 27 has room for three bytes and of 25
(after an open) for one, while four are asked for, so that an amount capped before another call's open would
not fit after it; `StatTime = 1` and `Latency = 1` stand for the 5 seconds and the delay of a reply, and
`MaxTime = 7` lets two replies be stored at once and expire.  In `readdir` four entries in blocks of up to three give full, partial and
empty blocks; clients ask from the entry -1 to beyond the end, for -2 to 2 entries, with room for none less
than the largest. In `session` sizes and lengths are those at and around every boundary the code computes (the
header, the minimum sizes of stats, the reserves), and one far beyond.  The codec is run after one way of
starting up, since options do not affect it. Symmetry over threads is used only in `rpc_safe`, which checks
invariants only.

**Deadlock** is checked except where the system may stop: in `rpc_faults` a call may wait for ever for a reply
that was lost (and a failed assertion ends the process); in `open_files` and `file_data` when the calls are
used up, and in `session` when the program has exited.  `DirLookup` stutters when its lookups are done.

**Fairness.**  `P9Rpc!FairSpec`: threads run (`WF` on receiving), mutexes and the connection's space are
eventually granted (`SF` on sending, since another thread can win the race each time), the server takes
requests it has room for and answers each.  `OpenFiles` and `ReadDir`: a call that can go on does (`WF` on the
steps of a thread; none on making calls, dropping ports or page faults), which is what `RpcService` promises
of each request.  The code leaves all of these to the C library, the kernel and the server.  No call need be
made, and no fault or spurious wake-up need happen.

## 4. The proofs

Every safety property that a passing run checks is also a theorem, for all values of the constants. The
assumptions are those that the modules make about their constants, which TLC evaluates in every run of theirs.
They say what range each constant has, that protids are finitely many (`OpenFiles`), and of the formats what
`p9_do_vsend` and `p9_do_vrecv` assert (9p-rpc.c:203, 323: no `Q` or `?` in a request, no `S` in a reply) and
what a format letter takes from the argument list (one length for `d` and `s`).  Where a theorem needs more,
that is a hypothesis of its own; the hypotheses, all met by the instances TLC runs, are where section 3 says
that the code does otherwise, and are named below.

### The multiplexer: token and table (`P9RpcProofs`)

For any set of threads, number of tags, and capacities:

* `TypeCorrect`: `Spec => []TypeOK`, under every fault and tag reuse.
* `OneReader`: `Spec => []StreamMutex`, under every fault and tag reuse.  The invariant is inductive with
  `TypeOK`.  It needs its third conjunct (a reading thread has not been handed a header itself): without it a
  thread could hand the token on while owing a body.  The lemma `SameHolders` covers the actions that move no
  holder, `OnlyHolder` those by the holder itself.
* `NobodyForgotten`, and from it `CallsTabled` and `TokenKept`: if nothing fails save an allocation, and tags
  in flight are distinct (`Undisturbed`), then `TableExact`, `TokenHasHolder` and `NoLostWakeup` always hold.
  The inductive invariant is `UndisturbedInv`: a healthy connection, calls that start with no header in their
  hands, an exact table, a held token, no lost wake-up; `NoLostWakeup` alone is not inductive, because that
  the interest signalled belongs to a thread still waiting or on its way comes from the table, and that
  clearing the token is the holder's act from `StreamMutex`.

### The multiplexer: streams (`P9StreamProofs`)

* `RequestsWhole` and `NoneLeftBehind`: `OutFramed` (until a write fails) and `FlushedBeforeWaiting`, under
  every fault and tag reuse. The invariant `OutInv` takes what is buffered and what is in the connection as
  one stream, since a flush by any thread moves parts of all threads from the one to the other: it has an even
  number of parts when `write_mutex` is free, and else ends with the header of its holder (`HalfWritten`); and
  what is buffered belongs to threads that have yet to flush (`Buffered`).  A write takes along all that is
  buffered, wherever in a request it happens.  A failed stream buffers nothing, which is why loss of the
  connection breaks neither.
* `OwnReply` and `AssertionsHold`: `RightReply`, and that neither `assert` of `wait_for_header` fails, if
  `Undisturbed`.  `FlightInv` says that calls in progress have different tags, that each has its request or
  reply in at most one place (stream, server, reply stream, or read up to its body), where its caller can be
  while it is there (`Stage`), and whose hands hold the header of the body that is next (`Hands`).
* `ImplementsService`: with no fault and distinct tags, `Spec => Service!Spec`.  The service's request is
  `Register`, its answer is the server's `Reply`, its consumption is `ReadBody`, its return `Release`, and
  every other step stutters, which is where `OnePlace` and `Hands` are needed: reading a header, and handing
  it to its owner, move an answer but neither lose nor double it.

### Path lookup (`DirLookupProofs`)

For paths and batches of any length, trees that other clients change, any refusals and failed allocations,
under one hypothesis: O_CREAT comes with no more names than fit in a batch (`ShortCreate`; behind more the
code walks from a clunked fid).

* `LookupFidsLive`, `QidNamesFid`, `NoFidLost`, `MadeHere`, `SlashKept`: `LiveFidsOnly`, `FidMatchesNode`,
  `FidsAccounted`, `ExclusiveMeansNew` and `SlashMeansDir`.  They are parts of one inductive invariant,
  `FidInv`.  Its core is `Fids`: during the call the server has the fids from before, unmoved, and exactly one
  more, the fid reached; which variable names that one depends on the label, and on whether anything has been
  walked yet.  `Labels` says under which conditions each label is reached (that `prev_fid` is still the
  client's own walk fid when a file is created comes from there), and `Batches` what a batch holds.  The part
  about fids is claimed only until O_CREAT loses the race (`overtaken`), after which the code returns the fid
  it started from.
* `PathResolved`: `ResolvesInside`.  The invariant `PathInv` says that the fid reached is where the names up
  to `pos` lead (`Follows`); that a walk of one batch goes through exactly the nodes of these names, and that
  creating a file changes where a path leads only for names that led nowhere, are the lemmas `WalkMeans` and
  `MeaningGrows`.

### Opening, fids and references (`OpenFilesProofs`)

For any threads, any finite set of protids, calls, refusals and releases:

* `RefsCounted` and `LockReleased`: `RefsExact`, and that the node lock is held by exactly the call that needs
  it, and `Stuck` only if servers may report more written than they were sent (`LockHeldByCall`, which no run
  lists).  The counts are cardinalities, so the invariant `Inv` says who is counted: which calls may be where
  (`Fits`), that a protid being made or unmade belongs to one call (`Ported`), and that the last reference to
  the peropen is dropped once and `fsys_getroot` runs once (`Unique`).
* `FidsLive`, `UsesOpen`, `EachFidOwned`, `PagesServed`: `LiveFidsOnly`, `OpenForUse`, `FidsOwned` and
  `PagerServes`, if clients do not overlap `file_sync` with other calls on a port (`~SyncOverlaps`; it takes
  no lock).  `FidInv` says that every fid of the server is held in exactly one place (`Holdings`), and for
  each label what the call has done so far to the fids it handles (`Makes`, `Opens`, `Temps`, `Maps`), so that
  a refusal at any of them leaves each fid with its holder. `Apart` is what makes the check in
  `p9_ensure_open` still true when the request is made.

### File data and attributes (`FileDataProofs`)

For any threads, sizes, amounts and faults:

* `OffsetShared`: `SequentialAccess`.  The invariant adds that whoever has opened the file and not yet had a
  reply holds the lock (`Locked`), and that the shared offset is both where the last transfer ended and where
  the one under way starts (`Follows`): `SequentialAccess` alone does not say that nobody moved the offset
  between request and reply.
* `BufferSuffices`: `BufferFits`.  A cap never asks for more than it was given, whatever the limit has become
  by then (`CapLowers`; also when the subtraction in the code wraps around), so the second cap, under the
  lock, keeps the amount within the buffer chosen before it (`Amounts`).
* `MessagesFit` and `NoneEmptied`: `FitsMessage`, that an amount fits the node's limit also when another
  call's open has lowered that since the first cap, if no limit is below a header (`LimitsFrom(24)`; 9pfs.c:95
  makes sure of it for the connection's, nothing does for an iounit), and `NeverEmpty`, if each has room for a
  byte more (`LimitsFrom(25)`).
* `CacheFresh`: `StatFresh`, also where calls overlap.  A part of an answer was current at most the delay of a
  reply before it was stored (`Punctual`), but the part of the call that stamps the cache may have been
  overwritten by another call with an older reply, which was then still storing (`Overwritten`): hence two
  delays, and the cache time after (`Aged`).
* `ChangesSeen`: `ReadYourChanges`, if a client's `io_stat` does not overlap changes (`~StatOverlaps`).  What
  is cached has the version of the file whenever no change is under way (`Current`).

### Reading directories (`ReadDirProofs`)

For any directory, blocks and requests, with any integers for the first entry and the count:

* `LimitsKept`: `WithinLimits`, whatever fails.
* `EntriesInOrder`, `NoEarlyEnd`, `OffsetsContinue`: `RightEntries`, `EmptyMeansEnd` and `OffsetContinues`, if
  there is memory for replies, each request has room for any one entry, and of the failures after which a
  client goes on only those of reading and parsing occur (`Undisturbed`).  The invariant is that the buffer
  holds consecutive entries from `next_entry` on and `next_offset` agrees with both (`Aligned`), except
  between the rewind and the answer (`Spoilt`); that in 9P2000.L parsing an entry that does not fit has
  already moved `next_offset` is the case that it must allow.

### The codec (`WireProofs`)

For any formats, sizes and lengths, whatever the server sends:

* `FramingKept` and `BuffersRespected`: `StaysFramed` and `NoOverrun`. Both rest on one inductive invariant.
  `Typed` has the types of the counters and that the format of a reply that is being read has the elements it
  may have.  `Framed` says that as long as elements end within the message, what was counted never exceeds its
  size and equals what was taken from the stream: `StaysFramed` speaks of the end only, when the rest has been
  dropped, and of a stream that goes on.  `Bounded` says how far each step of a parser has come: after which
  field `count` is at most what, given the reserve that was checked before, so that the fields of fixed size
  that follow without a check of their own fit.
* `SizesAnnounced`: `SizeAnnounced`, if the stat of every name has a 16-bit size (`ShortNames`).  The
  invariant `Announced` is that the size announced is what was written and the serialized size of the elements
  still to come.
* `OutcomesRight`: `OutcomeRight`.  `Told` says that there is no error yet while a reply is read, and that a
  reply that matches has outputs left only before the question whether there is more, or if the stream has
  ended.
* `SameTypes`: `TypesAgree`, a comparison of two translations in both versions before 9P2000.L.

### Startup and options (`StartupProofs`)

For any options, sources, addresses and server limits, and however long clients change options:

* `ReadyForClients`: `ReadyWhenAnnounced`.  The invariant `Descriptors` says for each label which descriptors
  are open: none, the one being connected, or the two of the connection; that a new one differs from it is the
  lemma `NewFdIsNew`.
* `SourceTakenApart`: `SourceParsed`, if the sources are of the documented form (`Documented`: a host that is
  a path, or without `:` and `/`; no `/` in a port; a tree that starts with one; no `:` in a tree without a
  port, and no `@` after no user).  `Cut` is what `strchrnul` finds in a text that is put together from parts,
  `SourceApart` what `parse_startup_opt` does with one.  The parts then stay, until a client changes options.
* `ConfigurationReported`: `OptionsReproduce`, if numbers of the command line fit (`NoOverflow`: else `errno`
  is still set when the user is parsed, main.c:92) and no tree is set while serving (`NoNewTree`).  The
  invariant `Reproducible` is that, the flags apart, the globals are what the source makes of fresh globals
  with some tree (`Settled`).  Starting with the reported options makes fresh globals with the reported flags
  and tree (`ReportedParsed`, over the parsing of command lines of any length: `ParseOneMore`), and with the
  tree that came of the source the source makes the same again (`ArgumentParsed`).

### The form of the proofs, and what is not proved

Induction over data would need theorems that take an operator as a parameter, which the provers cannot use. It
is done on sets instead, where a proof needs it (the serialized size of a sequence, the meaning of a path):
the numbers for which a fact fails have a least element, which comes from `NatLessThanWellFounded` and
`WFMin`, or are none (`LeastExists`, `Between`, `Induction`).  No prover knows that a literal such as `"564"`
is a `STRING`: `StartupProofs` adds the ones used to the set of words.

Model-checked only: liveness under fairness (`ImplementsFairService`, both `CallsReturn`), which is out of the
prover's reach.

## 5. Not modelled, and the plan

Left out for good: the handlers with fixed answers or fixed errors; `io_readable` and the other queries, which
change nothing; the user and group maps, permission bits and translations of open flags (`9p.c` 330-355,
401-457), tables without state; exchange dumps; the demuxer; `netfs.c`, which is not built.

Next:

1. The permission bits and the translations of open flags in `9p.c`, as checked functions.
2. `FidsLive` and its companions without `~SyncOverlaps`, for the fids that `file_sync` does not touch.

