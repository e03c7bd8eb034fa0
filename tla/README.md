# A verification of the Mini File System

TLA+ specifications of the Mini File System (`src/`), checked with TLC on small
instances and, for every component, proved with TLAPS for every instance. Paths such as `alloc.c:50` are under `src/src/`; `README.md:45` is `src/README.md`.

## 1. The system

    client  --TCP-->  server  --TCP-->  disk_mgr  -->  data/DISK_FILE
    (shell)           server.c          (one block      (128 x 32 blocks
                      fs_lib.c, path.c   per request)    of 512 bytes)
                      alloc.c

Each listener takes one connection, serves it to its end, and exits; there are no
threads. What is concurrent is the conversation of two processes over a socket,
and the start and end of the programs on one machine; what interrupts a program
is its peer or a kill.

| component | state | operations | what makes it correct |
|---|---|---|---|
| allocator and block cache, `alloc.c` | `map` (two bits per zone), `b_cache` (4 groups of 2 blocks), the disk behind the socket | `alloc_init`, `alloc_final`, `format`, `read_zone`, `write_zone`, `get_free_id`, `set_free_id`, `get_state` | a read returns the last write; a zone is given to one taker at a time; states survive an orderly end |
| paths, `path.c` | `pwd`, a list of zone ids up to the root | `get_path`, `rm_name`, `cwd_to` | a path leads where its names say; the working directory exists |
| directories, `fs_lib.c:29-304` | dentries and the dir_zones chained to them, on disk | `add_sub`, `rm_sub`, `rm_dentry`, `rm_inode` | the zones form one tree, and `map` describes it |
| file data, `fs_lib.c:205-258, 366-379, 686-921` | inodes, index zones, data zones | `add_data`, `wrt_idx`, `update_size`, `rm_inode`, `cat_file`, `get_cat_len` | text is kept in order; the size is that of the zones |
| commands, `server.c` | none of their own | touch, mkdir, rm, rmdir, append, write, cd, ls, cat, exit | each takes effect once and as a whole, or is refused |
| shell and protocol, `client.c`, `server.c:130-184`, `fs_lib.c:574-751` | where each program is in the exchange; bytes on the way | requests and replies; `2`/`ACK`/count/`EXPECT`/line for ls and cat | the two stay in step; the user gets the prompt back, and all lines |
| block transfer, `utils.c:199-261`, `disk_mgr.c:72-147` | bytes on the way, chunk counters | `R c s`, `W c s n` | a block is read as it was last written |
| processes, every `main`, `utils.c:53-122` | ports, waiting connections, the file | start, connect, accept, serve, end; format's two processes | one program at a time has the disk; sessions end and free what they hold |
| disk exerciser, `disk_test.c` | | writes and reads random blocks, compares | |

The hard behaviours: kills between the zone writes of one command, with zones
written through at once and the bitmap only at the end; the disk filling up in
the middle of a command; holes, overflow chains and in-place path cutting in
the directory layer; files that grow across three kinds of pointers; a protocol
in which two messages that arrive together become one; programs that find each
other by port numbers and a sleep of two milliseconds. `PROJECT.json` lists them
as hazards, each at its line.

## 2. The modules

| module | what it is |
|---|---|
| `ZoneStore` | what `alloc.h` promises: an array of zones, a state per zone, saved on close |
| `Alloc` | `alloc.c` with its cache; implements `ZoneStore` |
| `AllocProofs` | the theorems about `Alloc` |
| `Namespace` | what a user expects of the directory commands: a tree of names, a working directory, one step per command |
| `Fs` | `path.c`, the directories of `fs_lib.c`, the commands of `server.c`; on `ZoneStore`'s terms; implements `Namespace` for the uses `MCFs` names |
| `TextFile` | what a user expects of the text of files |
| `FileData` | inodes, index zones and data zones of `fs_lib.c` under touch, rm, append and write; implements `TextFile` |
| `BlockStore` | what `read_block` and `write_block` promise: an array of blocks, writes that may be cut off |
| `DiskLink` | `utils.c` and `disk_mgr.c`, chunk by chunk; implements `BlockStore` |
| `FileDataProofs` | the theorems about `FileData` |
| `FsLemmas` | the lemmas on zones, trees, paths, commands, and what a write shows of the tree of names |
| `FsProofs` | the theorems about `Fs` |
| `Basics` | what the proofs use of numbers and sequences |
| `DiskLinkProofs` | the theorems about `DiskLink` |
| `Shell` | `client.c` and the server's side of the conversation |
| `ShellProofs` | the theorems about `Shell` |
| `Processes` | the programs, their ports and connections, from start to end |
| `ProcessesProofs` | the theorems about `Processes` |
| `MCAlloc`, `MCFs`, `MCFileData`, `MCDiskLink`, `MCShell`, `MCProcesses` | the instances TLC checks |

They stack as the code does. `Fs` and `FileData` both stand on the zone array
that `Alloc` provides, `Alloc` on the blocks that `DiskLink` provides, and each
has one program that owns the disk, which is what `Processes` is about. The join
is by the abstract modules: a layer is shown to implement its abstract module,
and the layer above is written on the terms of that one.

Some definitions come twice: `X_...` just before `X` is `X` with a plausible
fault (a missing reset, a wrong bound, a swapped order). Each is what one
property has been seen to notice; nothing uses them otherwise.

### Alloc

`proc` says who runs: the server, the format program (before and after
`format()`), nobody after an orderly end, nobody after a kill. `disk` is what the
disk file holds, by block address and offset; `map` is `map.free_lst`; `cache`
is `b_cache`; `out` what the last call returned. One action per function;
`get_block` is `WayFor` (which way the search stops at), `Fetch` (what is in it
after a possible `read_block`) and `Front` (the shift of the ways), and is part
of each caller's step, as is the write-through of `write_zone`.
`format()` writes block 0 without the cache and then frees it. The 256 bytes of
the bitmap are one value in the first zone of block 0; the program looks at them
only as a whole.

A block is read or written in one step, since no other process talks to the disk
manager, with one exception. Block 0 goes out in several chunks, and a program or
manager killed between two of them leaves part of it: `final_cut` and `format_cut`
are a death inside `alloc_final` and inside `format`, for every `cut` among the
zone ids in the bitmap at which a chunk may end (`Cuts`). A cut write of any
other block is `BlockStore`'s `Land` followed by `Lose`: its zone is one line of
one chunk in the code (64 bytes of 128), so it is there or not.

The geometry is a parameter. In the code `MAX_ID = 32767`, `MAP_ZONES = 1024`,
`RESERVED = 4`, 8 zones per block, 32 sectors, 4 cache groups of 2. `get_free_id`
and `get_state` go past the bitmap. `map` is the 256 bytes of `map.free_lst`, so it
has states for the `Mapped` zones only, and what happens past them is apart:
`get_free_id_past` is the search that found no zone free in the bitmap and two zero
bits in the memory behind it, `set_free_id_past` the release of a zone without bits.
Built as the Makefile says, that memory is `b_cache`, pointers whose upper bytes are
zero: the search ends at once with an id from 1024 up, and `set_state` changes a pointer.
What the server does from there on is undefined. `proc` is then `"astray"`: the cache is not followed
any further, `astray` writes anything to any block (in block 0, states out of
`Junk`), until a kill ends it; the next server is an ordinary one on what is left. `get_free_id_fails` is
the other end of the loop, the one the code means. `Fs` and `FileData` take it at its
word: a zone with bits, or -1.

### Fs

`disk`, `map`, `saved` (the bitmap on disk) are the zone array as `Alloc` was
shown to provide it. A zone is a record tagged by the struct last stored in it.
`pwd` is the list of ids of `path.c`. A command computes on a record of memory
(`Memory`, `write_zone`, `get_free_id`, `Taken`, `set_free_id`) exactly as the
code does with its copies, and leaves a queue `todo` of zone writes; every
`Put` is one `write_zone`, in the order of the code, and a `Crash` may come
between any two. So the states between two writes are there, on disk and for the
next session, but cost one state each. A write that changes nothing but a time
stamp (`add_sub` on its way down a chain) is left out, as are times, modes,
owners and text: a file is the data zones of its inode, of which `append` takes
some number more. `write` is `wrt` as it stands: resolve, remove by what is left of
the path, make by a copy of it, append by what is left. `get_size`, with its
continuation, is the sum that ls shows of a directory.

Paths are sequences of components. `get_path` returns what it leads to and what
is left of the string: `get_path_from_root` overwrites the first `/` after a
name by a NUL, and `mk_file` and `mk_dir` go on with the shortened string.
`rm_name`'s treatment of `/name` (it makes an entry called `/name` in the
working directory) is kept. Empty components (`a//b`) are not among the inputs.

Undefined behaviour. `rm_tail_sub` returns nothing where it has taken an entry
(`fs_lib.c:131`). The Makefile compiles without optimisation, where the caller
gets the 0 that the last `strcmp` of `write_block` left in the register; that is
the value of the constant `Leftover`. `get_sub_path` looks at ten entries of a
four-entry dentry; the bytes behind are taken to hold no name.

`Typed` guards every command: once a reference leads to a zone of another type
(an entry that leads to a data zone, say), the code reads one struct through
another and only the overlays of `rm` on a directory and `rmdir` on a file are
written out. The passing runs never meet it: it can fail only after one of the
violations below has already happened.

### The uses of MCFs

The directory layer is not sound for everything a user can type. `MCFs` states
the uses for which it is, as guards on requests (never on what a request does):
new names go into the working directory or one above it and are neither `.` nor `..`
(the root has no directory above it, so touch or mkdir of `..` there would make an
entry of that name), `rm` is for files,
`rmdir` for empty directories that are not above the working directory, a
directory keeps to its dentry, or (`grow`) only gets entries; `write` names its file
without a directory on the way, and not as `/name` (it would remove that file and make
one called `/name` in the working directory). For those, the
passing runs show the full specification `Namespace`. Every restriction has its
counterexample. Some are runs of their own (`MCFsTail` and `MCFsLookup` for
"overflow", `MCFsDeep`, `MCFsRecover`). The others appear as soon as the use is
added to a run's `Uses`:

- "spill" to `MCFsGrow`: `UsageExact` fails (`fs_lib.c:45`: the zone for the
  dir_zone is not to be had, the entry is stored nowhere, the answer is `0`);
- "crash" to `MCFsGrow` (with `CHECK_DEADLOCK FALSE`, as nothing restarts):
  `DiskIsTree` fails (`fs_lib.c:46`: the dentry leads to the dir_zone before
  that is written);
- "anykind" to `MCFsSession`: `UsageExact` fails (`server.c:99`);
- "full" to `MCFsSession` with `MAX_ID = 8`: `UsageExact` fails (`fs_lib.c:273`);
- "busy" to `MCFsSession`: `CwdInTree` fails (`server.c:122`);
- "deep" to `MCFsSession`: a write to `a/b` removes the directory `a`
  (`server.c:228`): `DiskIsTree`, `UsageExact` and `Implements` fail.

### FileData

The names of one directory (`Root`, a map from files to inodes), and below it the
zones as the code has them: an inode points to `DIRECT` data zones, then `SINGLE`
index zones of data zones, then `DOUBLE` index zones of index zones (20, 2, 2 in
the code, 32 pointers in an index zone, 63 characters in a data zone). As in
`Fs`, a command computes on memory, queues its writes, and `Put` is one of them;
`Crash` may come in between. `wrt_idx` calls itself once, with the other value of
its flag, and is two operators here (`wrt_idx_idx`, `wrt_idx_data`); `add_data`
calls itself with what text is left, once for every new pointer. Both are the same
loop: write behind the last pointer (`First`), then, while text is left, behind a
new one (`Further`). Their ends are kept: a zone that is not to be had ends
`wrt_idx` before it has written its index zone, and ends `add_data` before it has
brought the size up to date. `short` remembers that this happened. `wrt_idx` of no zone has no return
statement; the length its caller gets is any of two (`undef`).

The zones above `room` are taken by others, so the disk can be full at any point
of a command. A file that ends at the last of its pointers drops the rest of a
text. Characters are told apart by the file and the place they were meant for,
so text that is lost, doubled, swapped or another file's shows.

`TextFile` is the abstract module: a file is a text or does not exist; append
adds at the end; write starts afresh; a command takes several steps and a kill
leaves a first part of its work, in order; a text is cut only when disk or file
is full.

### DiskLink

`owner` is where the program is that has the disk (in `read_block`,
`write_block`, or the goodbye of `alloc_final`), `manager` where `serv_loop`,
`read_disk` or `write_disk` is; `toManager` and `toOwner` are the streams between them. One unit
is a string with its end, or a byte of data. A read takes what has
arrived, up to the length asked for. The block moves in chunks of `BUFFER_SIZE`,
each asked for with `EXPECT`; both ends count, one bytes, the other chunks.
Either program can be killed at any point, what it has sent may still arrive or not,
and both can be started again on the same file. `disk_test`, which leaves without
`E`, is an owner too.

`Split` says whether a write can arrive in two reads. It is false: on the local
host, to which all programs connect, a chunk of 128 bytes arrives as a whole.
With `Split = TRUE` TLC finds a counterexample to `Implements`, `InStep`, `TypeOK` and
`Answered` (`disk_mgr.c:129`).

`BlockStore` is the abstract module: reads and writes of whole blocks, except
that a write under way can have reached any part of its block, and stays like
that if it is cut off.

### Shell

`client` and `server` are the program counters of `cmd_loop` and of
`interpret`/`list`/`cat`; `toServer` and `toClient` the messages under way, one
`write` each. A read takes any non-empty number of messages and keeps the first
(`get_msg`). A command is reduced to how it is answered: plainly, by an exit, or by
a listing of which `say` lines are announced and `send` lines sent. `send` and
`say` are computed by translations of `cat_dir`, `get_ls_len`, `update_size` and
`get_cat_len`. `Odd` lets ls meet something that is neither file nor directory
(`server.c:150`); it is empty in the runs, and with `Odd = {TRUE}` `InStep` fails. `end_of_input` is the server seeing the shell gone: at
`interpret` it ends in order, anywhere else `strcmp(NULL)` kills it.

### Processes

`pc` says where each process is, from opening the disk file to its last step;
`queue` and `peer` are the connections waiting at, and accepted by, each listener; `lingers` the
ports the system still holds; `made` whether `DISK_FILE` exists. A listener keeps its listening socket
while it serves, so a second program connects, waits in the queue
(`BACKLOG`), and finds the connection gone when the listener ends. `format` is
two processes: the parent runs a disk manager, the child sleeps 2 ms and connects.
Whether the disk manager listens by then is left open, as in the code
(`format.c:14`): a child that comes too early ends, and the parent waits for its disk
manager, which waits for a connection, until a server makes one. `FormatEnds` says that the child
ends either way, and that once it has got through, the parent ends, too. With the parent in the first
of the two as well, TLC has the child that comes too early as a counterexample. `Privileged` says that file permissions do not
stop a second start of the disk manager (`disk_mgr.c:20`).

### Fairness

`Shell`, `DiskLink`: weak fairness of each program's steps. Both programs do
nothing but read, compute and write, and the operating system schedules both and
delivers what was written. `Processes`: weak fairness of every process's own
steps (`Runs`): bind, connect, accept, sleep, notice the other end gone. Steps of
the user (to start a program, type a command, kill) are nowhere fair. The time
for which a port lingers is not assumed to end. A read may take
one message or all of them; no assumption is made. `Alloc`, `Fs` and `FileData` have
safety properties and refinements of safety only.

## 3. What is checked

All runs take less than three minutes with two workers. Passing runs:

| run | states | shows |
|---|---|---|
| `MCAlloc` | 143k | types, `CacheCoherent`, `OneCopy`, `StatesSurvive`, and that `Alloc` implements `ZoneStore`: three blocks in one group of two ways (so that it hits, misses, shifts and evicts), two contents of every zone, a bitmap that ends before the zones do, allocation to the last bit and past it, release, format, kills, also between the chunks of block 0, and restarts |
| `MCFsSession` | 111k | sessions on four zones, the root's among them, with kills anywhere: `DiskIsTree` between any two writes, `UsageExact`, `NoGaps`, `CwdInTree`, `ListedSize`, and that every command does what `Namespace` says; nested directories, `..`, absolute paths, a disk that runs full |
| `MCFsGrow` | 121k | chains of dir_zones while entries are added, with orderly restarts: `UsageExact`, `ListedSize` |
| `MCFileData` | 72k | `NothingShared`, `UsageExact`, `SizeRight`, and that `FileData` implements `TextFile` |
| `MCDiskLink` | 49k | `InStep`, `Answered`, `EndsAfterOwner`, and that `DiskLink` implements `BlockStore` |
| `MCShellTalk` | 33k | `InStep`, `OrderlyEnd`, `Complete`, `Responsive`, `EndsAfterClient` |
| `MCProcesses` | 107k | `OneOwner`, `SessionEnds`, `FormatEnds` |

Why the bounds are enough.

- `MCAlloc`: the cache logic treats a group at a time and has two ways: three
  blocks in a group is the first number that evicts; two zones per block show a
  write that disturbs its neighbour; two contents tell a stale copy from a fresh
  one, and one state besides unoccupied a zone that is taken from one that is not. The bitmap goes out in two chunks, as in the code,
  and one of the four usable zones has no bits in it, as most have not in the code.
- `MCFs`: a command touches at most a parent, its target, and one new zone of
  chain. With three zones besides the root a directory in the root with a
  file in it and one more node exist together, and the disk is full in a good
  part of the states. Dentries have two entries (the code has four): first, last,
  and moved; in `MCFsGrow` one entry per zone, so that chains get long. Names are
  `a` and `b` in two directories. Files have up to two data zones, appends take 0, 1 or 2.
- `MCFileData`: one direct pointer, two of either other kind, two pointers in an
  index zone, two characters in a data zone: every kind of zone is first, last,
  full and half full. Texts of three characters end inside a zone and at its end,
  and go over two. One file grows to its largest size (26 characters) and past it; up to
  `Turns` other commands in between let a second file come, grow and go and its
  zones be taken over. `Room` has a value for a shortage in each place: the file,
  a single index, the outer and the inner of a double one, and none.
- `MCDiskLink`: blocks of three units in chunks of two, so that a block takes two
  chunks and the second is short; two blocks that neither cylinder nor sector
  alone tells apart.
- `MCShellTalk`: commands that fill the server's buffer (the session ends, the
  shell is not left waiting), files of every length up to 84 zones but 43 to 52,
  which are announced wrong (`MCShellCat`), and one of double indirection (116
  zones, its last index zone full; for one that is not full a line too many is
  announced); directories of up to four entries (with five, `Complete` fails:
  `fs_lib.c:660`).
- `MCProcesses`: two of what must be alone (servers, disk managers), one of the
  rest, a queue of one. All disk managers use one port. With 10356 as in
  `README.md:17` beside format's 10086, `OneOwner` fails.

`StatesSurvive` has two parts: what a server loads after an orderly end is what was in memory
before it, and while a server runs (and has its memory intact) the bitmap on disk does not change, although `write_zone`
writes block 0 as a whole for the zones that share it with the bitmap. Of a zone without bits it says nothing; that
such zones are given out is seen when `INVARIANT GivenHaveBits` is added to `MCAlloc.cfg`
(`README.md:46`: two bits for any zone; `alloc.c:50`): with all bits set, the next `get_free_id` answers
with an id that has none, and overwrites the memory behind the bitmap. What `Implements` says is that this is
the only way there: until every zone with bits is taken, or one without is given back, the store keeps its promises.

After a kill `MCFsSession` starts a new session only if the bitmap on disk
describes the tree; that it need not is `MCFsRecover`. `MCFileData` ends at a kill.

`UsageExact` of `FileData` leaves out the files that ran short of zones inside
an index zone: the zones taken there are lost until the disk is formatted
(`fs_lib.c:842`). A file holds 2132 zones of 63 characters, 134316; `README.md:56`
says 136447, which counts 64 for each.

Violations, each of a sentence of the repository's README, each a defect of the
code described in `PROJECT.json`, "findings":

| run | property | where |
|---|---|---|
| `MCFsTail` | `EntriesLead` | `fs_lib.c:118`, missing return |
| `MCFsLookup` | `FoundByName` | `path.c:108`, dir_zones never searched |
| `MCFsDeep` | `DiskIsTree` | `path.c:58`, path cut in place |
| `MCFsRecover` | `UsageExact` | `alloc.c:142`, bitmap saved late |
| `MCShellCat` | `Responsive` | `fs_lib.c:370`, threshold 44 for 54 |

## 4. What is proved

`AllocProofs` proves, for every geometry allowed by `GeometryAssumption` and any
set of zone contents (`ValueAssumption`):

- `TypeCorrect`, `Coherent`, `CachedOnce`: the three invariants;
- `Survives` (`StatesSurvive`): the states of zones go from session to session by `alloc_final`
  and `alloc_init` and in no other way, for a bitmap of any length;
- `Refinement`: `Spec => ZS!Spec`, the allocator implements the zone array.

No theorem assumes that there are bits for every zone. A server gone astray is in all of them:
`AstrayEmpty` (it has no cache) is the fourth part of the invariant.

The argument. None of the invariants is inductive alone: that a cached block
equals the disk after a write needs that it is cached once (a second copy would
be stale), that it is cached once needs that it is in its group, and both need
types. Their conjunction is inductive. The lemmas follow the code: `FetchIsFresh`
(after `get_block` the block is the disk's), `FrontKeepsOneCopy`
and `FrontKeepsCoherence` (the shift of ways), then one lemma per operation.
`Located`, `PlaceIsUnique`, `Block0Facts`, `BlockGroup` are the arithmetic of addresses: two
ids share block and offset only if they are equal, and the bitmap's place is
that of no usable zone. `Survives` needs one more invariant (`SavedInvariance`: after an
orderly end the bitmap on disk is the one in memory) and that `write_zone` puts back the
bitmap it found (`BitmapStays`). `Refinement` needs that only the bitmap is where the bitmap
is (`PlacedInvariance`), since what a stray server leaves in a zone is a content of a zone. It shows that each
action is the `ZoneStore` action of the same meaning, a death between two chunks of
block 0 (`FinalCutKeeps`, `FormatCutKeeps`) one of `CrashClosing` and `CrashFormatting`.

The other proof modules show their properties in the same way: a conjunction of
which the property is a part or a consequence, that every action keeps. Where TLC
can evaluate the conjunction it was checked on the run's instance first.

### The conversation of shell and server (`ShellProofs`)

`TypeCorrect`, `StaysInStep` (`InStep`), `EndsInOrder` (`OrderlyEnd`) and
`ShowsAll` (`Complete`). `InStep` says what the two may not do; the invariant says
for every pair of program counters which messages are under way, so that the next
to be read is the one that is waited for, and relates the lines announced, sent,
under way and shown. Hypotheses: a listing is announced with as many lines as it
has (`CountsRight`), and `NoneAssumption` (the absence of a command is none). That
the hypothesis is needed is `MCShellCat`. Where it holds is a theorem too:
`CatCount` is the exact set of file sizes for which the line count of `cat`, which
`get_cat_len` computes out of the size `update_size` stored, is the number of
lines `cat_file` sends. `Conversation` puts the two together.

### The transfer of a block (`DiskLinkProofs`)

`TypeCorrect`, `StaysInStep` (`InStep`), and `Refinement` (`Spec => BS!Spec`), for
every size of block, chunk and disk. The invariant says for each place of the
owner and of the manager which strings and chunks are in either stream, how much of
the block is on the way, that the parts already moved are the block's, and which
of it survives when one program is gone. Hypotheses: a write of a chunk arrives as
a whole (`Whole`, that is `Split = FALSE`; see above), and for the refinement that
the owner asks for blocks of the disk (`InRange`; the disk manager does not check, and
`get_block`, the only caller, computes the address from an id that `alloc.c` keeps
to the disk: `PlaceIsUnique` in `AllocProofs`). The refinement mapping: `read_block` is `Read`,
`write_block` `Write`, each chunk that `write_disk` stores `Land`, the last `get_data`
`EndRead`, the `OVER` of a write `EndWrite`, the loss of either program `Lose`,
its restart `Restart`; all other steps stutter.

### Processes (`ProcessesProofs`)

`TypeCorrect`, and `DiskHasOneOwner` (`OneOwner`) for any number of servers, shells
and disk managers, if all who look for a disk look at one port (`OneTarget`; the code's
ports differ if the README's example is followed, see section 3). That two owners
do not meet at one manager is not local to the accepting of a connection: it needs that a
port has one holder, that a listener serves one peer, that whoever is served is served by one
that says so, and that a connection waits in the queue of a listener that is there.

### File data (`FileDataProofs`)

`TypeCorrect`, `FilesApart` (`NothingShared`), `UsageRight` (`UsageExact`) and
`SizesRight` (`SizeRight`), for every zone size, number of pointers of each kind, length of an index zone, size of
disk and amount of room (`SizeAssumption`), and for every text.

`NothingShared` holds between any two writes of a command and is not inductive: it
looks at the disk, and what the next write does is decided by the queue. The
invariant `IInv` therefore speaks of both. A `Plan` gives every zone that may be in
use a level (directory, inode, outer and inner index zone, text), such that a pointer
leads one level down and no two lead to one zone: a forest. `Safe(disk)` says that there is
a plan for the disk as it is. While the server is up there is a memory `m` with the map,
the marks and the queue of the state for which `Settled(disk, m)` holds: every disk
that lies between two of the queued writes is safe (`Logged`), and the one after the
last has a plan that the bitmap describes (`Tally`), exactly if no index ran out of zones.

Within a command the functions work on copies that are written late: `add_data` writes
its inode, `wrt_idx` its index zone, after the zones below. `Amid` is the invariant
of that: `v` is memory with the copies not yet written (those of the zones `O`) in place, it
has the plan, and what is queued so far points no further than `v` does (`Within`).
There is one lemma for each kind of step: `Write` (a zone is written without a change of
pointers), `Grow` and `Link` (a zone is taken, cleared and linked), `Keep` (a copy is changed),
`Land` (a copy is written), `CutFile` and `GiveUp` (a zone is freed, or lost), then
one for each function of the code, from `WrtData` to `WriteFile`. A loop is proved
once: `FirstRound`, `NextRound`, `LastRound`, put together by `LoopFills` along the
round number (`Rounds` shows that the functions defined by recursion over the rounds exist,
`Induct` is the induction over a set of numbers; each use gives it a set, so no
theorem with an operator parameter is involved). `RmFile` needs that the zones `rm_inode` comes by
are just those that hang below the inode in the plan (`FileZones`). `InUse` then says that
between commands the plan is the set of zones in use, and the first three theorems follow.

`SizeRight` needs more. `update_size` does not count: it takes every index zone but the
last to be full and multiplies, and what follows the last pointer of a zone it does not
see. So the invariant has to say that files are filled in order: `Packed`, all pointers
of an inode or of an outer index zone but the last lead to `Full` zones, and `Sized`,
the size stored is the number of zones; both for as long as no zone was missing (`Tidy`).
In the middle of a command that fails where a copy is not written yet: `Rooted` says that copies
are taken from an inode down, whence a zone that has no copy above it is in order, and a
file that is not being written keeps its zones (`SameFile`, `CopiesApart`). That a loop
leaves all but its last zone full is `AllFull`, by `NextRound` from the text that is left
over. The sum itself is a chain of counts: the zones below two pointers are apart
(`HangApart`), so they add up (`CountParts`, `HangCount`), for one index zone (`FlatCount`),
for one of index zones (`DeepCount`), for full ones (`FullCount`), and for an inode
(`FileSize`), where `UntilNext` and `UntilLast` follow `update_size` from pointer to pointer.

`IInv` quantifies over plans and logs and is not evaluated by TLC; its consequences are.

### Directories (`FsProofs`, with `FsLemmas`)

`TypeHolds` (`TypeOK`), `TreeHolds` (`DiskIsTree`), `UsageIsExact` (`UsageExact`),
`NoGapsHold` (`NoGaps`), `CwdStays` (`CwdInTree`) and `SizesListed` (`ListedSize`), all from `InvHolds`, and `Refinement`
(`Implements`: to its user every session is one of `Namespace`), for every
size of disk and dentry, every length of file and every set of paths whose names are
not the empty one of a free entry (`LimitsAssumption`, `RequestAssumption`).

They are about `MCSpec`, the sessions `MCFs` allows, under the hypothesis `Session`:
`Uses` has at most "exit" and "crash". That is what `MCFsSession` checks, with orderly
ends as well. They cannot be about `Fs` with every request: each of the uses left out
ends in a counterexample (section 2), and for some even `TypeOK` fails, since zones that
are no tree are read as what they are not. "grow" is the one use left out that TLC finds sound.

`DiskIsTree` is about the disk in the middle of a command and what the next write
does is decided by the queue, so it is not inductive, and neither is any of
the others. The invariant `IInv` says:

- `Safe(disk)`: there is a set `U` of zones and a rank on it that are a `Plan`: all
  that a zone of `U` points to is in `U`, nodes below a directory name it as parent and
  rank one below it, and no two pointers lead to one zone. It says nothing of the bitmap, and `U`
  may have zones that nothing points to (a file already written but not yet entered);
- while the server is up, a memory `m` with the map and the queue of the state, such that the
  disks between any two queued writes are safe (`Logged`), and the last one is
  `Whole`: its plan has no zone that nothing points to (`Held`), and the bitmap says of every zone
  what the plan says (`Tally`). `pwd` is a way down that disk (`Here`);
- while it is off after an orderly end, the disk and the saved bitmap are `Whole`; after a kill
  the disk is `Safe`, and a next session begins only if the saved bitmap happens to
  describe it (`MayStart`; otherwise `MCFsRecover`).

A zone's shape is part of it (`Formed`, `IsSubs`): entries are a run from the first, no two of
one name, and next is 0. `NoGaps`, and that `add_sub` takes a free place, are from there.

The lemmas follow the code. `NewZone` and `NewNode`: a zone taken and written before anything
points to it leaves every disk safe, whence the order of writes in `mk_file`. `AddSub`
and `RmSub`: the one write that enters or removes a node is a step from one plan to
another (`Adding`, `Cutting`); the entry moved into the hole is still the only one that leads to
its zone (`WithoutEntry`). `TrailIs`, `StepTo`, `PathLeads`: resolving a path takes ways of the
tree to ways of the tree, and what the cut string still leads to (`DirIs`, `SplitIs`). Then a lemma
per command (`MakeKeeps`, `RmFileKeeps`, `RmDirKeeps`, `AppendKeeps`, `WriteKeeps`), per action,
and `PutKeeps`, the write that moves the state one disk along the log. `write` is the command
with two parts: the plan has to be whole between removing the file and making it, as
`mk_file` may find no zone and refuse.

The properties are stated with `Nodes`, the nodes reached from the root level by level, and the
invariant with a plan. `LevelsAre`, `LevelIs` and `OneNode` say that the levels are ways of the plan
and that a zone is on one of them at most; `TreeOnDisk` is `DiskIsTree` for any safe disk.
`UsageExact` also needs the converse, that every zone of a whole plan is a node or belongs to one.
`Nodes` stops after as many levels as there are ids, so this takes an argument by
counting: above a node of rank `n` is one of every lesser rank (`Above`), so there are no more
ranks than ids (`NotDeeper`), and what is below a node is a node (`Downward`). `DescribesIs` and
`DescribedIs` then make `Describes` and `Whole` the same for a safe disk, which also
turns the check of `MayStart` into the invariant.

`ListedSize` is a count of the same tree. What hangs below two entries of a directory is
apart (`HangsApart`), so a sum of sizes is the size of a union (`SumIs`) and the size of a directory is that of
its `Hang` (`DirHang`); below the root hangs everything (`HangAll`). That `get_size` has a value at all
takes an argument, since it is a recursion along a disk, where free zones still hold old entries that may lead anywhere
(`SizesExist`): it asks the bitmap before it follows an entry, and what the bitmap calls a directory is in the tree.

`Refinement` is by the mapping of `MCFs`: the tree of names on disk (`Tree`), the names of the way
`pwd` (`Cwd`), the request without its answer (`Request`), and whether a zone is free (`Full`).
`IInv` does not carry it. It says that each queued write keeps the disk a tree, not which name comes or goes
with it, nor that the command under way is the one to which that belongs. What is added, `Pending`,
is about the names. `Spelled(d, s, w)` says that the names `w` spell the way `s` on disk `d`, and
`TreeOf(d)` is the tree of names of a disk, which `TreeIs` makes the same as `Tree`. What a command
sets out to do is an aim: its operation, the node it is about, and where the
session stands. `Story` says of the queue that every write but the last leaves the tree of names as
it is, and the last one adds the node, removes it, or (`append`, `write`) changes nothing (`Still`, `Ends`);
for `write` one of the writes before may remove the file, and a later one make it, which
is why `Namespace` lets it take two steps. `Pending` is that for the aim of the request under way.

The proof has three parts. In `FsLemmas`, one lemma for each way a write can change the names (none, if the
entries stay; one more; one less, with another entry moved to its place), then
one for each function of `fs_lib.c`, and `StoryPut`, the step from one write to the
next. In `FsProofs`, that `get_path` and `rm_name` on zones find what `Namespace` finds on names,
component by component, including `..` and the path cut in place; here the hypotheses of `MCFs` on
paths come in. Last, one lemma per action: a command is refused where `Namespace` refuses it
(or may, if no zone is free: `Full`), begins with an aim, and its last write ends it.
A kill leaves the tree of names as it is, and drops the request.

This proof found a fault in `Namespace`. `Step` was a CASE whose guard for a path that had already led nowhere
overlapped with those for `.` and `..`, so it said less than it seemed to: which of two results it
has was open, and TLC took the first. The cases are exclusive now.

`IInv` and `Pending` quantify over plans and logs and are not evaluated by TLC; the seven properties, which follow, are.

### Model-checked only

- `FileData`: the refinement of `TextFile`, which speaks of concatenations over the zones
  of a file.
- `Fs`: the directories with dir_zones of `MCFsGrow` (`Plan` has nodes of one zone).
- Out of the prover's reach: liveness (`Answered`, `EndsAfterOwner`, `Responsive`,
  `EndsAfterClient`, `SessionEnds`, `FormatEnds`).

## 5. Not modelled

- zones read through a struct of another type, beyond the overlays of `rm` on a
  directory and `rmdir` on a file: what follows depends on bytes of names and
  time stamps;
- what a server does whose cache pointers `set_state` has overwritten, beyond that it
  writes anything anywhere;
- time stamps, modes, owners and the layout of ls lines; `itoa` and `get_toks`;
- string lengths (names over 9 characters, the 64-byte path copy of `wrt`,
  empty path components) and the heap of `path.c`;
- in the disk manager the request `I` (nothing in the repository sends it), the
  seek delay, and failures of `lseek`, `mmap` and `write`;
- in the disk exerciser `cmd_test`, which is never called.

What could be proved next: the refinement of `TextFile`, from an invariant on the text of the
copies on top of `Amid`; and `Fs` with "grow", from plans whose nodes are chains.
