------------------------------- MODULE Alloc -------------------------------
(***************************************************************************)
(* The zone allocator and block cache of the file system server            *)
(* (src/src/alloc.c) above the block interface of the disk                 *)
(* (read_block, write_block in src/src/utils.c), as it is used by the      *)
(* programs server and format.                                             *)
(*                                                                         *)
(* The disk is a function from block addresses <<c, s>> to blocks, a block *)
(* a function from offsets to zone contents.  The 256 bytes of the bitmap  *)
(* are one value, kept at offset 0 of block <<0, 0>>; the other reserved   *)
(* zones hold the rest of those bytes and are never looked at.  One server *)
(* process owns the connection to the disk, so a read or write of a block  *)
(* is one step.  A kill can cut a write off between two chunks of the      *)
(* block (DiskLink): that is invisible when one zone of it is new, which   *)
(* lies in one chunk, but not when the bitmap is, or the zeros of format.  *)
(* Of a server that has changed memory behind the bitmap nothing is known. *)
(*                                                                         *)
(* A definition named X_... just before X is X with a fault the properties *)
(* must notice; nothing else uses it.                                      *)
(***************************************************************************)
EXTENDS Integers

CONSTANTS
  MAX_ID,          \* the largest zone id, (1<<15)-1 in get_free_id
  MAP_ZONES,       \* ids below it have two bits in the bitmap: 4 * 256
  RESERVED,        \* zones 0 .. RESERVED-1 hold the bitmap; the root is next
  ZONES_PER_BLOCK, \* BLOCKSIZE/ZONESIZE
  SECTORS,         \* blocks per cylinder
  CACHE_GRP_NUM,   \* groups of the cache
  Cuts,            \* ids at which a chunk of the bitmap ends: 512 and 1024
  Junk,            \* states a server gone astray may leave in the bitmap
  Requests,        \* states the callers pass to get_free_id
  Payload,         \* contents of a zone other than the bitmap
  Blank,           \* the content of a zeroed zone
  NULL             \* the C null pointer

UNOCCUPIED == 0
D_OCCUPIED == 1
F_OCCUPIED == 2
I_OCCUPIED == 3
State == UNOCCUPIED .. I_OCCUPIED

Zone == 0 .. MAX_ID
Usable == RESERVED .. MAX_ID
Mapped == RESERVED .. MAP_ZONES - 1
Offset == 0 .. ZONES_PER_BLOCK - 1

\* Where zone id lies: get_c, get_s, and the offset read_zone computes.
get_c(id) == (id \div ZONES_PER_BLOCK) \div SECTORS
get_s(id) == (id \div ZONES_PER_BLOCK) % SECTORS
BlockOf(id) == <<get_c(id), get_s(id)>>
OffsetOf_next(id) == (id + 1) % ZONES_PER_BLOCK
OffsetOf(id) == id % ZONES_PER_BLOCK

Block == {BlockOf(id) : id \in Zone}
Block0 == BlockOf(0)

\* The 256 bytes of the bitmap, in memory and on disk.
Bitmap == [Mapped -> State]
NoneOccupied == [id \in Mapped |-> UNOCCUPIED]
Value == Payload \cup Bitmap

\* b_cache[g * CACHE_GRP_SZ + i] is cache[g][i].
CACHE_GRP_SZ == 2
Way == 0 .. CACHE_GRP_SZ - 1
Group == 0 .. CACHE_GRP_NUM - 1
GroupOf(b) == b[2] % CACHE_GRP_NUM
Line == [at : Block, data : [Offset -> Value]]
EmptyCache == [g \in Group |-> [i \in Way |-> NULL]]

ASSUME GeometryAssumption ==
  /\ MAX_ID \in Nat /\ MAP_ZONES \in Nat /\ RESERVED \in Nat \ {0}
  /\ RESERVED < MAP_ZONES /\ MAP_ZONES - 1 <= MAX_ID
  /\ ZONES_PER_BLOCK \in Nat \ {0}
  /\ SECTORS \in Nat \ {0}
  /\ CACHE_GRP_NUM \in Nat \ {0}
  /\ Cuts \subseteq Nat
  /\ Junk \subseteq State
  /\ Requests \subseteq State \ {UNOCCUPIED}

ASSUME ValueAssumption ==
  /\ Blank \in Payload
  /\ NULL \notin Line

VARIABLES
  proc,   \* who runs: "off", "dead" (killed), "server", "format", "formatted",
          \* or "astray": a server that has overwritten its own memory
  disk,   \* what the disk file holds
  map,    \* the bitmap in memory
  cache,  \* b_cache
  out     \* what the last call returned

vars == <<proc, disk, map, cache, out>>

Running == proc \in {"server", "format", "formatted"}

(***************************************************************************)
(* get_block: look at the first way, else take the last one; what was in   *)
(* front of the way taken moves back by one; the block goes to the front.  *)
(***************************************************************************)
Holds_sector(line, b) == line # NULL /\ line.at[2] = b[2]
Holds(line, b) == line # NULL /\ line.at = b

WayFor_miss(b) == IF cache[GroupOf(b)][0] = NULL THEN 0 ELSE 1
WayFor(b) ==
  IF cache[GroupOf(b)][0] = NULL \/ Holds(cache[GroupOf(b)][0], b) THEN 0 ELSE 1

Fetch(b) ==
  LET target == cache[GroupOf(b)][WayFor(b)] IN
  IF Holds(target, b) THEN target ELSE [at |-> b, data |-> disk[b]]

\* The cache after get_block(b), with line as the block it returned.
Front(b, line) ==
  [cache EXCEPT ![GroupOf(b)] =
     [i \in Way |-> IF i = 0 THEN line
                    ELSE IF i <= WayFor(b) THEN cache[GroupOf(b)][i - 1]
                    ELSE cache[GroupOf(b)][i]]]

Stored(line, o, val) == [line EXCEPT !.data = [@ EXCEPT ![o] = val]]

-----------------------------------------------------------------------------
Init ==
  /\ proc = "off"
  /\ disk = [b \in Block |-> [o \in Offset |->
               IF b = Block0 /\ o = 0 THEN NoneOccupied ELSE Blank]]
  /\ map = NoneOccupied
  /\ cache = EmptyCache
  /\ out = NULL

alloc_init(p) ==
  /\ proc \in {"off", "dead"}
  /\ proc' = p
  /\ cache' = Front(Block0, Fetch(Block0))
  /\ map' = Fetch(Block0).data[0]
  /\ UNCHANGED <<disk, out>>

alloc_final_unsaved ==
  /\ proc \in {"server", "formatted"}
  /\ proc' = "off"
  /\ cache' = EmptyCache
  /\ UNCHANGED <<disk, map, out>>

\* alloc_final: the bitmap goes into block 0 and out, then the cache is freed.
alloc_final ==
  /\ proc \in {"server", "formatted"}
  /\ proc' = "off"
  /\ disk' = [disk EXCEPT ![Block0] =
                Stored(Fetch(Block0), 0, map).data]
  /\ cache' = EmptyCache
  /\ UNCHANGED <<map, out>>

format_cached ==
  /\ proc = "format"
  /\ proc' = "formatted"
  /\ disk' = [disk EXCEPT ![Block0] =
                [o \in Offset |-> IF o = 0 THEN NoneOccupied ELSE Blank]]
  /\ map' = [NoneOccupied EXCEPT ![RESERVED] = D_OCCUPIED]
  /\ UNCHANGED <<cache, out>>

\* format: block 0 is zeroed on disk behind the cache, which is then freed.
format ==
  /\ proc = "format"
  /\ proc' = "formatted"
  /\ disk' = [disk EXCEPT ![Block0] =
                [o \in Offset |-> IF o = 0 THEN NoneOccupied ELSE Blank]]
  /\ map' = [NoneOccupied EXCEPT ![RESERVED] = D_OCCUPIED]
  /\ cache' = EmptyCache
  /\ UNCHANGED out

\* The process dies between two calls: memory is gone, the disk stays.
Crash ==
  /\ Running \/ proc = "astray"
  /\ proc' = "dead"
  /\ cache' = EmptyCache
  /\ UNCHANGED <<disk, map, out>>

\* It dies in alloc_final: the bits of the ids below cut are on disk.
final_cut(cut) ==
  /\ proc \in {"server", "formatted"}
  /\ proc' = "dead"
  /\ disk' = [disk EXCEPT ![Block0] = [@ EXCEPT ![0] =
                [id \in Mapped |-> IF id < cut THEN map[id] ELSE disk[Block0][0][id]]]]
  /\ cache' = EmptyCache
  /\ UNCHANGED <<map, out>>

\* It dies in format: the bits of the ids below cut are zeroed, and if those
\* are all of them, also the zones of block 0 up to some offset.
format_cut(cut, o) ==
  /\ proc = "format"
  /\ o > RESERVED => cut >= MAP_ZONES
  /\ proc' = "dead"
  /\ disk' = [disk EXCEPT ![Block0] =
                [k \in Offset |->
                   IF k = 0
                   THEN [id \in Mapped |-> IF id < cut THEN UNOCCUPIED ELSE disk[Block0][0][id]]
                   ELSE IF k < o THEN Blank ELSE disk[Block0][k]]]
  /\ cache' = EmptyCache
  /\ UNCHANGED <<map, out>>

read_zone(id) ==
  /\ proc = "server"
  /\ id >= RESERVED
  /\ cache' = Front(BlockOf(id), Fetch(BlockOf(id)))
  /\ out' = Fetch(BlockOf(id)).data[OffsetOf(id)]
  /\ UNCHANGED <<proc, disk, map>>

\* read_zone of a reserved or negative id.
read_refused(id) ==
  /\ proc = "server"
  /\ id < RESERVED
  /\ out' = NULL
  /\ UNCHANGED <<proc, disk, map, cache>>

\* write_zone writes the whole cached block that holds the zone.
write_zone(id, val) ==
  /\ proc = "server"
  /\ id >= RESERVED
  /\ LET b == BlockOf(id)
         line == Stored(Fetch(b), OffsetOf(id), val)
     IN  /\ cache' = Front(b, line)
         /\ disk' = [disk EXCEPT ![b] = line.data]
  /\ UNCHANGED <<proc, map, out>>

get_free_id_any(s) ==
  /\ proc = "server"
  /\ \E id \in Mapped :
       /\ map' = [map EXCEPT ![id] = s]
       /\ out' = id
  /\ UNCHANGED <<proc, disk, cache>>

\* get_free_id: the first id with state UNOCCUPIED.
get_free_id(s) ==
  /\ proc = "server"
  /\ \E id \in Mapped :
       /\ map[id] = UNOCCUPIED
       /\ \A j \in RESERVED .. id - 1 : map[j] # UNOCCUPIED
       /\ map' = [map EXCEPT ![id] = s]
       /\ out' = id
  /\ UNCHANGED <<proc, disk, cache>>

NoneFree == \A id \in Mapped : map[id] # UNOCCUPIED

\* Past the bitmap the search goes on in the memory behind it, which holds
\* the pointers of b_cache.  Where two bits of it are 0 it gives out an id,
\* and set_state changes a pointer: the cache is not followed any further.
get_free_id_past ==
  /\ proc = "server" /\ NoneFree
  /\ proc' = "astray"
  /\ out' \in Usable \ Mapped
  /\ cache' = EmptyCache
  /\ UNCHANGED <<disk, map>>

\* No two bits are 0 there, or there is no id past the bitmap.
get_free_id_fails ==
  /\ proc = "server" /\ NoneFree
  /\ out' = -1
  /\ UNCHANGED <<proc, disk, map, cache>>

set_free_id(id) ==
  /\ proc = "server"
  /\ id \in Mapped
  /\ map' = [map EXCEPT ![id] = UNOCCUPIED]
  /\ UNCHANGED <<proc, disk, cache, out>>

\* set_free_id of an id past the bitmap changes a pointer, too.
set_free_id_past(id) ==
  /\ proc = "server"
  /\ id \notin Mapped
  /\ proc' = "astray"
  /\ cache' = EmptyCache
  /\ UNCHANGED <<disk, map, out>>

\* What such a server does through its pointers is undefined: it may write
\* anything to any block, until it ends.
astray(b) ==
  /\ proc = "astray"
  /\ \E bits \in [Mapped -> Junk], data \in [Offset -> Payload] :
       disk' = [disk EXCEPT ![b] = IF b = Block0 THEN [data EXCEPT ![0] = bits] ELSE data]
  /\ UNCHANGED <<proc, map, cache, out>>

Next ==
  \/ alloc_init("server")
  \/ alloc_init("format")
  \/ alloc_final
  \/ format
  \/ Crash
  \/ \E cut \in Cuts : final_cut(cut)
  \/ \E cut \in Cuts, o \in 0 .. ZONES_PER_BLOCK : format_cut(cut, o)
  \/ \E id \in Usable : read_zone(id)
  \/ \E id \in {-1, 0} : read_refused(id)
  \/ \E id \in Usable, val \in Payload : write_zone(id, val)
  \/ \E s \in Requests : get_free_id(s)
  \/ get_free_id_past
  \/ get_free_id_fails
  \/ \E id \in Usable : set_free_id(id) \/ set_free_id_past(id)
  \/ \E b \in Block : astray(b)

Spec == Init /\ [][Next]_vars

-----------------------------------------------------------------------------
TypeOK ==
  /\ proc \in {"off", "dead", "server", "format", "formatted", "astray"}
  /\ disk \in [Block -> [Offset -> Value]]
  /\ disk[Block0][0] \in Bitmap
  /\ map \in Bitmap
  /\ cache \in [Group -> [Way -> Line \cup {NULL}]]

\* Every cached block equals the block on disk: get_block may serve a read
\* from it, and write_zone and alloc_final may write it back whole, without
\* undoing a write that took another way (format, an eviction, a reload).  It
\* is about a server whose memory is intact, as is the next.
CacheCoherent ==
  \A g \in Group, i \in Way :
    cache[g][i] # NULL => cache[g][i].data = disk[cache[g][i].at]

\* A block is cached at most once, in the group get_block searches, and the
\* search's stop at an empty first way misses nothing.
OneCopy ==
  \A g \in Group :
    /\ \A i \in Way : cache[g][i] # NULL => GroupOf(cache[g][i].at) = g
    /\ cache[g][0] = NULL => cache[g][1] = NULL
    /\ cache[g][0] # NULL /\ cache[g][1] # NULL => cache[g][0].at # cache[g][1].at

\* A session finds every state as the one before it left it, if that ended
\* with alloc_final, and the bitmap on disk stays what it was until then,
\* although block 0 is written whole, bitmap and all, for its other zones: so
\* after a kill the next session finds what the killed one had found.
StatesSurvive ==
  [][/\ proc = "off" /\ proc' = "server" => map' = map
     /\ proc = "server" /\ proc' = "server" => disk'[Block0][0] = disk[Block0][0]]_vars

\* README.md:46: "The usage of any zone on the remaining part of the disk is
\* indicated by two bits in bitmap".  get_free_id gives out others, too: with
\* this invariant added, MCAlloc fails.
GivenHaveBits == out \notin Usable \ Mapped

-----------------------------------------------------------------------------
\* The allocator implements the zone array of ZoneStore: whatever the cache
\* does, a read returns the last write to that id, a write touches that id
\* only, and only an orderly end moves the bitmap to disk.
Opened == IF Running THEN "yes" ELSE IF proc = "astray" THEN "lost" ELSE "no"

ZS == INSTANCE ZoneStore WITH
  FirstBlock <- {id \in Usable : BlockOf(id) = Block0},
  RootId     <- RESERVED,
  Unoccupied <- UNOCCUPIED,
  DOccupied  <- D_OCCUPIED,
  open       <- Opened,
  zone       <- [id \in Usable |-> disk[BlockOf(id)][OffsetOf(id)]],
  state      <- map,
  saved      <- disk[Block0][0]

Implements == ZS!Spec
=============================================================================
