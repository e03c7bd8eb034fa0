--------------------------- MODULE DiskLinkProofs ---------------------------
(***************************************************************************)
(* What TLAPS proves of DiskLink, for every size of block, buffer and disk *)
(* and every set of addresses and values, when a write arrives in one      *)
(* piece: the two programs stay in step, and blocks that are on the disk   *)
(* are read and written as BlockStore says.                                *)
(***************************************************************************)
EXTENDS DiskLink, TLAPS, SequenceTheorems

-----------------------------------------------------------------------------
\* The hypothesis on the connection: what was written is there to be read.
Whole == Split = FALSE

\* The hypothesis on the addresses: all of them are on the disk.  Alloc, with
\* the disk manager's CYLINDERS and SECTORS, asks for no other.
InRange == \A a \in Asked : OnDisk(a)

ForManager ==
  [kind : {"R", "W"}, at : Asked, n : Nat] \cup {Msg("E"), Msg("EXPECT")}
    \cup [kind : {"data"}, val : Value]

ForOwner ==
  {Follow(num) : num \in Nat} \cup {Msg("EXPECT"), Msg("OVER"), Msg("BYE")}
    \cup [kind : {"data"}, val : Value]

\* The block that is read or written.
At == get_offset(op.at)

\* Units in the chunk after the first `from` of a block.
Size(from) == Least(BUFFER_SIZE, BLOCKSIZE - from)

\* The first units of two blocks agree.
SameUpTo(b, c, last) == \A u \in Unit : u <= last => b[u] = c[u]

Reading == op \in [cmd : {"R"}, at : Asked]
Writing == op \in [cmd : {"W"}, at : Asked] /\ block \in [Unit -> Value]

\* The command that stands for the operation.
Asking == Command(op.cmd, op.at, IF op.cmd = "W" THEN Chunks ELSE 0)

\* What is on its way to the owner, and what the owner has of the block.  This
\* is so even when the manager has ended.
OwnerInv ==
  /\ owner = "idle" => op = NONE /\ toOwner = <<>>
  /\ owner = "follow" =>
       /\ Reading /\ block = StaleBlock /\ pos = 0
       /\ \/ toOwner = <<>>
          \/ toOwner = <<Follow(0)>> /\ ~OnDisk(op.at)
          \/ toOwner = <<Follow(BLOCKSIZE)>> /\ OnDisk(op.at)
  /\ owner = "data" =>
       /\ Reading /\ OnDisk(op.at) /\ pos < BLOCKSIZE /\ SameUpTo(block, file[At], pos)
       /\ toOwner \in {<<>>, Data(chunk(file[At], pos))}
  /\ owner = "expect" =>
       /\ Writing /\ pos < BLOCKSIZE
       /\ toOwner \in {<<>>, <<Msg("OVER")>>} \/ (toOwner = <<Msg("EXPECT")>> /\ OnDisk(op.at))
  /\ owner = "over" =>
       /\ Writing /\ pos = BLOCKSIZE
       /\ toOwner = <<>> \/ (toOwner = <<Msg("OVER")>> /\ file[At] = block)
  /\ owner = "bye" => op = NONE /\ toOwner \in {<<>>, <<Msg("BYE")>>}

\* What is on its way to the manager, and how far it is.  This is so even when
\* the owner is gone.
ManagerInv ==
  /\ manager = "serve" =>
       toManager \in {<<>>, <<Msg("E")>>} \/ ((Reading \/ Writing) /\ toManager = <<Asking>>)
  /\ manager = "read" =>
       /\ Reading /\ OnDisk(op.at) /\ at = At /\ off < BLOCKSIZE
       /\ toManager \in {<<>>, <<Msg("EXPECT")>>}
  /\ manager = "write" =>
       /\ Writing /\ OnDisk(op.at) /\ at = At /\ off < BLOCKSIZE
       /\ SameUpTo(block, file[At], off)
       /\ (n - 1) * BUFFER_SIZE < BLOCKSIZE - off /\ BLOCKSIZE - off <= n * BUFFER_SIZE
       /\ toManager \in {<<>>, Data(chunk(block, off))}

\* How the two fit together while both run.
Joint ==
  /\ owner = "idle" => manager = "serve" /\ toManager = <<>>
  /\ owner = "follow" =>
       \/ manager = "serve" /\ toManager = <<Asking>> /\ toOwner = <<>>
       \/ manager = "serve" /\ toManager = <<>> /\ toOwner = <<Follow(0)>>
       \/ manager = "read" /\ toManager = <<>> /\ toOwner = <<Follow(BLOCKSIZE)>> /\ off = 0
  /\ owner = "data" =>
       \/ manager = "read" /\ toManager = <<Msg("EXPECT")>> /\ toOwner = <<>> /\ off = pos
       \/ /\ toManager = <<>> /\ toOwner = Data(chunk(file[At], pos))
          /\ off = pos + Size(pos)
          /\ manager = IF off = BLOCKSIZE THEN "serve" ELSE "read"
  /\ owner = "expect" =>
       \/ manager = "serve" /\ toManager = <<Asking>> /\ toOwner = <<>> /\ pos = 0
       \/ manager = "serve" /\ toManager = <<>> /\ toOwner \in {<<>>, <<Msg("OVER")>>}
       \/ manager = "write" /\ toManager = <<>> /\ toOwner = <<Msg("EXPECT")>> /\ off = pos
       \/ manager = "write" /\ toManager # <<>>
  /\ owner \in {"expect", "over"} /\ manager = "write" /\ toManager # <<>> =>
       toOwner = <<>> /\ pos = off + Size(off)
  /\ owner = "over" =>
       \/ manager = "serve" /\ toManager = <<>> /\ toOwner = <<Msg("OVER")>> /\ off = BLOCKSIZE
       \/ manager = "write" /\ toManager # <<>>
  /\ owner = "bye" => manager = "serve" /\ toManager = <<Msg("E")>> /\ toOwner = <<>>

\* The types of all but the streams.
ValuesOK ==
  /\ file \in [Sector -> [Unit -> Value]]
  /\ owner \in {"idle", "follow", "data", "expect", "over", "bye", "done", "dead"}
  /\ op \in [cmd : {"R", "W"}, at : Asked] \cup {NONE}
  /\ block \in [Unit -> Value \cup {Stale}]
  /\ pos \in 0 .. BLOCKSIZE
  /\ manager \in {"serve", "read", "write", "ended"}
  /\ at \in Sector /\ off \in 0 .. BLOCKSIZE /\ n \in 0 .. Chunks

IInv ==
  /\ ValuesOK
  /\ toManager \in Seq(ForManager) /\ toOwner \in Seq(ForOwner)
  /\ OwnerInv
  /\ manager # "ended" => ManagerInv
  /\ ~OwnerGone /\ manager # "ended" => Joint

-----------------------------------------------------------------------------
\* The smaller of two sizes, and the parts of a block.
LEMMA LeastFacts ==
  /\ \A a, b \in Nat : Least(a, b) \in Nat /\ Least(a, b) <= a /\ Least(a, b) <= b
  /\ \A a, b \in Nat : Least(a, b) = a \/ Least(a, b) = b
  /\ \A a \in Nat : Least(a, a) = a
  /\ \A from \in 0 .. BLOCKSIZE - 1 :
       Size(from) \in 1 .. BUFFER_SIZE /\ from + Size(from) \in from + 1 .. BLOCKSIZE
BY SizeAssumption DEF Least, Size

\* Nothing can be read from an empty stream.
LEMMA NothingToRead ==
  ASSUME Whole, NEW most \in Nat
  PROVE  Reads(<<>>, most) = {}
BY DEF Whole, Reads, Least

\* A string is read as it was written, whatever room there is.
LEMMA StringRead ==
  ASSUME Whole, NEW msg, msg.kind # "data", NEW most \in Nat \ {0}
  PROVE  /\ Reads(<<msg>>, most) = {1} /\ Len(<<msg>>) = 1
         /\ Rest(<<msg>>, 1) = <<>>
         /\ get_msg(<<msg>>, 1) = msg
         /\ Append(<<>>, msg) = <<msg>> /\ <<msg>> # <<>>
<1>1. Len(<<msg>>) = 1 /\ Append(<<>>, msg) = <<msg>> /\ <<msg>> # <<>> /\ <<msg>>[1] = msg
  OBVIOUS
<1>2. Least(most, 1) = 1
  BY DEF Least
<1>3. Reads(<<msg>>, most) = {1}
  BY <1>1, <1>2 DEF Whole, Reads
<1>4. Rest(<<msg>>, 1) = <<>>
  BY <1>1, SubSeqEmpty DEF Rest
<1>5. get_msg(<<msg>>, 1) = msg
  BY <1>1 DEF get_msg
<1> QED
  BY <1>1, <1>3, <1>4, <1>5

\* A chunk arrives whole, and fills its part of a block and no other.
LEMMA ChunkRead ==
  ASSUME Whole, NEW b \in [Unit -> Value], NEW from \in 0 .. BLOCKSIZE - 1,
         NEW most \in Nat, Size(from) <= most
  PROVE  /\ Data(chunk(b, from)) \in Seq([kind : {"data"}, val : Value])
         /\ Len(Data(chunk(b, from))) = Size(from) /\ Len(chunk(b, from)) = Size(from)
         /\ Data(chunk(b, from)) # <<>> /\ Data(chunk(b, from))[1].kind = "data"
         /\ Reads(Data(chunk(b, from)), most) = {Size(from)}
         /\ Rest(Data(chunk(b, from)), Size(from)) = <<>>
         /\ \A d : Filled(d, from, SubSeq(Data(chunk(b, from)), 1, Size(from))) =
              [u \in Unit |-> IF u \in from + 1 .. from + Size(from) THEN b[u] ELSE d[u]]
<1> DEFINE size == Size(from)
           part == chunk(b, from)
           data == Data(part)
<1>1. size \in 1 .. BUFFER_SIZE /\ size \in Nat /\ from + size <= BLOCKSIZE
  <2>1. size \in 1 .. BUFFER_SIZE /\ from + size \in from + 1 .. BLOCKSIZE
    BY LeastFacts
  <2> QED
    BY <2>1, SizeAssumption
<1>2. part = [i \in 1 .. size |-> b[from + i]]
  BY DEF chunk, Size
<1>3. \A i \in 1 .. size : from + i \in Unit
  BY <1>1, SizeAssumption DEF Unit
<1> HIDE DEF size, part
<1>4. part \in [1 .. size -> Value]
  BY <1>2, <1>3
<1>5. part \in Seq(Value) /\ Len(part) = size
  <2>1. part \in Seq(Value)
    BY <1>1, <1>4, SeqDef
  <2>2. 1 .. Len(part) = 1 .. size /\ Len(part) \in Nat
    BY <1>4, <2>1, LenProperties
  <2> QED
    BY <1>1, <2>1, <2>2
<1>6. data = [i \in 1 .. size |-> [kind |-> "data", val |-> b[from + i]]]
  BY <1>2 DEF Data
<1>7. data \in [1 .. size -> [kind : {"data"}, val : Value]]
  BY <1>3, <1>6
<1> HIDE DEF data
<1>8. data \in Seq([kind : {"data"}, val : Value]) /\ Len(data) = size
  <2>1. data \in Seq([kind : {"data"}, val : Value])
    <3> DEFINE D == [kind : {"data"}, val : Value]
    <3> HIDE DEF D
    <3>1. data \in [1 .. size -> D]
      BY <1>7 DEF D
    <3>2. data \in Seq(D)
      BY <1>1, <3>1, SeqDef
    <3> QED
      BY <3>2 DEF D
  <2>2. 1 .. Len(data) = 1 .. size /\ Len(data) \in Nat
    BY <1>7, <2>1, LenProperties
  <2> QED
    BY <1>1, <2>1, <2>2
<1>9. data # <<>> /\ data[1].kind = "data"
  BY <1>1, <1>6, <1>8
<1>10. Reads(data, most) = {size}
  <2>1. Least(most, size) = size
    BY <1>1 DEF Least, size
  <2> QED
    BY <1>1, <1>8, <2>1 DEF Whole, Reads
<1>11. Rest(data, size) = <<>>
  BY <1>1, <1>8, SubSeqEmpty DEF Rest
<1>12. SubSeq(data, 1, size) = data
  BY <1>8, SubSeqFull
<1>13. ASSUME NEW d
       PROVE  Filled(d, from, data) =
                [u \in Unit |-> IF u \in from + 1 .. from + size THEN b[u] ELSE d[u]]
  <2>1. DOMAIN data = 1 .. size
    BY <1>7
  <2>2. ASSUME NEW u \in Unit
        PROVE  (IF u - from \in DOMAIN data THEN Val(data[u - from]) ELSE d[u]) =
                 (IF u \in from + 1 .. from + size THEN b[u] ELSE d[u])
    <3>1. u - from \in 1 .. size <=> u \in from + 1 .. from + size
      BY <1>1 DEF Unit
    <3>2. u - from \in 1 .. size => Val(data[u - from]) = b[u]
      BY <1>1, <1>6 DEF Val, Unit
    <3> QED
      BY <2>1, <3>1, <3>2
  <2> QED
    BY <2>2 DEF Filled
<1> QED
  BY <1>5, <1>8, <1>9, <1>10, <1>11, <1>12, <1>13 DEF size, part, data

\* A block address on the disk has a place in DISK_FILE, and one of its own.
LEMMA PlaceOnDisk ==
  ASSUME NEW a \in Asked, OnDisk(a)
  PROVE  get_offset(a) \in Sector
<1>1. a[1] \in Nat /\ a[2] \in Nat /\ a[1] + 1 <= CYLINDERS /\ a[2] < SECTORS
  BY SizeAssumption DEF OnDisk
<1>2. a[1] * SECTORS \in Nat /\ (a[1] + 1) * SECTORS = a[1] * SECTORS + SECTORS
  BY <1>1, SizeAssumption
<1>3. (a[1] + 1) * SECTORS <= CYLINDERS * SECTORS
  BY <1>1, SizeAssumption
<1>4. CYLINDERS * SECTORS \in Nat
  BY SizeAssumption
<1> QED
  BY <1>1, <1>2, <1>3, <1>4, SizeAssumption DEF get_offset, Sector

\* ... which no other address has: get_offset is one to one.
LEMMA PlaceIsItsOwn ==
  ASSUME NEW a \in Asked, NEW b \in Asked, OnDisk(a), OnDisk(b),
         get_offset(a) = get_offset(b)
  PROVE  a = b
<1>1. /\ a[1] \in Nat /\ a[2] \in 0 .. SECTORS - 1 /\ a = <<a[1], a[2]>>
      /\ b[1] \in Nat /\ b[2] \in 0 .. SECTORS - 1 /\ b = <<b[1], b[2]>>
  BY SizeAssumption DEF OnDisk
<1>2. a[1] * SECTORS + a[2] = b[1] * SECTORS + b[2]
  BY DEF get_offset
<1>3. a[1] = b[1]
  <2>1. ASSUME NEW x \in Nat, NEW y \in Nat, x < y
        PROVE  x * SECTORS + SECTORS <= y * SECTORS /\ x * SECTORS \in Nat /\ y * SECTORS \in Nat
    <3>1. (x + 1) * SECTORS <= y * SECTORS
      BY <2>1, SizeAssumption
    <3> QED
      BY <3>1, SizeAssumption
  <2>2. ~(a[1] < b[1])
    BY <1>1, <1>2, <2>1, SizeAssumption
  <2>3. ~(b[1] < a[1])
    BY <1>1, <1>2, <2>1, SizeAssumption
  <2> QED
    BY <1>1, <2>2, <2>3
<1>4. a[1] * SECTORS \in Nat
  BY <1>1, SizeAssumption
<1> QED
  BY <1>1, <1>2, <1>3, <1>4

\* write_block announces as many chunks as it will send.
LEMMA ChunksAnnounced ==
  /\ Chunks \in Nat \ {0}
  /\ (Chunks - 1) * BUFFER_SIZE < BLOCKSIZE /\ BLOCKSIZE <= Chunks * BUFFER_SIZE
<1> DEFINE q == (BLOCKSIZE - 1) \div BUFFER_SIZE
           r == (BLOCKSIZE - 1) % BUFFER_SIZE
           m == BUFFER_SIZE * q
<1>1. q \in Nat /\ r \in 0 .. BUFFER_SIZE - 1 /\ BLOCKSIZE - 1 = m + r /\ m \in Nat
  BY SizeAssumption
<1>2. Chunks = q + 1
  BY DEF Chunks
<1>3. (q + 1) * BUFFER_SIZE = m + BUFFER_SIZE /\ ((q + 1) - 1) * BUFFER_SIZE = m
  BY <1>1, SizeAssumption
<1> HIDE DEF q, r, m
<1>4. m < BLOCKSIZE /\ BLOCKSIZE <= m + BUFFER_SIZE
  BY <1>1, SizeAssumption
<1> QED
  BY <1>1, <1>2, <1>3, <1>4

\* write_disk has counted its last chunk exactly when the block is complete.
LEMMA CountDown ==
  ASSUME NEW rest \in 1 .. BLOCKSIZE, NEW k \in Nat,
         (k - 1) * BUFFER_SIZE < rest, rest <= k * BUFFER_SIZE
  PROVE  LET size == Least(BUFFER_SIZE, rest)
         IN  /\ k - 1 \in Nat
             /\ k - 1 = 0 <=> size = rest
             /\ k - 1 # 0 => /\ (k - 1 - 1) * BUFFER_SIZE < rest - size
                             /\ rest - size <= (k - 1) * BUFFER_SIZE
<1> DEFINE m == (k - 1) * BUFFER_SIZE
<1>1. k # 0
  BY SizeAssumption
<1>2. /\ k - 1 \in Nat /\ m \in Nat /\ k * BUFFER_SIZE = m + BUFFER_SIZE
      /\ (k - 1 - 1) * BUFFER_SIZE = m - BUFFER_SIZE
  BY <1>1, SizeAssumption
<1>3. k - 1 # 0 => m >= BUFFER_SIZE
  <2> SUFFICES ASSUME k - 1 # 0 PROVE m >= BUFFER_SIZE
    OBVIOUS
  <2>1. k - 2 \in Nat
    BY <1>2
  <2>2. (k - 2) * BUFFER_SIZE \in Nat /\ m = (k - 2) * BUFFER_SIZE + BUFFER_SIZE
    BY <2>1, SizeAssumption
  <2> QED
    BY <2>2, SizeAssumption
<1>4. k - 1 = 0 => m = 0
  BY SizeAssumption
<1>5. m < rest /\ rest <= m + BUFFER_SIZE
  BY <1>2
<1> HIDE DEF m
<1>6. /\ k - 1 = 0 <=> Least(BUFFER_SIZE, rest) = rest
      /\ k - 1 # 0 => /\ m - BUFFER_SIZE < rest - Least(BUFFER_SIZE, rest)
                      /\ rest - Least(BUFFER_SIZE, rest) <= m
  BY <1>2, <1>3, <1>4, <1>5, SizeAssumption DEF Least
<1> QED
  BY <1>2, <1>6 DEF m

\* No two strings of the conversation are taken for one another.
LEMMA Strings ==
  /\ \A s : Msg(s).kind = s
  /\ \A s, t : Msg(s) = Msg(t) <=> s = t
  /\ \A num : Follow(num).kind = "FOLLOW"
  /\ \A num, k : Follow(num) = Follow(k) <=> num = k
  /\ \A num : Follow(num) # Msg("NULL")
  /\ \A cmd, a, k : /\ Command(cmd, a, k).kind = cmd
                    /\ Command(cmd, a, k).at = a /\ Command(cmd, a, k).n = k
  /\ Msg("E") \in ForManager /\ Msg("EXPECT") \in ForManager
  /\ \A cmd \in {"R", "W"}, a \in Asked, k \in Nat : Command(cmd, a, k) \in ForManager
  /\ \A s \in {"EXPECT", "OVER", "BYE"} : Msg(s) \in ForOwner
  /\ \A num \in Nat : Follow(num) \in ForOwner
BY DEF Msg, Follow, Command, ForManager, ForOwner

\* A unit of data belongs to either stream.
LEMMA DataUnits ==
  /\ [kind : {"data"}, val : Value] \subseteq ForManager
  /\ [kind : {"data"}, val : Value] \subseteq ForOwner
BY DEF ForManager, ForOwner

\* The streams grow and shrink within their types.
LEMMA StreamTypes ==
  ASSUME NEW S, NEW stream \in Seq(S)
  PROVE  /\ Len(stream) \in Nat /\ <<>> \in Seq(S)
         /\ \A msg \in S : Append(stream, msg) \in Seq(S)
         /\ \A other \in Seq(S) : stream \o other \in Seq(S)
         /\ \A k \in 1 .. Len(stream) : Rest(stream, k) \in Seq(S)
<1>1. ASSUME NEW k \in 1 .. Len(stream) PROVE Rest(stream, k) \in Seq(S)
  BY SubSeqProperties, LenProperties DEF Rest
<1>2. /\ Len(stream) \in Nat /\ <<>> \in Seq(S)
      /\ \A msg \in S : Append(stream, msg) \in Seq(S)
  BY LenProperties, EmptySeq
<1>3. ASSUME NEW other \in Seq(S) PROVE stream \o other \in Seq(S)
  BY ConcatProperties
<1> QED
  BY <1>1, <1>2, <1>3

\* The owner begins with nothing on its way, and the manager waits for it.
LEMMA AtRest ==
  ASSUME IInv, owner = "idle"
  PROVE  /\ op = NONE /\ toOwner = <<>>
         /\ manager # "ended" => manager = "serve" /\ toManager = <<>>
BY DEF IInv, OwnerInv, Joint, OwnerGone

-----------------------------------------------------------------------------
\* Two programs just started are in step.
LEMMA InitIInv == Init => IInv
<1> SUFFICES ASSUME Init PROVE IInv
  OBVIOUS
<1>1. 0 \in Sector
  <2>1. CYLINDERS * SECTORS \in Nat \ {0}
    BY SizeAssumption
  <2> QED
    BY <2>1 DEF Sector
<1>2. ValuesOK
  BY <1>1, SizeAssumption, ChunksAnnounced DEF Init, ValuesOK, StaleBlock
<1>3. toManager \in Seq(ForManager) /\ toOwner \in Seq(ForOwner)
  BY EmptySeq DEF Init
<1>4. OwnerInv /\ ManagerInv /\ Joint
  BY DEF Init, OwnerInv, ManagerInv, Joint
<1> QED
  BY <1>2, <1>3, <1>4 DEF IInv

\* A read begins with its command.
LEMMA ReadBlockStep ==
  ASSUME Whole, IInv, NEW a \in Asked, read_block(a)
  PROVE  IInv'
<1>1. /\ owner' = "follow" /\ op' = [cmd |-> "R", at |-> a] /\ toOwner' = <<>>
      /\ manager # "ended" => manager' = "serve" /\ toManager = <<>>
  BY AtRest DEF read_block, managerVars
<1>2. ValuesOK'
  BY SizeAssumption DEF read_block, managerVars, IInv, ValuesOK, StaleBlock
<1>3. toManager' \in Seq(ForManager) /\ toOwner' \in Seq(ForOwner)
  BY Strings, StreamTypes DEF read_block, IInv
<1>4. OwnerInv'
  BY <1>1 DEF read_block, OwnerInv, Reading
<1>5. CASE manager = "ended"
  BY <1>2, <1>3, <1>4, <1>5 DEF read_block, managerVars, IInv
<1>6. CASE manager # "ended"
  <2>1. toManager' = <<Command("R", a, 0)>> /\ Reading'
    BY <1>1, <1>6 DEF read_block, Reading
  <2>2. Asking' = Command("R", a, 0)
    BY <1>1 DEF Asking
  <2>3. ManagerInv' /\ Joint'
    BY <1>1, <1>6, <2>1, <2>2 DEF ManagerInv, Joint
  <2> QED
    BY <1>2, <1>3, <1>4, <2>3 DEF IInv
<1> QED
  BY <1>5, <1>6

\* A write begins with its command, which announces the chunks.
LEMMA WriteBlockStep ==
  ASSUME Whole, IInv, NEW a \in Asked, NEW src \in [Unit -> Value], write_block(a, src)
  PROVE  IInv'
<1>1. /\ owner' = "expect" /\ op' = [cmd |-> "W", at |-> a] /\ toOwner' = <<>>
      /\ manager # "ended" => manager' = "serve" /\ toManager = <<>>
  BY AtRest DEF write_block, managerVars
<1>2. ValuesOK'
  BY SizeAssumption DEF write_block, managerVars, IInv, ValuesOK
<1>3. toManager' \in Seq(ForManager) /\ toOwner' \in Seq(ForOwner)
  BY Strings, StreamTypes, ChunksAnnounced DEF write_block, IInv
<1>4. OwnerInv'
  BY <1>1, SizeAssumption DEF write_block, OwnerInv, Writing
<1>5. CASE manager = "ended"
  BY <1>2, <1>3, <1>4, <1>5 DEF write_block, managerVars, IInv
<1>6. CASE manager # "ended"
  <2>1. toManager' = <<Command("W", a, Chunks)>> /\ Writing'
    BY <1>1, <1>6 DEF write_block, Writing
  <2>2. Asking' = Command("W", a, Chunks)
    BY <1>1 DEF Asking, Chunks
  <2>3. ManagerInv' /\ Joint'
    BY <1>1, <1>6, <2>1, <2>2 DEF write_block, ManagerInv, Joint
  <2> QED
    BY <1>2, <1>3, <1>4, <2>3 DEF IInv
<1> QED
  BY <1>5, <1>6

\* The owner says goodbye when it has nothing else to do.
LEMMA SendEndStep ==
  ASSUME Whole, IInv, send_end
  PROVE  IInv'
<1>1. /\ owner' = "bye" /\ op' = NONE /\ toOwner' = <<>>
      /\ manager # "ended" => manager' = "serve" /\ toManager = <<>>
  BY AtRest DEF send_end, managerVars
<1>2. ValuesOK'
  BY DEF send_end, managerVars, IInv, ValuesOK
<1>3. toManager' \in Seq(ForManager) /\ toOwner' \in Seq(ForOwner)
  BY Strings, StreamTypes DEF send_end, IInv
<1>4. OwnerInv'
  BY <1>1 DEF OwnerInv
<1>5. CASE manager = "ended"
  BY <1>2, <1>3, <1>4, <1>5 DEF send_end, managerVars, IInv
<1>6. CASE manager # "ended"
  <2>1. toManager' = <<Msg("E")>>
    BY <1>1, <1>6 DEF send_end
  <2>2. ManagerInv' /\ Joint'
    BY <1>1, <1>6, <2>1 DEF ManagerInv, Joint
  <2> QED
    BY <1>2, <1>3, <1>4, <2>2 DEF IInv
<1> QED
  BY <1>5, <1>6

\* The reply to a read: the transfer begins if there is such a block.
LEMMA GetFollowStep ==
  ASSUME Whole, IInv, get_follow
  PROVE  /\ IInv'
         /\ Reading /\ (op' = op \/ ~OnDisk(op.at))
<1>1. /\ owner = "follow" /\ Reading /\ block = StaleBlock /\ pos = 0
      /\ \/ toOwner = <<Follow(0)>> /\ ~OnDisk(op.at)
         \/ toOwner = <<Follow(BLOCKSIZE)>> /\ OnDisk(op.at)
  <2>1. toOwner # <<>>
    BY NothingToRead DEF get_follow
  <2> QED
    BY <2>1 DEF get_follow, IInv, OwnerInv
<1>2. PICK num \in {0, BLOCKSIZE} :
        toOwner = <<Follow(num)>> /\ (num # 0 <=> OnDisk(op.at))
  BY <1>1, SizeAssumption
<1>3. /\ toOwner' = <<>>
      /\ IF num = BLOCKSIZE
         THEN owner' = "data" /\ toManager' = Append(toManager, Msg("EXPECT")) /\ op' = op
         ELSE owner' = "idle" /\ toManager' = toManager /\ op' = NONE
  <2>1. Follow(num).kind # "data"
    BY Strings
  <2>2. /\ Reads(toOwner, Len(toOwner)) = {1} /\ Rest(toOwner, 1) = <<>>
        /\ get_msg(toOwner, 1) = Follow(num)
    <3>1. Len(<<Follow(num)>>) = 1 /\ 1 \in Nat \ {0}
      OBVIOUS
    <3> QED
      BY <1>2, <2>1, <3>1, StringRead
  <2>3. /\ toOwner' = <<>>
        /\ IF Follow(num) = Follow(BLOCKSIZE)
           THEN owner' = "data" /\ toManager' = Append(toManager, Msg("EXPECT"))
           ELSE owner' = (IF Follow(num) = Msg("NULL") THEN "dead" ELSE "idle")
                  /\ toManager' = toManager
        /\ op' = IF owner' = "idle" THEN NONE ELSE op
    BY <2>2 DEF get_follow
  <2> QED
    BY <2>3, Strings
<1>4. ValuesOK' /\ Reading /\ (op' = op \/ ~OnDisk(op.at))
  <2>1. ValuesOK'
    BY <1>3 DEF get_follow, managerVars, IInv, ValuesOK
  <2> QED
    BY <1>1, <1>2, <1>3, <2>1
<1>5. toManager' \in Seq(ForManager) /\ toOwner' \in Seq(ForOwner)
  BY <1>3, Strings, StreamTypes DEF IInv
<1>6. CASE num = BLOCKSIZE
  <2>1. OnDisk(op.at)
    BY <1>2, <1>6, SizeAssumption
  <2>2. OwnerInv'
    BY <1>1, <1>3, <1>6, <2>1, SizeAssumption
       DEF get_follow, managerVars, OwnerInv, Reading, SameUpTo, At, StaleBlock, Unit, OnDisk
  <2>3. CASE manager = "ended"
    BY <1>4, <1>5, <2>2, <2>3 DEF get_follow, managerVars, IInv
  <2>4. CASE manager # "ended"
    <3>1. manager = "read" /\ toManager = <<>> /\ off = 0
      <4>1. <<Follow(BLOCKSIZE)>> # <<Follow(0)>> /\ <<Follow(BLOCKSIZE)>> # <<>>
        BY Strings, SizeAssumption
      <4> QED
        BY <1>1, <1>2, <1>6, <2>4, <4>1 DEF IInv, Joint, OwnerGone
    <3>2. toManager' = <<Msg("EXPECT")>>
      BY <1>3, <1>6, <3>1
    <3>3. ManagerInv' /\ Joint'
      BY <1>1, <1>3, <1>6, <2>4, <3>1, <3>2
         DEF get_follow, managerVars, IInv, ManagerInv, Joint, Reading, At, OnDisk
    <3> QED
      BY <1>4, <1>5, <2>2, <3>3 DEF IInv
  <2> QED
    BY <2>3, <2>4
<1>7. CASE num # BLOCKSIZE
  <2>1. OwnerInv'
    BY <1>3, <1>7 DEF OwnerInv
  <2>2. CASE manager = "ended"
    BY <1>4, <1>5, <2>1, <2>2 DEF get_follow, managerVars, IInv
  <2>3. CASE manager # "ended"
    <3>1. manager = "serve" /\ toManager = <<>>
      <4>1. toOwner = <<Follow(0)>> /\ <<Follow(0)>> # <<Follow(BLOCKSIZE)>> /\ <<Follow(0)>> # <<>>
        BY <1>2, <1>7, Strings, SizeAssumption
      <4> QED
        BY <1>1, <2>3, <4>1 DEF IInv, Joint, OwnerGone
    <3>2. ManagerInv' /\ Joint'
      BY <1>3, <1>7, <3>1 DEF get_follow, managerVars, ManagerInv, Joint
    <3> QED
      BY <1>4, <1>5, <2>1, <3>2 DEF IInv
  <2> QED
    BY <2>2, <2>3
<1> QED
  BY <1>6, <1>7

\* A chunk is read: it continues what the owner has of the block.
LEMMA GetDataStep ==
  ASSUME Whole, IInv, get_data
  PROVE  /\ IInv'
         /\ Reading /\ file' = file /\ manager' = manager
         /\ \/ owner' = "data" /\ op' = op
            \/ owner' = "idle" /\ op' = NONE /\ block' = file[At]
<1> DEFINE size == Size(pos)
<1>1. /\ owner = "data" /\ Reading /\ OnDisk(op.at) /\ pos \in 0 .. BLOCKSIZE - 1
      /\ SameUpTo(block, file[At], pos)
      /\ At \in Sector /\ file[At] \in [Unit -> Value]
  <2>1. owner = "data" /\ Reading /\ OnDisk(op.at) /\ pos < BLOCKSIZE
        /\ SameUpTo(block, file[At], pos)
    BY DEF get_data, IInv, OwnerInv
  <2>2. At \in Sector
    BY <2>1, PlaceOnDisk DEF At, Reading
  <2> QED
    BY <2>1, <2>2, SizeAssumption DEF IInv, ValuesOK
<1>2. size \in 1 .. BUFFER_SIZE /\ size \in Nat /\ pos + size \in pos + 1 .. BLOCKSIZE
  BY <1>1, LeastFacts
<1>3. toOwner = Data(chunk(file[At], pos))
  <2>1. toOwner # <<>>
    BY <1>2, NothingToRead DEF get_data, Size
  <2> QED
    BY <1>1, <2>1 DEF IInv, OwnerInv
<1>4. /\ Reads(toOwner, size) = {size} /\ Rest(toOwner, size) = <<>>
      /\ toOwner # <<>>
      /\ Filled(block, pos, SubSeq(toOwner, 1, size)) =
           [u \in Unit |-> IF u \in pos + 1 .. pos + size THEN file[At][u] ELSE block[u]]
  BY <1>1, <1>2, <1>3, ChunkRead DEF size
<1> HIDE DEF size
<1>5. /\ toOwner' = <<>> /\ pos' = pos + size
      /\ block' = [u \in Unit |-> IF u \in pos + 1 .. pos + size THEN file[At][u] ELSE block[u]]
      /\ IF pos + size = BLOCKSIZE
         THEN owner' = "idle" /\ op' = NONE /\ toManager' = toManager
         ELSE toManager' = Append(toManager, Msg("EXPECT")) /\ owner' = owner /\ op' = op
      /\ file' = file /\ managerVars' = managerVars
  BY <1>4 DEF get_data, size, Size
<1>6. ValuesOK'
  <2>1. block' \in [Unit -> Value \cup {Stale}]
    BY <1>1, <1>5 DEF IInv, ValuesOK
  <2>2. pos' \in 0 .. BLOCKSIZE
    BY <1>1, <1>2, <1>5, SizeAssumption
  <2> QED
    BY <1>1, <1>5, <2>1, <2>2 DEF managerVars, IInv, ValuesOK
<1>7. toManager' \in Seq(ForManager) /\ toOwner' \in Seq(ForOwner)
  <2>1. Append(toManager, Msg("EXPECT")) \in Seq(ForManager) /\ <<>> \in Seq(ForOwner)
    BY Strings, StreamTypes DEF IInv
  <2> QED
    BY <1>5, <2>1 DEF IInv
<1>8. CASE pos + size = BLOCKSIZE
  <2>1. OwnerInv'
    BY <1>5, <1>8 DEF OwnerInv
  <2>2. ASSUME manager # "ended" PROVE ManagerInv' /\ Joint'
    <3>1. manager = "serve" /\ toManager = <<>>
      BY <1>1, <1>4, <1>8, <2>2 DEF IInv, Joint, OwnerGone, size
    <3> QED
      BY <1>5, <1>8, <3>1 DEF managerVars, ManagerInv, Joint
  <2>3. block' = file[At]
    <3> SUFFICES ASSUME NEW u \in Unit PROVE block'[u] = file[At][u]
      BY <1>1, <1>5
    <3>1. u \in pos + 1 .. pos + size \/ u <= pos
      BY <1>1, <1>2, <1>8 DEF Unit
    <3> QED
      BY <1>1, <1>5, <3>1 DEF SameUpTo
  <2> QED
    BY <1>1, <1>5, <1>6, <1>7, <1>8, <2>1, <2>2, <2>3 DEF IInv, managerVars
<1>9. CASE pos + size # BLOCKSIZE
  <2>1. OwnerInv'
    <3>1. SameUpTo(block', file[At], pos + size)
      <4> SUFFICES ASSUME NEW u \in Unit, u <= pos + size
                   PROVE  block'[u] = file[At][u]
        BY DEF SameUpTo
      <4>1. u \in pos + 1 .. pos + size \/ u <= pos
        BY <1>1, <1>2 DEF Unit
      <4> QED
        BY <1>1, <1>5, <4>1 DEF SameUpTo
    <3>2. At' = At
      BY <1>5, <1>9 DEF At
    <3>3. pos' < BLOCKSIZE
      BY <1>1, <1>2, <1>5, <1>9, SizeAssumption
    <3> QED
      BY <1>1, <1>5, <1>9, <3>1, <3>2, <3>3 DEF OwnerInv, Reading, OnDisk
  <2>2. ASSUME manager # "ended" PROVE ManagerInv' /\ Joint'
    <3>1. manager = "read" /\ toManager = <<>> /\ off = pos + size
      BY <1>1, <1>4, <1>9, <2>2 DEF IInv, Joint, OwnerGone, size
    <3>2. toManager' = <<Msg("EXPECT")>>
      BY <1>5, <1>9, <3>1
    <3> QED
      BY <1>1, <1>5, <1>9, <2>2, <3>1, <3>2
         DEF managerVars, IInv, ManagerInv, Joint, Reading, At, OnDisk
  <2> QED
    BY <1>1, <1>5, <1>6, <1>7, <1>9, <2>1, <2>2 DEF IInv, managerVars
<1> QED
  BY <1>8, <1>9

\* The manager asks for a chunk and gets it; to a block it does not have it
\* says so, and the owner waits on.
LEMMA SendDataStep ==
  ASSUME Whole, IInv, send_data
  PROVE  IInv'
<1>1. /\ owner = "expect" /\ Writing /\ pos \in 0 .. BLOCKSIZE - 1
      /\ \/ toOwner = <<Msg("OVER")>>
         \/ toOwner = <<Msg("EXPECT")>> /\ OnDisk(op.at)
  <2>1. toOwner # <<>>
    BY NothingToRead DEF send_data
  <2>2. pos < BLOCKSIZE /\ pos \in 0 .. BLOCKSIZE
    BY DEF send_data, IInv, OwnerInv, ValuesOK
  <2> QED
    BY <2>1, <2>2, SizeAssumption DEF send_data, IInv, OwnerInv
<1>2. /\ Data(chunk(block, pos)) \in Seq([kind : {"data"}, val : Value])
      /\ Len(chunk(block, pos)) = Size(pos) /\ Data(chunk(block, pos)) # <<>>
      /\ Size(pos) \in 1 .. BUFFER_SIZE /\ pos + Size(pos) \in pos + 1 .. BLOCKSIZE
  <2>1. Size(pos) \in 1 .. BUFFER_SIZE /\ pos + Size(pos) \in pos + 1 .. BLOCKSIZE
    BY <1>1, LeastFacts
  <2>2. Size(pos) \in Nat /\ Size(pos) <= Size(pos)
    BY <2>1
  <2>3. block \in [Unit -> Value]
    BY <1>1 DEF Writing
  <2> QED
    BY <1>1, <2>1, <2>2, <2>3, ChunkRead
<1>3. CASE toOwner = <<Msg("EXPECT")>>
  <2>1. /\ Reads(toOwner, Len(toOwner)) = {1} /\ Rest(toOwner, 1) = <<>>
        /\ get_msg(toOwner, 1) = Msg("EXPECT")
    <3>1. Len(<<Msg("EXPECT")>>) \in Nat \ {0} /\ Msg("EXPECT").kind # "data"
      BY Strings
    <3> QED
      BY <1>3, <3>1, StringRead
  <2>2. /\ toOwner' = <<>> /\ pos' = pos + Size(pos)
        /\ toManager' = toManager \o Data(chunk(block, pos))
        /\ owner' = IF pos + Size(pos) = BLOCKSIZE THEN "over" ELSE "expect"
        /\ file' = file /\ op' = op /\ block' = block /\ managerVars' = managerVars
    BY <1>1, <1>2, <2>1 DEF send_data
  <2>3. ValuesOK'
    BY <1>1, <1>2, <2>2 DEF managerVars, IInv, ValuesOK
  <2>4. toManager' \in Seq(ForManager) /\ toOwner' \in Seq(ForOwner)
    <3>1. Data(chunk(block, pos)) \in Seq(ForManager)
      BY <1>2, DataUnits, SeqMonotonic
    <3>2. toManager \o Data(chunk(block, pos)) \in Seq(ForManager)
      BY <3>1, StreamTypes DEF IInv
    <3> QED
      BY <2>2, <3>2, EmptySeq
  <2>5. OwnerInv'
    <3>1. owner' = "expect" => pos' < BLOCKSIZE
      BY <1>2, <2>2, SizeAssumption
    <3> QED
      BY <1>1, <2>2, <3>1 DEF OwnerInv, Writing
  <2>6. ASSUME manager # "ended" PROVE ManagerInv' /\ Joint'
    <3>1. manager = "write" /\ toManager = <<>> /\ off = pos
      <4>1. <<Msg("EXPECT")>> # <<Msg("OVER")>> /\ <<Msg("EXPECT")>> # <<>>
        BY Strings
      <4> QED
        BY <1>1, <1>3, <2>6, <4>1 DEF IInv, Joint, OwnerGone
    <3>2. toManager' = Data(chunk(block, pos))
      BY <1>2, <2>2, <3>1, ConcatEmptySeq
    <3>3. ManagerInv'
      BY <2>2, <2>6, <3>1, <3>2
         DEF managerVars, IInv, ManagerInv, Writing, At, OnDisk, SameUpTo
    <3>4. Joint'
      BY <1>2, <2>2, <3>1, <3>2 DEF managerVars, Joint
    <3> QED
      BY <3>3, <3>4
  <2> QED
    BY <2>2, <2>3, <2>4, <2>5, <2>6 DEF IInv, managerVars
<1>4. CASE toOwner = <<Msg("OVER")>>
  <2>1. /\ Reads(toOwner, Len(toOwner)) = {1} /\ Rest(toOwner, 1) = <<>>
        /\ get_msg(toOwner, 1) = Msg("OVER")
    <3>1. Len(<<Msg("OVER")>>) \in Nat \ {0} /\ Msg("OVER").kind # "data"
      BY Strings
    <3> QED
      BY <1>4, <3>1, StringRead
  <2>2. /\ toOwner' = <<>> /\ owner' = owner
        /\ toManager' = toManager /\ pos' = pos
        /\ file' = file /\ op' = op /\ block' = block /\ managerVars' = managerVars
    BY <1>1, <2>1, Strings DEF send_data
  <2>3. ValuesOK'
    BY <2>2 DEF managerVars, IInv, ValuesOK
  <2>4. toManager' \in Seq(ForManager) /\ toOwner' \in Seq(ForOwner)
    BY <2>2, EmptySeq DEF IInv
  <2>5. OwnerInv'
    BY <1>1, <2>2 DEF IInv, OwnerInv, Writing
  <2>6. ASSUME manager # "ended" PROVE ManagerInv' /\ Joint'
    <3>1. manager = "serve" /\ toManager = <<>>
      <4>1. <<Msg("OVER")>> # <<Msg("EXPECT")>> /\ <<Msg("OVER")>> # <<>>
        BY Strings
      <4> QED
        BY <1>1, <1>4, <2>6, <4>1 DEF IInv, Joint, OwnerGone
    <3> QED
      BY <1>1, <2>2, <3>1 DEF managerVars, ManagerInv, Joint
  <2> QED
    BY <2>2, <2>3, <2>4, <2>5, <2>6 DEF IInv, managerVars
<1> QED
  BY <1>1, <1>3, <1>4

\* The end of a write.
LEMMA GetOverStep ==
  ASSUME Whole, IInv, get_over
  PROVE  /\ IInv'
         /\ Writing /\ file[At] = block /\ op' = NONE /\ owner' = "idle"
<1>1. owner = "over" /\ toOwner = <<Msg("OVER")>> /\ Writing /\ file[At] = block
  <2>1. toOwner # <<>>
    BY NothingToRead DEF get_over
  <2> QED
    BY <2>1 DEF get_over, IInv, OwnerInv
<1>2. /\ Reads(toOwner, Len(toOwner)) = {1} /\ Rest(toOwner, 1) = <<>>
      /\ get_msg(toOwner, 1) = Msg("OVER")
  <2>1. Len(<<Msg("OVER")>>) \in Nat \ {0} /\ Msg("OVER").kind # "data"
    BY Strings
  <2> QED
    BY <1>1, <2>1, StringRead
<1>3. /\ toOwner' = <<>> /\ owner' = "idle" /\ op' = NONE
      /\ toManager' = toManager /\ pos' = pos
      /\ file' = file /\ block' = block /\ managerVars' = managerVars
  BY <1>2, Strings DEF get_over
<1>4. ValuesOK'
  BY <1>3 DEF managerVars, IInv, ValuesOK
<1>5. toManager' \in Seq(ForManager) /\ toOwner' \in Seq(ForOwner)
  BY <1>3, EmptySeq DEF IInv
<1>6. OwnerInv'
  BY <1>3 DEF OwnerInv
<1>7. ASSUME manager # "ended" PROVE ManagerInv' /\ Joint'
  <2>1. manager = "serve" /\ toManager = <<>>
    <3>1. toOwner # <<>>
      BY <1>1
    <3> QED
      BY <1>1, <1>7, <3>1 DEF IInv, Joint, OwnerGone
  <2> QED
    BY <1>3, <2>1 DEF managerVars, ManagerInv, Joint
<1> QED
  BY <1>1, <1>3, <1>4, <1>5, <1>6, <1>7 DEF IInv, managerVars

\* The goodbye: the manager has ended before it arrives.
LEMMA GetByeStep ==
  ASSUME Whole, IInv, get_bye
  PROVE  IInv' /\ manager = "ended" /\ op = NONE
<1>1. owner = "bye" /\ op = NONE /\ toOwner = <<Msg("BYE")>>
  <2>1. toOwner # <<>>
    BY NothingToRead DEF get_bye
  <2> QED
    BY <2>1 DEF get_bye, IInv, OwnerInv
<1>2. /\ Reads(toOwner, Len(toOwner)) = {1} /\ Rest(toOwner, 1) = <<>>
      /\ get_msg(toOwner, 1) = Msg("BYE")
  <2>1. Len(<<Msg("BYE")>>) \in Nat \ {0} /\ Msg("BYE").kind # "data"
    BY Strings
  <2> QED
    BY <1>1, <2>1, StringRead
<1>3. manager = "ended"
  <2>1. toOwner # <<>>
    BY <1>1
  <2> QED
    BY <1>1, <2>1 DEF IInv, Joint, OwnerGone
<1>4. /\ toOwner' = <<>> /\ owner' = "done" /\ toManager' = toManager
      /\ file' = file /\ op' = op /\ block' = block /\ pos' = pos
      /\ managerVars' = managerVars
  <2>1. Msg("BYE") # Msg("NULL")
    BY Strings
  <2>2. owner' = "done"
    BY <1>2, <2>1 DEF get_bye
  <2> QED
    BY <1>1, <1>2, <2>2 DEF get_bye
<1>5. ValuesOK'
  BY <1>4 DEF managerVars, IInv, ValuesOK
<1>6. toManager' \in Seq(ForManager) /\ toOwner' \in Seq(ForOwner)
  BY <1>4, EmptySeq DEF IInv
<1>7. OwnerInv'
  BY <1>4 DEF OwnerInv
<1> QED
  BY <1>1, <1>3, <1>4, <1>5, <1>6, <1>7 DEF IInv, managerVars

\* The owner leaves, whatever it was doing.
LEMMA OwnerLeavesStep ==
  ASSUME IInv, owner_leaves
  PROVE  IInv'
<1>1. ValuesOK'
  BY DEF owner_leaves, managerVars, IInv, ValuesOK
<1>2. toManager' \in Seq(ForManager) /\ toOwner' \in Seq(ForOwner)
  BY EmptySeq DEF owner_leaves, IInv
<1>3. OwnerInv' /\ OwnerGone'
  BY DEF owner_leaves, OwnerInv, OwnerGone
<1>4. ASSUME manager # "ended" PROVE ManagerInv'
  <2>1. ManagerInv
    BY <1>4 DEF IInv
  <2>2. /\ toManager' = toManager \/ toManager' = <<>>
        /\ file' = file /\ op' = op /\ block' = block /\ manager' = manager
        /\ at' = at /\ off' = off /\ n' = n
    BY DEF owner_leaves, managerVars
  <2> QED
    BY <2>1, <2>2 DEF ManagerInv, Reading, Writing, Asking, At, OnDisk, SameUpTo
<1> QED
  BY <1>1, <1>2, <1>3, <1>4 DEF IInv, owner_leaves, managerVars

\* The owner finds the manager gone.
LEMMA OwnerFailsStep ==
  ASSUME IInv, owner_fails
  PROVE  IInv'
<1>1. ValuesOK' /\ toManager' \in Seq(ForManager) /\ toOwner' \in Seq(ForOwner)
  BY DEF owner_fails, managerVars, IInv, ValuesOK
<1>2. OwnerInv' /\ manager' = "ended"
  BY DEF owner_fails, managerVars, OwnerInv
<1> QED
  BY <1>1, <1>2 DEF IInv

\* The manager begins what it is asked for, refuses it, or ends.
LEMMA ServeStep ==
  ASSUME Whole, IInv, serve
  PROVE  IInv'
<1>1. /\ manager = "serve" /\ toManager # <<>>
      /\ toManager = <<Msg("E")>> \/ ((Reading \/ Writing) /\ toManager = <<Asking>>)
  <2>1. toManager # <<>>
    BY NothingToRead DEF serve
  <2> QED
    BY <2>1 DEF serve, IInv, ManagerInv
<1>2. /\ Reading => op.cmd = "R"
      /\ Writing => op.cmd = "W"
      /\ Reading \/ Writing => /\ op.cmd \in {"R", "W"} /\ op.at \in Asked
                               /\ op = [cmd |-> op.cmd, at |-> op.at]
                               /\ Asking.kind = op.cmd /\ Asking.at = op.at
                               /\ Asking.n = IF op.cmd = "W" THEN Chunks ELSE 0
  BY Strings DEF Reading, Writing, Asking
<1>3. PICK req :
        /\ toManager = <<req>> /\ req.kind # "data"
        /\ req = Msg("E") \/ ((Reading \/ Writing) /\ req = Asking)
  BY <1>1, <1>2, Strings
<1>4. Reads(toManager, Len(toManager)) = {1} /\ Rest(toManager, 1) = <<>>
      /\ get_msg(toManager, 1) = req
  <2>1. Len(<<req>>) \in Nat \ {0}
    OBVIOUS
  <2> QED
    BY <1>3, <2>1, StringRead
<1> DEFINE found == req.kind \in {"R", "W"} /\ OnDisk(req.at)
<1>5. /\ toManager' = <<>>
      /\ manager' = CASE req.kind = "R" /\ found -> "read"
                      [] req.kind = "W" /\ found -> "write"
                      [] req.kind \in {"E", "NULL"} -> "ended"
                      [] OTHER -> manager
      /\ toOwner' = CASE req.kind = "R"    -> Append(toOwner, Follow(IF found THEN BLOCKSIZE ELSE 0))
                      [] req.kind = "W"    -> Append(toOwner, Msg(IF found THEN "EXPECT" ELSE "OVER"))
                      [] req.kind = "E"    -> Append(toOwner, Msg("BYE"))
                      [] req.kind = "NULL" -> toOwner
                      [] OTHER             -> Append(toOwner, Msg("INVALID COMMAND"))
      /\ IF found THEN at' = get_offset(req.at) /\ off' = 0 /\ n' = req.n
         ELSE at' = at /\ off' = off /\ n' = n
  BY <1>4 DEF serve
<1>6. /\ file' = file /\ owner' = owner /\ op' = op /\ block' = block /\ pos' = pos
      /\ toManager' = <<>>
  BY <1>5 DEF serve, ownerVars
<1>7. toOwner \in Seq(ForOwner) /\ \A msg \in ForOwner : Append(toOwner, msg) \in Seq(ForOwner)
  BY StreamTypes DEF IInv
<1>8. CASE req = Msg("E")
  <2>1. ~found /\ req.kind = "E"
    BY <1>8, Strings
  <2>2. /\ manager' = "ended" /\ toOwner' = Append(toOwner, Msg("BYE"))
        /\ at' = at /\ off' = off /\ n' = n
    BY <1>5, <2>1
  <2>3. ValuesOK'
    BY <1>6, <2>2 DEF IInv, ValuesOK
  <2>4. toManager' \in Seq(ForManager) /\ toOwner' \in Seq(ForOwner)
    BY <1>6, <1>7, <2>2, EmptySeq, Strings
  <2>5. OwnerInv'
    <3>1. ~OwnerGone => owner = "bye" /\ toOwner = <<>>
      <4>1. toManager = <<Msg("E")>> /\ <<Msg("E")>> # <<Msg("EXPECT")>> /\ <<Msg("E")>> # <<>>
        BY <1>3, <1>8, Strings
      <4>2. Reading \/ Writing => <<Msg("E")>> # <<Asking>>
        BY <1>2, Strings
      <4>3. owner \in {"follow", "expect"} => Reading \/ Writing
        BY DEF IInv, OwnerInv
      <4> QED
        BY <1>1, <4>1, <4>2, <4>3 DEF IInv, Joint, OwnerGone, ValuesOK
    <3>2. CASE OwnerGone
      BY <1>6, <3>2 DEF OwnerGone, OwnerInv
    <3>3. CASE ~OwnerGone
      <4>1. toOwner' = <<Msg("BYE")>>
        BY <2>2, <3>1, <3>3
      <4> QED
        BY <1>6, <3>1, <3>3, <4>1 DEF IInv, OwnerInv
    <3> QED
      BY <3>2, <3>3
  <2> QED
    BY <2>2, <2>3, <2>4, <2>5 DEF IInv
<1>9. CASE req = Asking /\ (Reading \/ Writing)
  <2>1. req.kind = op.cmd /\ (found <=> OnDisk(op.at)) /\ req.at = op.at /\ op.at \in Asked
    BY <1>2, <1>9
  <2>2. owner \in {"follow", "expect"} \/ OwnerGone
    <3>1. toManager = <<Asking>> /\ <<Asking>> # <<Msg("EXPECT")>> /\ <<Asking>> # <<Msg("E")>>
      BY <1>2, <1>3, <1>9, Strings
    <3> QED
      BY <1>1, <3>1 DEF IInv, Joint, OwnerGone, ValuesOK
  <2>3. ~OwnerGone => toOwner = <<>> /\ (owner = "expect" => pos = 0)
                      /\ (owner = "follow" => Reading) /\ (owner = "expect" => Writing)
    BY <1>1, <2>2 DEF IInv, Joint, OwnerGone, OwnerInv
  <2>4. found => get_offset(op.at) \in Sector
    BY <2>1, PlaceOnDisk
  <2>5. CASE Reading
    <3> DEFINE num == IF found THEN BLOCKSIZE ELSE 0
    <3>1. /\ toOwner' = Append(toOwner, Follow(num))
          /\ manager' = IF found THEN "read" ELSE "serve"
          /\ found => at' = get_offset(op.at) /\ off' = 0 /\ n' = 0
          /\ ~found => at' = at /\ off' = off /\ n' = n
      BY <1>1, <1>2, <1>5, <1>9, <2>1, <2>5
    <3>2. num \in Nat /\ (num = BLOCKSIZE <=> found) /\ (num = 0 <=> ~found)
      BY SizeAssumption
    <3> HIDE DEF num, found
    <3>3. ValuesOK'
      <4>1. at' \in Sector /\ off' \in 0 .. BLOCKSIZE /\ n' \in 0 .. Chunks
        BY <2>4, <3>1, SizeAssumption, ChunksAnnounced DEF IInv, ValuesOK
      <4> QED
        BY <1>6, <3>1, <4>1 DEF IInv, ValuesOK
    <3>4. toManager' \in Seq(ForManager) /\ toOwner' \in Seq(ForOwner)
      <4>1. Follow(num) \in ForOwner
        BY <3>2, Strings
      <4> QED
        BY <1>6, <1>7, <3>1, <4>1, EmptySeq
    <3>5. ManagerInv'
      <4>1. Reading' /\ At' = get_offset(op.at) /\ (OnDisk(op.at) <=> OnDisk(op'.at))
        BY <1>6, <2>5 DEF Reading, At
      <4> QED
        BY <1>6, <2>1, <3>1, <4>1, SizeAssumption DEF ManagerInv
    <3>6. CASE OwnerGone
      <4>1. OwnerInv' /\ OwnerGone'
        BY <1>6, <3>6 DEF OwnerGone, OwnerInv
      <4> QED
        BY <3>3, <3>4, <3>5, <4>1 DEF IInv
    <3>7. CASE ~OwnerGone
      <4>1. owner = "follow" /\ toOwner = <<>>
        BY <1>2, <2>2, <2>3, <2>5, <3>7
      <4>2. toOwner' = <<Follow(num)>>
        BY <3>1, <4>1
      <4>3. OwnerInv'
        BY <1>6, <2>1, <3>2, <4>1, <4>2 DEF IInv, OwnerInv, Reading, OnDisk
      <4>4. Joint'
        BY <1>6, <3>1, <3>2, <4>1, <4>2 DEF Joint
      <4> QED
        BY <3>3, <3>4, <3>5, <4>3, <4>4 DEF IInv
    <3> QED
      BY <3>6, <3>7
  <2>6. CASE Writing
    <3> DEFINE text == IF found THEN "EXPECT" ELSE "OVER"
    <3>1. /\ toOwner' = Append(toOwner, Msg(text))
          /\ manager' = IF found THEN "write" ELSE "serve"
          /\ found => at' = get_offset(op.at) /\ off' = 0 /\ n' = Chunks
          /\ ~found => at' = at /\ off' = off /\ n' = n
      BY <1>1, <1>2, <1>5, <1>9, <2>1, <2>6
    <3>2. text \in {"EXPECT", "OVER"} /\ (text = "EXPECT" <=> found)
      OBVIOUS
    <3> HIDE DEF text, found
    <3>3. ValuesOK'
      <4>1. at' \in Sector /\ off' \in 0 .. BLOCKSIZE /\ n' \in 0 .. Chunks
        BY <2>4, <3>1, SizeAssumption, ChunksAnnounced DEF IInv, ValuesOK
      <4> QED
        BY <1>6, <3>1, <4>1 DEF IInv, ValuesOK
    <3>4. toManager' \in Seq(ForManager) /\ toOwner' \in Seq(ForOwner)
      <4>1. Msg(text) \in ForOwner
        BY <3>2, Strings
      <4> QED
        BY <1>6, <1>7, <3>1, <4>1, EmptySeq
    <3>5. ManagerInv'
      <4>1. Writing' /\ At' = get_offset(op.at) /\ (OnDisk(op.at) <=> OnDisk(op'.at))
        BY <1>6, <2>6 DEF Writing, At
      <4>2. found => /\ (n' - 1) * BUFFER_SIZE < BLOCKSIZE - off'
                     /\ BLOCKSIZE - off' <= n' * BUFFER_SIZE /\ off' < BLOCKSIZE
        BY <3>1, ChunksAnnounced, SizeAssumption
      <4>3. found => SameUpTo(block', file'[At'], off')
        BY <3>1 DEF SameUpTo, Unit
      <4> QED
        BY <1>6, <2>1, <3>1, <4>1, <4>2, <4>3 DEF ManagerInv
    <3>6. CASE OwnerGone
      <4>1. OwnerInv' /\ OwnerGone'
        BY <1>6, <3>6 DEF OwnerGone, OwnerInv
      <4> QED
        BY <3>3, <3>4, <3>5, <4>1 DEF IInv
    <3>7. CASE ~OwnerGone
      <4>1. owner = "expect" /\ toOwner = <<>> /\ pos = 0
        BY <1>2, <2>2, <2>3, <2>6, <3>7
      <4>2. toOwner' = <<Msg(text)>>
        BY <3>1, <4>1
      <4>3. OwnerInv'
        BY <1>6, <2>1, <3>2, <4>1, <4>2 DEF IInv, OwnerInv, Writing, OnDisk
      <4>4. Joint'
        BY <1>6, <3>1, <3>2, <4>1, <4>2 DEF Joint
      <4> QED
        BY <3>3, <3>4, <3>5, <4>3, <4>4 DEF IInv
    <3> QED
      BY <3>6, <3>7
  <2> QED
    BY <1>9, <2>5, <2>6
<1> QED
  BY <1>3, <1>8, <1>9

\* The manager sends the next chunk of the block the owner asked for.
LEMMA ReadDiskStep ==
  ASSUME Whole, IInv, read_disk
  PROVE  IInv'
<1>1. /\ manager = "read" /\ Reading /\ OnDisk(op.at) /\ at = At /\ off \in 0 .. BLOCKSIZE - 1
      /\ file[at] \in [Unit -> Value] /\ toManager = <<Msg("EXPECT")>>
  <2>1. toManager # <<>>
    BY NothingToRead DEF read_disk
  <2>2. off < BLOCKSIZE /\ off \in 0 .. BLOCKSIZE
    BY DEF read_disk, IInv, ManagerInv, ValuesOK
  <2> QED
    BY <2>1, <2>2, SizeAssumption DEF read_disk, IInv, ManagerInv, ValuesOK
<1>2. Reads(toManager, Len(toManager)) = {1} /\ Rest(toManager, 1) = <<>>
  <2>1. Len(<<Msg("EXPECT")>>) \in Nat \ {0} /\ Msg("EXPECT").kind # "data"
    BY Strings
  <2> QED
    BY <1>1, <2>1, StringRead
<1>3. /\ Data(chunk(file[at], off)) \in Seq([kind : {"data"}, val : Value])
      /\ Len(chunk(file[at], off)) = Size(off)
      /\ Size(off) \in 1 .. BUFFER_SIZE /\ off + Size(off) \in off + 1 .. BLOCKSIZE
  <2>1. Size(off) \in 1 .. BUFFER_SIZE /\ off + Size(off) \in off + 1 .. BLOCKSIZE
    BY <1>1, LeastFacts
  <2>2. Size(off) \in Nat /\ Size(off) <= Size(off)
    BY <2>1
  <2> QED
    BY <1>1, <2>1, <2>2, ChunkRead
<1>4. /\ toManager' = <<>> /\ toOwner' = toOwner \o Data(chunk(file[at], off))
      /\ off' = off + Size(off)
      /\ manager' = IF off + Size(off) = BLOCKSIZE THEN "serve" ELSE "read"
      /\ file' = file /\ owner' = owner /\ op' = op /\ block' = block /\ pos' = pos
      /\ at' = at /\ n' = n
  BY <1>1, <1>2, <1>3 DEF read_disk, ownerVars
<1>5. ValuesOK'
  <2>1. off' \in 0 .. BLOCKSIZE
    BY <1>1, <1>3, <1>4
  <2> QED
    BY <1>4, <2>1 DEF IInv, ValuesOK
<1>6. toManager' \in Seq(ForManager) /\ toOwner' \in Seq(ForOwner)
  <2>1. Data(chunk(file[at], off)) \in Seq(ForOwner)
    BY <1>3, DataUnits, SeqMonotonic
  <2>2. toOwner \o Data(chunk(file[at], off)) \in Seq(ForOwner)
    BY <2>1, StreamTypes DEF IInv
  <2> QED
    BY <1>4, <2>2, EmptySeq
<1>7. ManagerInv'
  <2>1. Reading' /\ At' = At /\ (OnDisk(op.at) <=> OnDisk(op'.at))
    BY <1>1, <1>4 DEF Reading, At
  <2>2. off + Size(off) # BLOCKSIZE => off' < BLOCKSIZE
    BY <1>1, <1>3, <1>4, SizeAssumption
  <2> QED
    BY <1>1, <1>4, <2>1, <2>2 DEF ManagerInv
<1>8. CASE OwnerGone
  <2>1. OwnerInv' /\ OwnerGone'
    BY <1>4, <1>8 DEF OwnerGone, OwnerInv
  <2> QED
    BY <1>5, <1>6, <1>7, <2>1 DEF IInv
<1>9. CASE ~OwnerGone
  <2>1. owner = "data" /\ toOwner = <<>> /\ off = pos
    <3>1. <<Msg("EXPECT")>> # <<>> /\ <<Msg("EXPECT")>> # <<Msg("E")>>
      BY Strings
    <3> QED
      BY <1>1, <1>9, <3>1 DEF IInv, Joint, OwnerGone, OwnerInv, ValuesOK, Reading, Writing
  <2>2. toOwner' = Data(chunk(file[At], pos))
    BY <1>1, <1>3, <1>4, <2>1, ConcatEmptySeq
  <2>3. OwnerInv'
    BY <1>4, <2>1, <2>2 DEF IInv, OwnerInv, Reading, At, OnDisk, SameUpTo
  <2>4. Joint'
    BY <1>4, <2>1, <2>2 DEF Joint, At
  <2> QED
    BY <1>5, <1>6, <1>7, <2>3, <2>4 DEF IInv
<1> QED
  BY <1>8, <1>9

\* A chunk is stored where it belongs, and the next one asked for while there
\* is one.
LEMMA WriteDiskStep ==
  ASSUME Whole, IInv, write_disk
  PROVE  /\ IInv'
         /\ Writing /\ op' = op /\ block' = block /\ owner' = owner /\ at = At
         /\ manager' # "ended"
         /\ file' = [file EXCEPT ![at] =
              [u \in Unit |-> IF u \in off + 1 .. off + Size(off) THEN block[u] ELSE file[at][u]]]
<1>1. /\ manager = "write" /\ Writing /\ OnDisk(op.at) /\ at = At /\ off \in 0 .. BLOCKSIZE - 1
      /\ SameUpTo(block, file[At], off)
      /\ (n - 1) * BUFFER_SIZE < BLOCKSIZE - off /\ BLOCKSIZE - off <= n * BUFFER_SIZE
      /\ at \in Sector /\ n \in Nat /\ file \in [Sector -> [Unit -> Value]]
      /\ block \in [Unit -> Value] /\ toManager = Data(chunk(block, off))
  <2>1. toManager # <<>>
    BY NothingToRead, SizeAssumption DEF write_disk
  <2>2. off < BLOCKSIZE /\ off \in 0 .. BLOCKSIZE
    BY DEF write_disk, IInv, ManagerInv, ValuesOK
  <2>3. at \in Sector /\ n \in Nat /\ file \in [Sector -> [Unit -> Value]]
    BY DEF IInv, ValuesOK
  <2> QED
    BY <2>1, <2>2, <2>3, SizeAssumption DEF write_disk, IInv, ManagerInv, Writing
<1> DEFINE size == Size(off)
           new == [u \in Unit |-> IF u \in off + 1 .. off + size THEN block[u] ELSE file[at][u]]
<1>2. size \in 1 .. BUFFER_SIZE /\ size \in Nat /\ off + size \in off + 1 .. BLOCKSIZE
  BY <1>1, LeastFacts
<1>3. /\ Reads(toManager, BUFFER_SIZE) = {size} /\ Rest(toManager, size) = <<>>
      /\ toManager # <<>>
      /\ Filled(file[at], off, SubSeq(toManager, 1, size)) = new
  <2>1. Size(off) <= BUFFER_SIZE /\ BUFFER_SIZE \in Nat
    BY <1>2, SizeAssumption
  <2> QED
    BY <1>1, <2>1, ChunkRead
<1>4. Least(size, BLOCKSIZE - off) = size
  BY <1>1, <1>2, SizeAssumption DEF Least
<1> HIDE DEF size
<1>5. /\ file' = [file EXCEPT ![at] = new] /\ off' = off + size /\ toManager' = <<>>
      /\ n' = n - 1 /\ manager' = IF n - 1 = 0 THEN "serve" ELSE "write"
      /\ toOwner' = Append(toOwner, Msg(IF n - 1 = 0 THEN "OVER" ELSE "EXPECT"))
      /\ owner' = owner /\ op' = op /\ block' = block /\ pos' = pos /\ at' = at
  BY <1>1, <1>3, <1>4 DEF write_disk, ownerVars
<1>6. /\ n - 1 \in Nat /\ (n - 1 = 0 <=> off + size = BLOCKSIZE)
      /\ n - 1 # 0 => /\ (n - 1 - 1) * BUFFER_SIZE < BLOCKSIZE - (off + size)
                      /\ BLOCKSIZE - (off + size) <= (n - 1) * BUFFER_SIZE
  <2> DEFINE rest == BLOCKSIZE - off
  <2>1. rest \in 1 .. BLOCKSIZE /\ Least(BUFFER_SIZE, rest) = size
    BY <1>1, SizeAssumption DEF Size, size
  <2>2. (n - 1) * BUFFER_SIZE < rest /\ rest <= n * BUFFER_SIZE
    BY <1>1
  <2> HIDE DEF rest
  <2>3. /\ n - 1 \in Nat /\ (n - 1 = 0 <=> size = rest)
        /\ n - 1 # 0 => /\ (n - 1 - 1) * BUFFER_SIZE < rest - size
                        /\ rest - size <= (n - 1) * BUFFER_SIZE
    BY <1>1, <2>1, <2>2, CountDown
  <2>4. rest - size = BLOCKSIZE - (off + size) /\ (size = rest <=> off + size = BLOCKSIZE)
    BY <1>1, <1>2, SizeAssumption DEF rest
  <2> QED
    BY <2>3, <2>4
<1>7. new \in [Unit -> Value]
  BY <1>1
<1>8. file'[at] = new /\ SameUpTo(block, new, off + size)
  <2>1. SameUpTo(block, new, off + size)
    <3> SUFFICES ASSUME NEW u \in Unit, u <= off + size PROVE block[u] = new[u]
      BY DEF SameUpTo
    <3>1. u \in off + 1 .. off + size \/ u <= off
      BY <1>1, <1>2 DEF Unit
    <3> QED
      BY <1>1, <3>1 DEF SameUpTo
  <2> QED
    BY <1>1, <1>5, <2>1
<1> HIDE DEF new
<1>9. ValuesOK'
  <2>1. off' \in 0 .. BLOCKSIZE
    BY <1>1, <1>2, <1>5
  <2>2. n' \in 0 .. Chunks
    BY <1>5, <1>6, ChunksAnnounced DEF IInv, ValuesOK
  <2>3. file' \in [Sector -> [Unit -> Value]]
    BY <1>1, <1>5, <1>7
  <2> QED
    BY <1>5, <2>1, <2>2, <2>3 DEF IInv, ValuesOK
<1>10. toManager' \in Seq(ForManager) /\ toOwner' \in Seq(ForOwner)
  <2>1. Msg(IF n - 1 = 0 THEN "OVER" ELSE "EXPECT") \in ForOwner
    BY Strings
  <2> QED
    BY <1>5, <2>1, EmptySeq, StreamTypes DEF IInv
<1>11. At' = At /\ Writing' /\ (OnDisk(op.at) <=> OnDisk(op'.at))
  BY <1>1, <1>5 DEF At, Writing
<1>12. ManagerInv'
  <2>1. n - 1 # 0 => off' < BLOCKSIZE
    BY <1>2, <1>5, <1>6, SizeAssumption
  <2> QED
    BY <1>1, <1>5, <1>6, <1>8, <1>11, <2>1 DEF ManagerInv
<1>13. CASE OwnerGone
  <2>1. OwnerInv' /\ OwnerGone'
    BY <1>5, <1>13 DEF OwnerGone, OwnerInv
  <2> QED
    BY <1>1, <1>5, <1>9, <1>10, <1>12, <2>1 DEF IInv, new, size
<1>14. CASE ~OwnerGone
  <2>1. owner \in {"expect", "over"} /\ toOwner = <<>> /\ pos = off + size
    <3>1. owner \in {"expect", "over"}
      BY <1>1, <1>3, <1>14 DEF IInv, Joint, OwnerGone, ValuesOK
    <3> QED
      BY <1>1, <1>3, <1>14, <3>1 DEF IInv, Joint, OwnerGone, size
  <2>2. toOwner' = <<Msg(IF n - 1 = 0 THEN "OVER" ELSE "EXPECT")>>
    BY <1>5, <2>1
  <2>3. owner = "over" <=> n - 1 = 0
    BY <1>6, <2>1 DEF IInv, OwnerInv
  <2>4. n - 1 = 0 => file'[At'] = block'
    <3> SUFFICES ASSUME n - 1 = 0 PROVE new = block
      BY <1>1, <1>5, <1>8, <1>11
    <3>1. \A u \in Unit : block[u] = new[u]
      BY <1>6, <1>8, SizeAssumption DEF SameUpTo, Unit
    <3> QED
      BY <1>1, <1>7, <3>1
  <2>5. OwnerInv'
    BY <1>1, <1>5, <1>11, <2>1, <2>2, <2>3, <2>4 DEF IInv, OwnerInv
  <2>6. Joint'
    BY <1>5, <1>6, <2>1, <2>2, <2>3 DEF Joint
  <2> QED
    BY <1>1, <1>5, <1>9, <1>10, <1>12, <2>5, <2>6 DEF IInv, new, size
<1> QED
  BY <1>13, <1>14

\* The connection closes behind an owner that is gone.
LEMMA EndOfInputStep ==
  ASSUME IInv, end_of_input
  PROVE  IInv'
<1>1. ValuesOK' /\ toManager' \in Seq(ForManager) /\ toOwner' \in Seq(ForOwner)
  BY DEF end_of_input, ownerVars, IInv, ValuesOK
<1>2. OwnerInv'
  BY DEF end_of_input, ownerVars, OwnerGone, OwnerInv
<1> QED
  BY <1>1, <1>2 DEF end_of_input, IInv

\* The manager is killed: what it has sent may still arrive, nothing else will.
LEMMA ManagerKilledStep ==
  ASSUME IInv, manager_killed
  PROVE  IInv'
<1>1. ValuesOK' /\ toManager' \in Seq(ForManager) /\ toOwner' \in Seq(ForOwner)
  BY EmptySeq DEF manager_killed, ownerVars, IInv, ValuesOK
<1>2. OwnerInv'
  <2>1. /\ owner' = owner /\ op' = op /\ block' = block /\ pos' = pos /\ file' = file
        /\ toOwner' = toOwner \/ toOwner' = <<>>
    BY DEF manager_killed, ownerVars
  <2> QED
    BY <2>1 DEF IInv, OwnerInv, Reading, Writing, At, OnDisk, SameUpTo
<1> QED
  BY <1>1, <1>2 DEF manager_killed, IInv

\* Two programs started again on the same file are in step.
LEMMA RestartStep ==
  ASSUME IInv, restart
  PROVE  IInv'
<1>1. 0 \in Sector
  <2>1. CYLINDERS * SECTORS \in Nat \ {0}
    BY SizeAssumption
  <2> QED
    BY <2>1 DEF Sector
<1>2. ValuesOK'
  BY <1>1, SizeAssumption, ChunksAnnounced DEF restart, IInv, ValuesOK, StaleBlock
<1>3. toManager' \in Seq(ForManager) /\ toOwner' \in Seq(ForOwner)
  BY EmptySeq DEF restart
<1>4. OwnerInv' /\ ManagerInv' /\ Joint'
  BY DEF restart, OwnerInv, ManagerInv, Joint
<1> QED
  BY <1>2, <1>3, <1>4 DEF IInv

\* Every step keeps the two in step.
LEMMA NextIInv ==
  ASSUME Whole, IInv, [Next]_vars
  PROVE  IInv'
<1>1. CASE UNCHANGED vars
  BY <1>1 DEF vars, ownerVars, managerVars, IInv, ValuesOK, OwnerInv, ManagerInv, Joint,
     OwnerGone, Reading, Writing, Asking, At, OnDisk, SameUpTo
<1>2. CASE Next
  BY <1>2, ReadBlockStep, WriteBlockStep, SendEndStep, GetFollowStep, GetDataStep, SendDataStep,
     GetOverStep, GetByeStep, OwnerLeavesStep, OwnerFailsStep, ServeStep, ReadDiskStep,
     WriteDiskStep, EndOfInputStep, ManagerKilledStep, RestartStep
  DEF Next, OwnerStep, ManagerStep
<1> QED
  BY <1>1, <1>2

\* The two programs are in step all along, each seen from its own side when
\* the other is gone.
THEOREM Invariant == Whole => (Spec => []IInv)
<1> SUFFICES ASSUME Whole PROVE Spec => []IInv
  OBVIOUS
<1>1. Init => IInv
  BY InitIInv
<1>2. IInv /\ [Next]_vars => IInv'
  BY NextIInv
<1> QED
  BY <1>1, <1>2, PTL DEF Spec

\* Every value is of its type: what is read as data is data, no string is
\* stored in a block, and no chunk goes past the end of one.
THEOREM TypeCorrect == Whole => (Spec => []TypeOK)
<1>1. IInv => TypeOK
  <2> SUFFICES ASSUME IInv PROVE TypeOK
    OBVIOUS
  <2>1. ASSUME NEW i \in DOMAIN toManager
        PROVE  toManager[i].kind \in {"R", "W", "E", "EXPECT", "data"}
    <3>1. toManager[i] \in ForManager
      BY <2>1, ElementOfSeq, LenProperties DEF IInv
    <3> QED
      BY <3>1 DEF ForManager, Msg
  <2>2. ASSUME NEW i \in DOMAIN toOwner
        PROVE  toOwner[i].kind \in {"FOLLOW", "EXPECT", "OVER", "BYE", "data"}
    <3>1. toOwner[i] \in ForOwner
      BY <2>2, ElementOfSeq, LenProperties DEF IInv
    <3> QED
      BY <3>1 DEF ForOwner, Msg, Follow
  <2> QED
    BY <2>1, <2>2 DEF IInv, ValuesOK, TypeOK
<1> QED
  BY <1>1, Invariant, PTL

\* How much data is at the front of a stream.
LEMMA DataInStream ==
  ASSUME Whole
  PROVE  /\ DataIn(<<>>) = 0
         /\ \A msg : msg.kind # "data" =>
              DataIn(<<msg>>) = 0 /\ Len(<<msg>>) = 1 /\ <<msg>> # <<>>
         /\ \A b \in [Unit -> Value], from \in 0 .. BLOCKSIZE - 1 :
              /\ DataIn(Data(chunk(b, from))) = Size(from) /\ Data(chunk(b, from)) # <<>>
              /\ Size(from) \in 1 .. BUFFER_SIZE /\ Size(from) \in Nat
              /\ from + Size(from) <= BLOCKSIZE
<1>1. DataIn(<<>>) = 0
  BY DEF DataIn
<1>2. ASSUME NEW msg, msg.kind # "data"
      PROVE  DataIn(<<msg>>) = 0 /\ Len(<<msg>>) = 1 /\ <<msg>> # <<>>
  BY <1>2 DEF DataIn
<1>3. ASSUME NEW b \in [Unit -> Value], NEW from \in 0 .. BLOCKSIZE - 1
      PROVE  /\ DataIn(Data(chunk(b, from))) = Size(from) /\ Data(chunk(b, from)) # <<>>
             /\ Size(from) \in 1 .. BUFFER_SIZE /\ Size(from) \in Nat
             /\ from + Size(from) <= BLOCKSIZE
  <2>1. Size(from) \in 1 .. BUFFER_SIZE /\ from + Size(from) \in from + 1 .. BLOCKSIZE
    BY LeastFacts
  <2>2. Size(from) \in Nat /\ Size(from) <= Size(from) /\ from + Size(from) <= BLOCKSIZE
    BY <2>1, SizeAssumption
  <2> QED
    BY <2>1, <2>2, ChunkRead DEF DataIn
<1> QED
  BY <1>1, <1>2, <1>3

\* No EXPECT, chunk or OVER is sent too often or too seldom, and none is taken
\* for another, while both programs run.
THEOREM StaysInStep == Whole => (Spec => []InStep)
<1> SUFFICES ASSUME Whole PROVE Spec => []InStep
  OBVIOUS
<1> DEFINE Fits(s) == s # <<>> => DataIn(s) \in 1 .. BUFFER_SIZE \/ Len(s) = 1
<1>1. /\ Fits(<<>>)
      /\ \A text \in {"E", "EXPECT", "OVER", "BYE"} :
           Fits(<<Msg(text)>>) /\ DataIn(<<Msg(text)>>) = 0 /\ <<Msg(text)>> # <<>>
      /\ \A num : Fits(<<Follow(num)>>) /\ <<Follow(num)>> # <<>>
      /\ Reading \/ Writing => Fits(<<Asking>>) /\ <<Asking>> # <<>>
      /\ \A b \in [Unit -> Value], from \in 0 .. BLOCKSIZE - 1 :
           Fits(Data(chunk(b, from))) /\ Data(chunk(b, from)) # <<>>
  BY DataInStream, Strings DEF Reading, Writing, Asking
<1>2. IInv => InStep
  <2> SUFFICES ASSUME IInv, ~OwnerGone, manager # "ended" PROVE InStep
    BY DEF InStep
  <2>1. Joint /\ OwnerInv /\ ManagerInv /\ ValuesOK
    BY DEF IInv
  <2>2. Reading /\ OnDisk(op.at) => At \in Sector /\ file[At] \in [Unit -> Value]
    BY <2>1, PlaceOnDisk DEF Reading, At, ValuesOK
  <2>3. ASSUME Fits(toManager), Fits(toOwner)
        PROVE  \A s \in {toManager, toOwner} : s # <<>> => DataIn(s) \in 1 .. BUFFER_SIZE \/ Len(s) = 1
    BY <2>3
  <2> HIDE DEF Fits
  <2>4. CASE owner = "idle"
    BY <1>1, <2>1, <2>3, <2>4 DEF OwnerInv, Joint, InStep
  <2>5. CASE owner = "bye"
    BY <1>1, <2>1, <2>3, <2>5 DEF Joint, InStep
  <2>6. CASE owner = "follow"
    BY <1>1, <2>1, <2>3, <2>6 DEF OwnerInv, Joint, InStep
  <2>7. CASE owner = "data"
    <3>1. pos \in 0 .. BLOCKSIZE - 1 /\ file[At] \in [Unit -> Value]
      BY <2>1, <2>2, <2>7, SizeAssumption DEF OwnerInv, ValuesOK
    <3>2. CASE manager = "read" /\ toManager = <<Msg("EXPECT")>> /\ toOwner = <<>> /\ off = pos
      <4>1. off = pos + DataIn(toOwner)
        BY <3>1, <3>2, DataInStream
      <4> QED
        BY <1>1, <2>3, <2>7, <3>2, <4>1 DEF InStep
    <3>3. CASE /\ toManager = <<>> /\ toOwner = Data(chunk(file[At], pos))
               /\ off = pos + Size(pos)
               /\ manager = IF off = BLOCKSIZE THEN "serve" ELSE "read"
      <4>1. off = pos + DataIn(toOwner)
        BY <3>1, <3>3, DataInStream
      <4>2. Fits(toManager) /\ Fits(toOwner)
        BY <1>1, <3>1, <3>3
      <4> QED
        BY <2>3, <2>7, <3>3, <4>1, <4>2 DEF InStep
    <3> QED
      BY <2>1, <2>7, <3>2, <3>3 DEF Joint
  <2>8. CASE owner \in {"expect", "over"}
    <3>1. CASE manager = "write"
      <4>1. ManagerInv /\ off \in 0 .. BLOCKSIZE - 1 /\ block \in [Unit -> Value]
        BY <2>1, <3>1, SizeAssumption DEF ManagerInv, ValuesOK, Writing
      <4>2. /\ Fits(toManager) /\ Fits(toOwner) /\ pos = off + DataIn(toManager)
            /\ toManager = <<>> \/ toOwner = <<>>
        <5>1. CASE toManager = <<>>
          <6>1. owner = "expect" /\ toOwner = <<Msg("EXPECT")>> /\ off = pos
            BY <2>1, <2>8, <3>1, <5>1 DEF Joint
          <6> QED
            BY <1>1, <4>1, <5>1, <6>1, DataInStream
        <5>2. CASE toManager # <<>>
          <6>1. toOwner = <<>> /\ pos = off + Size(off) /\ toManager = Data(chunk(block, off))
            BY <2>1, <2>8, <3>1, <5>2 DEF Joint, ManagerInv
          <6> QED
            BY <1>1, <4>1, <6>1, DataInStream
        <5> QED
          BY <5>1, <5>2
      <4> QED
        BY <2>3, <2>8, <3>1, <4>1, <4>2 DEF InStep, ManagerInv
    <3>2. CASE manager # "write"
      <4>1. Fits(toManager) /\ Fits(toOwner)
        BY <1>1, <2>1, <2>8, <3>2 DEF Joint, OwnerInv
      <4>2. manager = "serve" /\ (toManager = <<>> \/ toOwner = <<>>)
            /\ (owner = "over" => off = BLOCKSIZE)
        BY <2>1, <2>8, <3>2 DEF Joint
      <4> QED
        BY <2>3, <2>8, <4>1, <4>2 DEF InStep
    <3> QED
      BY <3>1, <3>2
  <2> QED
    BY <2>1, <2>4, <2>5, <2>6, <2>7, <2>8 DEF ValuesOK, OwnerGone
<1> QED
  BY <1>2, Invariant, PTL

-----------------------------------------------------------------------------
\* The blocks of the store, the block its user sees and whether it has one, as
\* BS maps them.
Blocks == [a \in Asked |-> file[get_offset(a)]]
Held == IF op # NONE /\ op.cmd = "R" THEN StaleBlock ELSE block
Linked == ~OwnerGone /\ manager # "ended"

\* A step that leaves the file, the operation and the block alone is none of
\* the store's, or the connection is lost.
LEMMA OutOfSight ==
  ASSUME file' = file, op' = op, Held' = Held, Linked' => Linked
  PROVE  BS!Next \/ UNCHANGED BS!vars
<1>1. Blocks' = Blocks
  BY DEF Blocks
<1>2. CASE Linked /\ ~Linked'
  <2>1. BS!Lose
    BY <1>1, <1>2 DEF BS!Lose, Blocks, Held, Linked
  <2> QED
    BY <2>1 DEF BS!Next
<1>3. CASE Linked <=> Linked'
  BY <1>1, <1>3 DEF BS!vars, Blocks, Held, Linked
<1> QED
  BY <1>2, <1>3

\* Most of the transfer is out of sight.
LEMMA Transfer ==
  ASSUME Whole, InRange, IInv,
         \/ send_end \/ owner_leaves \/ manager_killed \/ get_follow \/ send_data \/ get_bye
         \/ owner_fails \/ serve \/ read_disk \/ end_of_input
  PROVE  BS!Next \/ UNCHANGED BS!vars
<1>1. CASE get_follow
  <2>1. Reading /\ op' = op
    BY <1>1, GetFollowStep DEF InRange, Reading
  <2> QED
    BY <1>1, <2>1, OutOfSight DEF get_follow, managerVars, Linked, OwnerGone, Held
<1>2. CASE send_end \/ owner_leaves \/ manager_killed
  BY <1>2, OutOfSight
  DEF send_end, owner_leaves, manager_killed, ownerVars, managerVars, Linked, OwnerGone, Held
<1>3. CASE send_data \/ get_bye \/ owner_fails
  BY <1>3, OutOfSight DEF send_data, get_bye, owner_fails, managerVars, Linked, OwnerGone, Held
<1>4. CASE serve \/ read_disk \/ end_of_input
  BY <1>4, OutOfSight DEF serve, read_disk, end_of_input, ownerVars, Linked, OwnerGone, Held
<1> QED
  BY <1>1, <1>2, <1>3, <1>4

\* A step of write_disk puts part of one block on disk, and touches no other.
LEMMA Landing ==
  ASSUME Whole, InRange, IInv, write_disk
  PROVE  BS!Land
<1> DEFINE part == {u \in Unit : u \in off + 1 .. off + Size(off)}
           new == [u \in Unit |-> IF u \in part THEN block[u] ELSE file[at][u]]
<1>1. /\ Writing /\ op' = op /\ block' = block /\ owner' = owner /\ at = At
      /\ manager # "ended" /\ manager' # "ended"
      /\ file' = [file EXCEPT ![at] = new]
  BY WriteDiskStep DEF write_disk
<1>2. op # NONE /\ op.cmd = "W" /\ op.at \in Asked
  BY <1>1, SizeAssumption DEF Writing
<1>3. at \in Sector /\ file \in [Sector -> [Unit -> Value]] /\ part \in SUBSET Unit
  BY DEF IInv, ValuesOK
<1> HIDE DEF part
<1>4. Blocks' = [Blocks EXCEPT ![op.at] =
                   [u \in Unit |-> IF u \in part THEN block[u] ELSE @[u]]]
  <2>1. ASSUME NEW a \in Asked
        PROVE  file'[get_offset(a)] =
                 IF a = op.at THEN new ELSE file[get_offset(a)]
    <3>1. get_offset(a) \in Sector
      BY PlaceOnDisk DEF InRange
    <3>2. a = op.at <=> get_offset(a) = at
      BY <1>1, <1>2, PlaceIsItsOwn DEF At, InRange
    <3> QED
      BY <1>1, <1>3, <3>1, <3>2
  <2>2. new = [u \in Unit |-> IF u \in part THEN block[u] ELSE Blocks[op.at][u]]
    BY <1>1, <1>2 DEF Blocks, At
  <2> HIDE DEF new
  <2>3. Blocks' = [a \in Asked |-> IF a = op.at THEN new ELSE Blocks[a]]
    BY <2>1 DEF Blocks
  <2> QED
    BY <2>2, <2>3 DEF Blocks
<1>5. (Held = block) /\ Held' = Held /\ (Linked <=> Linked')
  BY <1>1, <1>2 DEF Held, Linked, OwnerGone
<1>6. \E p \in SUBSET Unit :
        Blocks' = [Blocks EXCEPT ![op.at] =
                     [u \in Unit |-> IF u \in p THEN Held[u] ELSE Blocks[op.at][u]]]
  BY <1>3, <1>4, <1>5
<1>7. UNCHANGED <<op, Held, Linked>>
  BY <1>1, <1>5
<1> QED
  BY <1>2, <1>6, <1>7 DEF BS!Land, Blocks, Held, Linked

\* Blocks that are on the disk are read and written as BlockStore says: a read
\* ends with what the disk holds, a write with the block on disk, whole, and no
\* other block is touched, wherever the programs are lost.
THEOREM Refinement == Whole /\ InRange => (Spec => Implements)
<1> SUFFICES ASSUME Whole, InRange PROVE Spec => Implements
  OBVIOUS
<1>1. Init => BS!Init
  <2> SUFFICES ASSUME Init PROVE BS!Init
    OBVIOUS
  <2>1. \A a \in Asked : get_offset(a) \in Sector
    BY PlaceOnDisk DEF InRange
  <2> QED
    BY <2>1 DEF Init, BS!Init, StaleBlock, BS!StaleBlock, OwnerGone
<1>2. ASSUME IInv, Next PROVE BS!Next \/ UNCHANGED BS!vars
  <2>1. ASSUME NEW a \in Asked, read_block(a) PROVE BS!Read(a)
    <3>1. op = NONE /\ op' = [cmd |-> "R", at |-> a] /\ op' # NONE /\ op'.cmd = "R"
      BY <1>2, <2>1, AtRest, SizeAssumption DEF read_block
    <3>2. Blocks' = Blocks /\ Held' = StaleBlock /\ (Linked <=> Linked')
      BY <2>1, <3>1 DEF read_block, managerVars, Blocks, Held, Linked, OwnerGone
    <3> QED
      BY <3>1, <3>2 DEF BS!Read, BS!StaleBlock, StaleBlock, Blocks, Held, Linked
  <2>2. ASSUME NEW a \in Asked, NEW src \in [Unit -> Value], write_block(a, src)
        PROVE  BS!Write(a, src)
    <3>1. op = NONE /\ op' = [cmd |-> "W", at |-> a] /\ op'.cmd # "R"
      BY <1>2, <2>2, AtRest DEF write_block
    <3>2. Blocks' = Blocks /\ Held' = src /\ (Linked <=> Linked')
      BY <2>2, <3>1 DEF write_block, managerVars, Blocks, Held, Linked, OwnerGone
    <3> QED
      BY <3>1, <3>2 DEF BS!Write, Blocks, Held, Linked
  <2>3. ASSUME get_data PROVE BS!EndRead \/ UNCHANGED BS!vars
    <3>1. /\ Reading /\ file' = file /\ manager' = manager /\ owner = "data"
          /\ \/ owner' = "data" /\ op' = op
             \/ owner' = "idle" /\ op' = NONE /\ block' = file[At]
      BY <1>2, <2>3, GetDataStep DEF get_data
    <3>2. op # NONE /\ op.cmd = "R" /\ op.at \in Asked
      BY <3>1, SizeAssumption DEF Reading
    <3>3. Blocks' = Blocks /\ (Linked <=> Linked')
      BY <3>1 DEF Blocks, Linked, OwnerGone
    <3>4. CASE owner' = "data"
      <4>1. Held' = Held /\ op' = op
        BY <3>1, <3>2, <3>4 DEF Held
      <4> QED
        BY <3>3, <4>1 DEF BS!vars, Blocks, Held, Linked
    <3>5. CASE owner' = "idle"
      <4>1. op' = NONE /\ Held' = Blocks[op.at]
        BY <3>1, <3>2, <3>5 DEF Held, Blocks, At
      <4> QED
        BY <3>2, <3>3, <4>1 DEF BS!EndRead, Blocks, Held, Linked
    <3> QED
      BY <3>1, <3>4, <3>5
  <2>4. ASSUME get_over PROVE BS!EndWrite
    <3>1. /\ Writing /\ file[At] = block /\ op' = NONE /\ owner = "over" /\ owner' = "idle"
          /\ file' = file /\ block' = block /\ manager' = manager
      BY <1>2, <2>4, GetOverStep DEF get_over, managerVars
    <3>2. op # NONE /\ op.cmd = "W" /\ op.at \in Asked
      BY <3>1, SizeAssumption DEF Writing
    <3>3. /\ Blocks' = Blocks /\ Held = block /\ Held' = block /\ Blocks[op.at] = block
          /\ Linked <=> Linked'
      BY <3>1, <3>2 DEF Blocks, Held, Linked, OwnerGone, At
    <3> QED
      BY <3>1, <3>2, <3>3 DEF BS!EndWrite, Blocks, Held, Linked
  <2>5. ASSUME restart PROVE BS!Restart
    <3>1. /\ Blocks' = Blocks /\ Held' = StaleBlock /\ op' = NONE
          /\ ~Linked /\ Linked'
      BY <2>5 DEF restart, Blocks, Held, Linked, OwnerGone
    <3> QED
      BY <3>1 DEF BS!Restart, BS!StaleBlock, StaleBlock, Blocks, Held, Linked
  <2> QED
    BY <1>2, <2>1, <2>2, <2>3, <2>4, <2>5, Transfer, Landing
    DEF Next, OwnerStep, ManagerStep, BS!Next, BS!Block
<1>3. UNCHANGED vars => UNCHANGED BS!vars
  BY DEF vars, ownerVars, managerVars, BS!vars, OwnerGone
<1>4. IInv /\ [Next]_vars => [BS!Next]_(BS!vars)
  BY <1>2, <1>3
<1> QED
  BY <1>1, <1>4, Invariant, PTL DEF Spec, Implements, BS!Spec
=============================================================================
