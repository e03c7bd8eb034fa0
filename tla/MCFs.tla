-------------------------------- MODULE MCFs --------------------------------
(***************************************************************************)
(* Fs for TLC: the paths a small session names, and the uses under which   *)
(* the directory layer is sound.  Uses names what a run allows beyond      *)
(* them, starting with                                                     *)
(*   "exit"      an orderly end of the server, and another session         *)
(*   "crash"     a kill of the server, and another session if the bitmap   *)
(*               on disk happens to be right                               *)
(*   "grow"      more entries in a directory than its dentry holds, each   *)
(*               made once and none removed, with two zones free           *)
(* which the directory layer survives, and then                            *)
(*   "spill"     with "grow", also when only one zone is free              *)
(*   "overflow"  more entries in a directory than its dentry holds         *)
(*   "deep"      creating under a path that names a directory on the way   *)
(*   "anykind"   rm of a directory, rmdir of a file                        *)
(*   "full"      rmdir of a directory with entries                         *)
(*   "busy"      rmdir of the working directory or one above it            *)
(*   "recover"   starting again after a crash                              *)
(* each of which breaks it.                                                *)
(***************************************************************************)
EXTENDS Fs

CONSTANT Uses

Rel(comps) == [abs |-> FALSE, comps |-> comps]
Abs(comps) == [abs |-> TRUE, comps |-> comps]

\* "a", "b", "../a", "a/b", "..", "/".
SessionPaths ==
  {Rel(<<"a">>), Rel(<<"b">>), Rel(<<"..", "a">>), Rel(<<"a", "b">>), Rel(<<"..">>), Abs(<<>>)}
NestedPaths == {Rel(<<"a">>), Rel(<<"a", "b">>)}
FlatPaths == {Rel(<<"a">>), Rel(<<"b">>), Rel(<<"c">>)}
WordOfName == [n \in {"a", "b", "c"} |-> IF n = "a" THEN 6 ELSE 7]

Leads(p) == get_path(Memory, p).at # NONE /\ Last(get_path(Memory, p).at) \in Id
To(p) == Last(get_path(Memory, p).at)

\* A new name goes into the working directory or one above it, not through a
\* directory named in the path, it is neither . nor .. (touch of .. in the root
\* would make an entry of that name), and the directory has an entry left.
MayCreate(p) ==
  get_path(Memory, p).at # NONE \/
    /\ p.comps # <<>>
    /\ "deep" \in Uses \/
         /\ \A i \in 1 .. Len(p.comps) - 1 : p.comps[i] \in {".", ".."}
         /\ p.abs => Len(p.comps) > 1
    /\ Last(p.comps) \notin {".", ".."}
    /\ LET dir == get_path(Memory, [p EXCEPT !.comps = Front(p.comps)]).at IN
       dir # NONE /\ Last(dir) \in Id /\ disk[Last(dir)].type = "dentry" =>
         \/ Cardinality(Used(disk[Last(dir)])) < NUM_OF_DENTRY_SUBS
         \/ "overflow" \in Uses
         \/ /\ "grow" \in Uses /\ \A e \in EntriesOf(Last(dir)) : e.name # Last(p.comps)
            /\ "spill" \in Uses \/ Cardinality({id \in Id : map[id] = UNOCCUPIED}) > 1

\* What is removed is in a directory that is one zone.
FromDentry(p) ==
  LET parent == disk[To(p)].parent IN
  "overflow" \in Uses \/ ("grow" \notin Uses /\ (parent \in Id => disk[parent].next = 0))

MayRm(p) ==
  Leads(p) =>
    /\ \/ disk[To(p)].type = "inode"
       \/ "anykind" \in Uses /\ To(p) \notin Range(pwd)
    /\ FromDentry(p)

MayRmdir(p) ==
  Leads(p) =>
    /\ FromDentry(p)
    /\ "anykind" \in Uses \/ disk[To(p)].type = "dentry"
    /\ "full" \in Uses \/ (disk[To(p)].type = "dentry" => EntriesOf(To(p)) = {})
    /\ "busy" \in Uses \/ To(p) \notin Range(pwd)

\* write removes and makes: it is for new files and for files to be removed,
\* and names them without a directory on the way.
MayWrite(p) ==
  /\ MayCreate(p) /\ MayRm(p)
  /\ "deep" \in Uses \/
       /\ \A i \in 1 .. Len(p.comps) - 1 : p.comps[i] \in {".", ".."}
       /\ p.abs => Len(p.comps) > 1
  /\ Leads(p) => disk[To(p)].type = "inode"

\* After a crash the bitmap is that of the last orderly end.
MayStart == up = "off" \/ "recover" \in Uses \/ Describes(saved)

MCNext ==
  \/ \E p \in Path :
       \/ MayCreate(p) /\ (touch(p) \/ mkdir(p))
       \/ MayRm(p) /\ rm(p)
       \/ MayRmdir(p) /\ rmdir(p)
       \/ Append_(p)
       \/ MayWrite(p) /\ write(p)
       \/ cd(p)
  \/ Put
  \/ "exit" \in Uses /\ exit
  \/ MayStart /\ start
  \/ "crash" \in Uses /\ Crash

MCSpec == Init /\ [][MCNext]_vars

-----------------------------------------------------------------------------
\* The user's view: names instead of ids, and one step per command.
NameOf(dir, id) == (CHOOSE e \in EntriesOf(dir) : e.id = id).name

Tree ==
  {[at |-> x.at, kind |-> IF disk[x.id].type = "inode" THEN "file" ELSE "dir"] :
     x \in {y \in Nodes : y.at # <<>>}}
Cwd == [i \in 1 .. Len(pwd) - 1 |-> NameOf(pwd[i], pwd[i + 1])]
Request == IF req = NONE THEN NONE ELSE [op |-> req.op, path |-> req.path]
Full == \A id \in Id : map[id] # UNOCCUPIED

NS == INSTANCE Namespace WITH tree <- Tree, cwd <- Cwd, req <- Request, full <- Full

\* Every command answers and acts as Namespace says, in one step, whether it is
\* carried out, refused, cut off by a crash or followed by a new session.
Implements == NS!Spec
=============================================================================
