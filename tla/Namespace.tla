----------------------------- MODULE Namespace -----------------------------
(***************************************************************************)
(* What a user of the shell expects of the directory commands (README.md   *)
(* "Data Structures" and "Some Limits"): one tree of named directories and *)
(* files and a working directory in it.  A command either is refused and   *)
(* changes nothing, or takes effect once, as a whole; but for write, which *)
(* is without the file between removing it and making it again.  There are *)
(* no zones here.  Fs implements this module for the uses MCFs names.      *)
(***************************************************************************)
EXTENDS Integers, Sequences, FiniteSets, SequencesExt

CONSTANTS
  Path,      \* paths that requests name, as [abs : BOOLEAN, comps : Seq(STRING)]
  NONE       \* no request is being worked on

VARIABLES
  tree,      \* the nodes below the root: [at : Seq(names), kind]
  cwd,       \* names from the root to the working directory
  req,       \* the request being worked on, or NONE
  ans,       \* the last answer: "0" done, "4" refused
  full       \* no zone is free; the user sees it come and go

vars == <<tree, cwd, req, ans, full>>

Kind == {"dir", "file"}
Exists(at) == at = <<>> \/ \E k \in Kind : [at |-> at, kind |-> k] \in tree
IsDir(at) == at = <<>> \/ [at |-> at, kind |-> "dir"] \in tree
Children(at) == {n \in tree : n.at # <<>> /\ Front(n.at) = at}

\* One component further: NONE once the walk has failed.
Step(at, comp) ==
  IF at = NONE THEN NONE
  ELSE CASE comp = "."   -> at
         [] comp = ".."  -> IF at = <<>> THEN NONE ELSE Front(at)
         [] OTHER        -> IF IsDir(at) /\ Exists(Append(at, comp))
                            THEN Append(at, comp) ELSE NONE

\* The node a path names, or NONE.
Walk(abs, comps) ==
  LET f[i \in 0 .. Len(comps)] ==
        IF i = 0 THEN IF abs THEN <<>> ELSE cwd ELSE Step(f[i - 1], comps[i])
  IN  f[Len(comps)]
Resolve(p) == Walk(p.abs, p.comps)

\* Where a new node goes: the last name in the directory the rest names.
Target(p) ==
  LET dir == Walk(p.abs, Front(p.comps)) IN
  IF dir # NONE /\ IsDir(dir) /\ Last(p.comps) \notin {".", ".."}
  THEN Append(dir, Last(p.comps)) ELSE NONE

Made(r) == [at |-> Target(r.path), kind |-> IF r.op = "mkdir" THEN "dir" ELSE "file"]
Gone(r) == CHOOSE n \in tree : n.at = Resolve(r.path)

Can(r) ==
  LET at == Resolve(r.path) IN
  CASE r.op \in {"touch", "mkdir"} -> at = NONE /\ Target(r.path) # NONE
    [] r.op = "write" -> IF at = NONE THEN Target(r.path) # NONE ELSE ~IsDir(at)
    [] r.op \in {"rm", "append"} -> at # NONE /\ ~IsDir(at)
    [] r.op = "rmdir" -> /\ at # NONE /\ IsDir(at) /\ Children(at) = {}
                         /\ ~IsPrefix(at, cwd)
    [] r.op = "cd"    -> at # NONE /\ IsDir(at)

Requests == [op : {"touch", "mkdir", "rm", "rmdir", "append", "write"}, path : Path]

-----------------------------------------------------------------------------
Init ==
  /\ tree = {}
  /\ cwd = <<>>
  /\ req = NONE
  /\ ans = "0"
  /\ full \in BOOLEAN

Begin(r) ==
  /\ req = NONE
  /\ Can(r)
  /\ req' = r
  /\ UNCHANGED <<tree, cwd, ans>>

\* The only step that changes the tree, and it changes one node.
Effect ==
  /\ req # NONE /\ req.op # "write"
  /\ tree' = CASE req.op \in {"touch", "mkdir"} -> tree \cup {Made(req)}
               [] req.op \in {"rm", "rmdir"}    -> tree \ {Gone(req)}
               [] req.op = "append"             -> tree
  /\ req' = NONE
  /\ ans' = "0"
  /\ UNCHANGED cwd

\* A write takes away the file there was, makes a new one and ends with it.
Rewrite ==
  /\ req # NONE /\ req.op = "write"
  /\ IF Resolve(req.path) = NONE
     THEN tree' = tree \cup {Made(req)} /\ UNCHANGED <<req, ans>>
     ELSE \/ tree' = tree \ {Gone(req)} /\ UNCHANGED <<req, ans>>
          \/ req' = NONE /\ ans' = "0" /\ UNCHANGED tree
  /\ UNCHANGED cwd

\* A request that makes no sense is refused, and so is a new node if the disk
\* is full.
Refuse(r) ==
  /\ req = NONE
  /\ ~Can(r) \/ (r.op \in {"touch", "mkdir", "write"} /\ full)
  /\ ans' = "4"
  /\ UNCHANGED <<tree, cwd, req>>

ChangeDir(p) ==
  /\ req = NONE
  /\ Can([op |-> "cd", path |-> p])
  /\ cwd' = Resolve(p)
  /\ ans' = "0"
  /\ UNCHANGED <<tree, req>>

RefuseDir(p) ==
  /\ req = NONE
  /\ ~Can([op |-> "cd", path |-> p])
  /\ ans' = "4"
  /\ UNCHANGED <<tree, cwd, req>>

\* The server ends, in order or not: the request under way is forgotten, the
\* next session starts at the root, the tree is as it was.
Restart ==
  /\ cwd' = <<>>
  /\ req' = NONE
  /\ UNCHANGED <<tree, ans>>

Next ==
  /\ \/ Effect \/ Rewrite \/ Restart
     \/ \E r \in Requests : Begin(r) \/ Refuse(r)
     \/ \E p \in Path : ChangeDir(p) \/ RefuseDir(p)
  /\ full' \in BOOLEAN

Spec == Init /\ [][Next]_vars
=============================================================================
