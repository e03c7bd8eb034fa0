------------------------------ MODULE TextFile ------------------------------
(***************************************************************************)
(* What a user of touch, rm, append, write and cat expects of the text of  *)
(* files: append adds at the end, write starts afresh, one file does not   *)
(* disturb another, and text is cut only when the disk or the file is      *)
(* full.  A command takes several steps and a kill may cut it off between  *)
(* two of them; then it has done a first part of its work, in this order.  *)
(* There are no zones here; FileData implements this module.               *)
(***************************************************************************)
EXTENDS Integers, Sequences, SequencesExt

CONSTANTS
  File,
  String,    \* texts of commands
  MaxText,   \* characters a file can hold
  NONE       \* no such file, no command

VARIABLES
  text,      \* the text of each file
  req,       \* the command under way: [op, file, goal], the text it is to leave
  full       \* the disk has no room left

Init ==
  /\ text = [f \in File |-> NONE]
  /\ req = NONE

Ask(op, f, goal) == req' = [op |-> op, file |-> f, goal |-> goal]

\* A command begins, and with it what it should leave of its file.
Begin ==
  /\ req = NONE
  /\ \E f \in File :
       LET t == text[f] IN
       \/ t = NONE /\ Ask("touch", f, <<>>)
       \/ t # NONE /\ Ask("rm", f, NONE)
       \/ t # NONE /\ \E s \in String : Ask("append", f, t \o s)
       \/ \E s \in String : Ask("write", f, s)
  /\ UNCHANGED text

Becomes(t) == text' = [text EXCEPT ![req.file] = t] /\ UNCHANGED req

Make ==
  /\ req # NONE /\ req.op \in {"touch", "write"}
  /\ text[req.file] = NONE
  /\ Becomes(<<>>)

Unlink ==
  /\ req # NONE /\ req.op \in {"rm", "write"}
  /\ text[req.file] # NONE
  /\ Becomes(NONE)

\* More of the text arrives, in order.
Extend ==
  /\ req # NONE /\ req.op \in {"append", "write"}
  /\ text[req.file] # NONE
  /\ LET t == text'[req.file] IN
     IsStrictPrefix(text[req.file], t) /\ IsPrefix(t, req.goal) /\ Becomes(t)

\* The command has done all it should, or as much as there was room for.
Complete(t) ==
  \/ t = req.goal
  \/ /\ req.op \in {"append", "write"}
     /\ t # NONE /\ IsPrefix(t, req.goal)
     /\ full \/ Len(t) = MaxText

Finish == req # NONE /\ Complete(text[req.file]) /\ req' = NONE /\ UNCHANGED text

Kill == req # NONE /\ req' = NONE /\ UNCHANGED text

Next == Begin \/ Make \/ Unlink \/ Extend \/ Finish \/ Kill

Spec == Init /\ [][Next]_<<text, req>>
=============================================================================
