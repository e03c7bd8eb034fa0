------------------------------- MODULE Shell -------------------------------
(***************************************************************************)
(* The conversation between the shell (src/src/client.c) and the server    *)
(* (interpret, list and cat in src/src/server.c; cat_dir and cat_file in   *)
(* src/src/fs_lib.c) over one TCP connection (send_msg, get_msg in         *)
(* src/src/utils.c).                                                       *)
(*                                                                         *)
(* A message is one write.  A read returns everything that has arrived, of *)
(* which get_msg hands on the first string only: messages that arrive      *)
(* together with another one are lost.  Loopback keeps a write in one      *)
(* piece unless it is longer than the buffer of the reader.                *)
(*                                                                         *)
(* Of a command only what the conversation depends on is kept: how it is   *)
(* answered, and for ls and cat how many lines are announced and sent.     *)
(*                                                                         *)
(* A definition named X_... just before X is X with a fault the properties *)
(* must notice; nothing else uses it.                                      *)
(***************************************************************************)
EXTENDS Integers, Sequences

CONSTANTS
  NUM_OF_DENTRY_SUBS,  \* entries of a directory that cat_dir shows
  DirSizes,            \* directories ls is asked for, by their entries
  FileSizes,           \* files cat is asked for, by their data zones
  Odd,                 \* ls of what is neither file nor directory (damage of Fs)
  Long,                \* commands of BUFFER_SIZE - 1 characters and more
  NONE                 \* no command

ASSUME SizesAssumption ==
  /\ NUM_OF_DENTRY_SUBS \in Nat
  /\ DirSizes \subseteq Nat /\ FileSizes \subseteq Nat
  /\ Odd \subseteq {TRUE} /\ Long \subseteq {TRUE}

VARIABLES
  client,    \* "prompt", "reply", "count", "item", "done", "failed", "killed"
  n,         \* lines the client still waits for
  cmd,       \* the command the user gave last
  shown,     \* lines shown for it
  toServer,  \* messages on their way, oldest first
  toClient,
  server,    \* "idle", "ack", "items", "closed" or "crashed"
  job,       \* the ls or cat the server is working on
  left       \* lines it has yet to send

Gone == client \in {"done", "failed", "killed"}

vars == <<client, n, cmd, shown, toServer, toClient, server, job, left>>

-----------------------------------------------------------------------------
(* How many lines are announced. *)

\* update_size, for a file of z data zones: the inode, the index zones and the
\* data zones.  20 pointers lead to data zones, 2 and 2 to index zones.
update_size(z) ==
  CASE z <= 20          -> 1 + z
    [] z \in 21 .. 52   -> 2 + z
    [] z \in 53 .. 84   -> 3 + z
    [] z \in 85 .. 1108 -> 4 + z + ((z - 84) + 31) \div 32
    [] OTHER            -> 1145 + (z - 1108) + ((z - 1108) + 31) \div 32

get_cat_len_short(size) == IF size < 2 THEN 0 ELSE size - 2

get_cat_len(size) ==
  CASE size <= 21          -> size - 1
    [] size \in 22 .. 44   -> size - 2
    [] size \in 45 .. 87   -> size - 3
    [] size \in 88 .. 1144 -> size - 3 - ((size - 55) \div 33)
    [] OTHER               -> size - 37 - ((size - 1112) \div 33)

\* get_ls_len counts the entries of every zone of a directory, cat_dir sends
\* those of the first: cat_dir_cont does nothing for a zone it can read.
get_ls_len(entries) == entries
Sent(entries) == IF entries <= NUM_OF_DENTRY_SUBS THEN entries ELSE NUM_OF_DENTRY_SUBS

Plain(reply) == [kind |-> "plain", reply |-> reply]
Listing(kind, say, have, send) ==
  [kind |-> kind, say |-> say, have |-> have, send |-> send]

Command ==
  {Plain(r) : r \in {"0", "4", "-1"}}
    \cup {[kind |-> "exit"]}
    \cup {[kind |-> "long"] : l \in Long}
    \cup {Listing("ls", get_ls_len(e), e, Sent(e)) : e \in DirSizes}
    \cup {Listing("odd", get_ls_len(0), 0, 0) : o \in Odd}
    \cup {Listing("cat", get_cat_len(update_size(z)), z, z) : z \in FileSizes}

ASSUME NoneAssumption == NONE \notin Command

-----------------------------------------------------------------------------
(* Messages *)

Reply(r) == [type |-> "reply", reply |-> r]
Count(k) == [type |-> "count", count |-> k]
Item == [type |-> "item"]
Ack == [type |-> "ACK"]
Expect == [type |-> "EXPECT"]
Request(c) == [type |-> "cmd", cmd |-> c]

\* get_msg takes the first of the k messages that have arrived.
Take(queue, k) == SubSeq(queue, k + 1, Len(queue))

\* atoi of a message: a line of ls starts with 'd' or '-'.
atoi(m) == CASE m.type = "count" -> m.count
             [] m.type = "reply" -> (CASE m.reply = "2" -> 2 [] m.reply = "3" -> 3
                                       [] m.reply = "4" -> 4 [] m.reply = "-1" -> -1
                                       [] OTHER -> 0)
             [] OTHER -> 0

-----------------------------------------------------------------------------
Init ==
  /\ client = "prompt" /\ n = 0 /\ cmd = NONE /\ shown = 0
  /\ toServer = <<>> /\ toClient = <<>>
  /\ server = "idle" /\ job = NONE /\ left = 0

(* client.c *)

send_cmd(c) ==
  /\ client = "prompt"
  /\ client' = "reply"
  /\ cmd' = c /\ shown' = 0
  /\ toServer' = Append(toServer, Request(c))
  /\ UNCHANGED <<n, toClient, server, job, left>>

get_reply ==
  /\ client = "reply"
  /\ \E k \in 1 .. Len(toClient) :
       /\ toClient' = Take(toClient, k)
       /\ LET r == atoi(Head(toClient)) IN
          /\ client' = CASE r = 2 -> "count" [] r = 3 -> "done" [] OTHER -> "prompt"
          /\ toServer' = IF r = 2 THEN Append(toServer, Ack) ELSE toServer
  /\ UNCHANGED <<n, cmd, shown, server, job, left>>

get_count_zero ==
  /\ client = "count"
  /\ \E k \in 1 .. Len(toClient) :
       /\ toClient' = Take(toClient, k)
       /\ n' = atoi(Head(toClient))
  /\ client' = "item"
  /\ toServer' = Append(toServer, Expect)
  /\ UNCHANGED <<cmd, shown, server, job, left>>

\* The line count; then, if there are any, the first line is asked for.
get_count ==
  /\ client = "count"
  /\ \E k \in 1 .. Len(toClient) :
       /\ toClient' = Take(toClient, k)
       /\ n' = atoi(Head(toClient))
  /\ client' = IF n' > 0 THEN "item" ELSE "prompt"
  /\ toServer' = IF n' > 0 THEN Append(toServer, Expect) ELSE toServer
  /\ UNCHANGED <<cmd, shown, server, job, left>>

get_item_more ==
  /\ client = "item"
  /\ \E k \in 1 .. Len(toClient) :
       /\ toClient' = Take(toClient, k)
       /\ shown' = IF Head(toClient).type = "item" THEN shown + 1 ELSE shown
  /\ n' = n - 1
  /\ client' = IF n' > 0 THEN "item" ELSE "prompt"
  /\ toServer' = Append(toServer, Expect)
  /\ UNCHANGED <<cmd, server, job, left>>

get_item ==
  /\ client = "item"
  /\ \E k \in 1 .. Len(toClient) :
       /\ toClient' = Take(toClient, k)
       /\ shown' = IF Head(toClient).type = "item" THEN shown + 1 ELSE shown
  /\ n' = n - 1
  /\ client' = IF n' > 0 THEN "item" ELSE "prompt"
  /\ toServer' = IF n' > 0 THEN Append(toServer, Expect) ELSE toServer
  /\ UNCHANGED <<cmd, server, job, left>>

\* The server is gone: atoi(NULL), or err_exit.
client_fails ==
  /\ client \in {"reply", "count", "item"}
  /\ toClient = <<>> /\ server \in {"closed", "crashed"}
  /\ client' = "failed"
  /\ UNCHANGED <<n, cmd, shown, toServer, toClient, server, job, left>>

\* The user kills the shell.
client_killed ==
  /\ ~Gone
  /\ client' = "killed"
  /\ UNCHANGED <<n, cmd, shown, toServer, toClient, server, job, left>>

(* server.c *)

\* interpret: a request is answered, or an exchange begins.  What is no
\* command is answered "-1"; a message that fills the reader's buffer without
\* its end makes get_msg fail, and interpret return.
interpret ==
  /\ server = "idle"
  /\ \E k \in 1 .. Len(toServer) :
       /\ toServer' = Take(toServer, k)
       /\ LET m == Head(toServer)
              c == IF m.type = "cmd" THEN m.cmd ELSE Plain("-1")
          IN
          \/ /\ c.kind = "plain"
             /\ toClient' = Append(toClient, Reply(c.reply))
             /\ UNCHANGED <<server, job>>
          \/ /\ c.kind = "exit"
             /\ toClient' = Append(toClient, Reply("3"))
             /\ server' = "closed"
             /\ UNCHANGED job
          \/ /\ c.kind = "long"
             /\ server' = "closed"
             /\ UNCHANGED <<toClient, job>>
          \/ /\ c.kind \in {"ls", "odd", "cat"}
             /\ toClient' = Append(toClient, Reply("2"))
             /\ server' = "ack"
             /\ job' = c
  /\ UNCHANGED <<client, n, cmd, shown, left>>

send_count_one_more ==
  /\ server = "ack"
  /\ \E k \in 1 .. Len(toServer) :
       /\ toServer' = Take(toServer, k)
       /\ toClient' = Append(toClient, Count(job.say))
  /\ left' = job.send + 1
  /\ server' = "items"
  /\ UNCHANGED <<client, n, cmd, shown, job>>

\* list and cat: the count; if it is not asked for, the answer of a failure
\* for ls with a path, and none for ls alone and cat.  ls of neither a file nor
\* a directory gives both, the count and the failure.
send_count ==
  /\ server = "ack"
  /\ \E k \in 1 .. Len(toServer) :
       /\ toServer' = Take(toServer, k)
       /\ IF Head(toServer).type = "ACK"
          THEN /\ toClient' = toClient \o IF job.kind = "odd"
                                          THEN <<Count(job.say), Reply("4")>>
                                          ELSE <<Count(job.say)>>
               /\ left' = job.send
          ELSE /\ \/ job.kind # "cat" /\ toClient' = Append(toClient, Reply("4"))
                  \/ toClient' = toClient
               /\ left' = 0
  /\ server' = IF left' > 0 THEN "items" ELSE "idle"
  /\ UNCHANGED <<client, n, cmd, shown, job>>

\* show_file, show_dir, cat_data: one line if it was asked for.  If something
\* else was, that is dropped and the line too.
send_item ==
  /\ server = "items"
  /\ \E k \in 1 .. Len(toServer) :
       /\ toServer' = Take(toServer, k)
       /\ toClient' = IF Head(toServer).type = "EXPECT" THEN Append(toClient, Item)
                      ELSE toClient
  /\ left' = left - 1
  /\ server' = IF left' > 0 THEN "items" ELSE "idle"
  /\ UNCHANGED <<client, n, cmd, shown, job>>

end_of_input_unchecked ==
  /\ toServer = <<>> /\ Gone
  /\ server \in {"idle", "ack", "items"} /\ server' = "crashed"
  /\ UNCHANGED <<client, n, cmd, shown, toServer, toClient, job, left>>

end_of_input_idle ==
  /\ toServer = <<>> /\ Gone
  /\ server = "idle" /\ server' = "closed"
  /\ UNCHANGED <<client, n, cmd, shown, toServer, toClient, job, left>>

\* The client is gone.  interpret returns and main goes on to alloc_final;
\* anywhere else get_msg's NULL is passed to strcmp.
end_of_input ==
  /\ toServer = <<>> /\ Gone
  /\ \/ server = "idle" /\ server' = "closed"
     \/ server \in {"ack", "items"} /\ server' = "crashed"
  /\ UNCHANGED <<client, n, cmd, shown, toServer, toClient, job, left>>

-----------------------------------------------------------------------------
ClientStep == get_reply \/ get_count \/ get_item \/ client_fails
ServerStep == interpret \/ send_count \/ send_item \/ end_of_input

Next ==
  \/ \E c \in Command : send_cmd(c)
  \/ client_killed
  \/ ClientStep
  \/ ServerStep

\* Both programs block in read and run on when something arrives.  The user
\* need not type anything.
Spec == Init /\ [][Next]_vars /\ WF_vars(ClientStep) /\ WF_vars(ServerStep)

-----------------------------------------------------------------------------
TypeOK ==
  /\ client \in {"prompt", "reply", "count", "item", "done", "failed", "killed"}
  /\ server \in {"idle", "ack", "items", "closed", "crashed"}
  /\ n \in Nat /\ left \in Nat /\ shown \in Nat
  /\ cmd \in Command \cup {NONE} /\ job \in Command \cup {NONE}

\* The two programs are at matching points, and at most one message is on its
\* way: none can arrive together with another and be lost by get_msg, and the
\* next thing a program reads is what it takes it for.
InStep ==
  ~Gone /\ server # "closed" =>
    /\ Len(toServer) + Len(toClient) <= 1
    /\ client = "prompt" => server = "idle" /\ toServer = <<>> /\ toClient = <<>>
    /\ client = "count" => \/ server = "ack" /\ toServer = <<Ack>>
                           \/ server # "ack" /\ toClient # <<>>
    /\ client = "item" => n = left + Len(toClient) /\ (n > 0 => toServer # toClient)

\* What ls and cat print is all there is: when the shell prompts again it has
\* shown a line for every entry or zone.
Complete ==
  [][client' = "prompt" /\ client \in {"count", "item"} => shown' = cmd.have]_vars

\* The server gives up without alloc_final, and with it the bitmap, only on a
\* shell that was killed in the middle of the ls or cat the server works on:
\* never at a prompt, nor once everything has been shown.
OrderlyEnd ==
  server = "crashed" =>
    /\ client = "killed"
    /\ job # NONE /\ cmd = job
    /\ shown = 0 \/ shown < job.have

\* The shell is never left waiting: it gets to its next prompt, or sees the
\* connection end.
Responsive ==
  client \in {"reply", "count", "item"} ~> client = "prompt" \/ Gone

\* A server whose shell is gone does not stay (the next one could not bind).
EndsAfterClient == Gone ~> server \in {"closed", "crashed"}
=============================================================================
