---------------------------- MODULE ShellProofs ----------------------------
(***************************************************************************)
(* What TLAPS proves of Shell: when the line counts of ls and cat are the  *)
(* numbers of lines sent, the two programs stay in step, the listing is    *)
(* complete and the server ends in order, for every set of directories,    *)
(* files and long commands; and for which files the count of cat is right. *)
(***************************************************************************)
EXTENDS Shell, TLAPS

-----------------------------------------------------------------------------
\* The hypothesis of the theorems about the conversation.  Where it fails so
\* do they: MCShell.tla and the run of MCShellCat.cfg.
CountsRight ==
  /\ Odd = {}
  /\ \A e \in DirSizes : Sent(e) = e
  /\ \A z \in FileSizes : get_cat_len(update_size(z)) = z

Listings == {c \in Command : c.kind \in {"ls", "cat"}}

\* The server works on the command the user gave last.
Working == job = cmd /\ cmd \in Listings

(* The points of the conversation, by where the client is: what is on its  *)
(* way then, where the server is and what the two still count on.          *)

Prompting ==
  client = "prompt" /\ server = "idle" /\ toServer = <<>> /\ toClient = <<>>

Asking ==
  /\ client = "reply" /\ cmd \in Command /\ shown = 0
  /\ \/ server = "idle" /\ toServer = <<Request(cmd)>> /\ toClient = <<>>
     \/ /\ server = "idle" /\ toServer = <<>>
        /\ cmd.kind = "plain" /\ toClient = <<Reply(cmd.reply)>>
     \/ server = "ack" /\ toServer = <<>> /\ toClient = <<Reply("2")>> /\ Working
     \/ server = "closed" /\ toServer = <<>> /\ toClient \in {<<>>, <<Reply("3")>>}

Counting ==
  /\ client = "count" /\ Working /\ shown = 0
  /\ \/ server = "ack" /\ toServer = <<Ack>> /\ toClient = <<>>
     \/ /\ toServer = <<>> /\ toClient = <<Count(cmd.have)>> /\ left = cmd.have
        /\ server = IF left > 0 THEN "items" ELSE "idle"

Showing ==
  /\ client = "item" /\ Working /\ n > 0 /\ shown + n = cmd.have
  /\ \/ server = "items" /\ toServer = <<Expect>> /\ toClient = <<>> /\ left = n
     \/ /\ toServer = <<>> /\ toClient = <<Item>> /\ left = n - 1
        /\ server = IF left > 0 THEN "items" ELSE "idle"

\* The server answers what it had been asked, and then finds out.
Abandoned ==
  /\ client = "killed"
  /\ \/ server = "idle" /\ toServer = <<>>
     \/ server = "idle" /\ toServer = <<Request(cmd)>> /\ cmd \in Command /\ shown = 0
     \/ server = "ack" /\ toServer \in {<<>>, <<Ack>>} /\ Working /\ shown = 0
     \/ /\ server = "items" /\ toServer \in {<<>>, <<Expect>>} /\ Working
        /\ left > 0 /\ (shown = 0 \/ shown < cmd.have)
     \/ server = "closed"
     \/ server = "crashed" /\ Working /\ (shown = 0 \/ shown < cmd.have)

Over == client \in {"done", "failed"} /\ server = "closed"

IInv ==
  /\ TypeOK
  /\ Prompting \/ Asking \/ Counting \/ Showing \/ Abandoned \/ Over

-----------------------------------------------------------------------------
\* One message at a time: what is written to an empty stream is all there is
\* to read, and a read takes it and leaves the stream empty.
LEMMA OneMessage ==
  ASSUME NEW msg
  PROVE  /\ Append(<<>>, msg) = <<msg>> /\ <<>> \o <<msg>> = <<msg>>
         /\ Len(<<msg>>) = 1 /\ Head(<<msg>>) = msg /\ <<msg>> # <<>>
         /\ Take(<<msg>>, 1) = <<>>
BY DEF Take

\* Nothing can be read from an empty stream.
LEMMA NoMessage == Len(<<>>) = 0 /\ \A k \in 1 .. Len(<<>>) : FALSE
OBVIOUS

\* One message on its way one way or the other.
LEMMA OneOnItsWay ==
  ASSUME NEW msg
  PROVE  /\ Len(<<msg>>) + Len(<<>>) <= 1 /\ Len(<<>>) + Len(<<msg>>) <= 1
         /\ <<msg>> # <<>>
BY OneMessage, NoMessage

\* A listing announces what there is and sends all of it.
LEMMA ListingIsRight ==
  ASSUME CountsRight, NEW c \in Listings
  PROVE  /\ c \in Command /\ c \notin {NONE} /\ c.kind # "odd"
         /\ c.kind \notin {"plain", "exit", "long", "odd"}
         /\ c.have \in Nat /\ c.say = c.have /\ c.send = c.have
BY SizesAssumption, NoneAssumption
   DEF CountsRight, Listings, Command, Plain, Listing, get_ls_len

\* What a command can be, and its parts.
LEMMA CommandKinds ==
  ASSUME CountsRight, NEW c \in Command
  PROVE  \/ c.kind = "plain" /\ c.reply \in {"0", "4", "-1"}
         \/ c.kind \in {"exit", "long"}
         \/ c.kind \in {"ls", "cat"} /\ c \in Listings
BY DEF CountsRight, Listings, Command, Plain, Listing

LEMMA Decoded ==
  /\ atoi(Reply("0")) = 0 /\ atoi(Reply("2")) = 2 /\ atoi(Reply("3")) = 3
  /\ atoi(Reply("4")) = 4 /\ atoi(Reply("-1")) = -1
  /\ \A k : atoi(Count(k)) = k
  /\ Item.type = "item" /\ Ack.type = "ACK" /\ Expect.type = "EXPECT"
  /\ \A c : Request(c).type = "cmd" /\ Request(c).cmd = c
BY DEF atoi, Reply, Count, Item, Ack, Expect, Request

-----------------------------------------------------------------------------
\* The invariant holds at the start.
LEMMA InitIInv == Init => IInv
BY SizesAssumption DEF Init, IInv, TypeOK, Prompting

\* A command is sent: nothing else is on its way.
LEMMA SendCmdStep ==
  ASSUME IInv, NEW c \in Command, send_cmd(c)
  PROVE  IInv'
<1>1. Prompting
  BY DEF IInv, send_cmd, Prompting, Asking, Counting, Showing, Abandoned, Over
<1>2. toServer' = <<Request(c)>>
  BY <1>1, OneMessage DEF Prompting, send_cmd
<1>3. Asking'
  BY <1>1, <1>2 DEF Prompting, send_cmd, Asking
<1>4. TypeOK'
  BY DEF IInv, send_cmd, TypeOK
<1> QED
  BY <1>3, <1>4 DEF IInv

\* The reply to a command: the client is back at its prompt, waits for the
\* count, or ends.
LEMMA GetReplyStep ==
  ASSUME CountsRight, IInv, get_reply
  PROVE  IInv'
<1>1. Asking
  BY DEF IInv, get_reply, Prompting, Asking, Counting, Showing, Abandoned, Over
<1>2. PICK k \in 1 .. Len(toClient) :
        /\ toClient' = Take(toClient, k)
        /\ LET r == atoi(Head(toClient)) IN
           /\ client' = CASE r = 2 -> "count" [] r = 3 -> "done" [] OTHER -> "prompt"
           /\ toServer' = IF r = 2 THEN Append(toServer, Ack) ELSE toServer
  BY DEF get_reply
<1>3. toServer = <<>> /\ toClient # <<>>
  BY <1>1, <1>2, NoMessage DEF Asking
<1>4. CASE server = "idle"
  <2>1. cmd.kind = "plain" /\ toClient = <<Reply(cmd.reply)>>
    BY <1>1, <1>3, <1>4, OneMessage DEF Asking
  <2>2. cmd.reply \in {"0", "4", "-1"}
    BY <1>1, <2>1, CommandKinds DEF Asking
  <2>3. k = 1 /\ toClient' = <<>>
    BY <1>2, <2>1, OneMessage
  <2>4. client' = "prompt" /\ toServer' = <<>>
    BY <1>2, <1>3, <2>1, <2>2, OneMessage, Decoded
  <2>5. Prompting' /\ TypeOK'
    BY <1>4, <2>3, <2>4 DEF get_reply, Prompting, IInv, TypeOK
  <2> QED
    BY <2>5 DEF IInv
<1>5. CASE server = "ack"
  <2>1. toClient = <<Reply("2")>>
    BY <1>1, <1>3, <1>5, OneMessage DEF Asking
  <2>2. k = 1 /\ toClient' = <<>>
    BY <1>2, <2>1, OneMessage
  <2>3. client' = "count" /\ toServer' = <<Ack>>
    BY <1>2, <1>3, <2>1, OneMessage, Decoded
  <2>4. Counting' /\ TypeOK'
    BY <1>1, <1>5, <2>2, <2>3 DEF get_reply, Asking, Counting, Working, Listings, IInv, TypeOK
  <2> QED
    BY <2>4 DEF IInv
<1>6. CASE server = "closed"
  <2>1. toClient = <<Reply("3")>>
    BY <1>1, <1>3, <1>6 DEF Asking
  <2>2. client' = "done"
    BY <1>2, <2>1, OneMessage, Decoded
  <2>3. Over' /\ TypeOK'
    BY <1>6, <2>2 DEF get_reply, Over, IInv, TypeOK
  <2> QED
    BY <2>3 DEF IInv
<1> QED
  BY <1>1, <1>4, <1>5, <1>6 DEF Asking

\* The count: all the lines are still to be shown.
LEMMA GetCountStep ==
  ASSUME CountsRight, IInv, get_count
  PROVE  IInv'
<1>1. Counting
  BY DEF IInv, get_count, Prompting, Asking, Counting, Showing, Abandoned, Over
<1>2. PICK k \in 1 .. Len(toClient) :
        toClient' = Take(toClient, k) /\ n' = atoi(Head(toClient))
  BY DEF get_count
<1>3. /\ toServer = <<>> /\ toClient = <<Count(cmd.have)>> /\ left = cmd.have
      /\ server = IF left > 0 THEN "items" ELSE "idle"
  BY <1>1, <1>2, NoMessage DEF Counting
<1>4. cmd.have \in Nat
  BY <1>1, ListingIsRight DEF Counting, Working
<1>5. toClient' = <<>> /\ n' = cmd.have
  BY <1>2, <1>3, OneMessage, Decoded
<1>6. TypeOK'
  BY <1>4, <1>5 DEF get_count, IInv, TypeOK
<1>7. CASE cmd.have = 0
  <2>1. Prompting'
    BY <1>3, <1>5, <1>7 DEF get_count, Prompting
  <2> QED
    BY <1>6, <2>1 DEF IInv
<1>8. CASE cmd.have > 0
  <2>1. toServer' = <<Expect>> /\ client' = "item"
    BY <1>3, <1>5, <1>8, OneMessage DEF get_count
  <2>2. Showing'
    BY <1>1, <1>3, <1>4, <1>5, <1>8, <2>1 DEF get_count, Counting, Showing, Working, Listings
  <2> QED
    BY <1>6, <2>2 DEF IInv
<1> QED
  BY <1>4, <1>7, <1>8

\* A line is shown; the last one takes the client back to its prompt.
LEMMA GetItemStep ==
  ASSUME CountsRight, IInv, get_item
  PROVE  IInv'
<1>1. Showing
  BY DEF IInv, get_item, Prompting, Asking, Counting, Showing, Abandoned, Over
<1>2. PICK k \in 1 .. Len(toClient) :
        /\ toClient' = Take(toClient, k)
        /\ shown' = IF Head(toClient).type = "item" THEN shown + 1 ELSE shown
  BY DEF get_item
<1>3. /\ toServer = <<>> /\ toClient = <<Item>> /\ left = n - 1
      /\ server = IF left > 0 THEN "items" ELSE "idle"
  BY <1>1, <1>2, NoMessage DEF Showing
<1>4. toClient' = <<>> /\ shown' = shown + 1 /\ n' = n - 1
  BY <1>2, <1>3, OneMessage, Decoded DEF get_item
<1>5. n \in Nat /\ n > 0 /\ shown \in Nat /\ shown + n = cmd.have
  BY <1>1 DEF Showing, IInv, TypeOK
<1>6. TypeOK'
  BY <1>4, <1>5 DEF get_item, IInv, TypeOK
<1>7. CASE n = 1
  <2>1. Prompting'
    BY <1>3, <1>4, <1>7 DEF get_item, Prompting
  <2> QED
    BY <1>6, <2>1 DEF IInv
<1>8. CASE n > 1
  <2>1. toServer' = <<Expect>> /\ client' = "item"
    BY <1>3, <1>4, <1>8, <1>5, OneMessage DEF get_item
  <2>2. Showing'
    BY <1>1, <1>3, <1>4, <1>5, <1>8, <2>1 DEF get_item, Showing, Working, Listings
  <2> QED
    BY <1>6, <2>2 DEF IInv
<1> QED
  BY <1>5, <1>7, <1>8

\* The connection ends under a client that waits.
LEMMA ClientFailsStep ==
  ASSUME IInv, client_fails
  PROVE  IInv'
<1>1. server = "closed"
  BY DEF IInv, client_fails, Prompting, Asking, Counting, Showing, Abandoned, Over
<1>2. Over' /\ TypeOK'
  BY <1>1 DEF client_fails, Over, IInv, TypeOK
<1> QED
  BY <1>2 DEF IInv

\* The shell is killed, wherever the two are.
LEMMA ClientKilledStep ==
  ASSUME CountsRight, IInv, client_killed
  PROVE  IInv'
<1>1. Working => cmd.have \in Nat
  BY ListingIsRight DEF Working
<1>2. Abandoned'
  <2>1. CASE Prompting
    BY <2>1 DEF Prompting, client_killed, Abandoned
  <2>2. CASE Asking
    BY <2>2 DEF Asking, client_killed, Abandoned, Request, Working, Listings
  <2>3. CASE Counting
    BY <1>1, <2>3 DEF Counting, client_killed, Abandoned, Working, Listings
  <2>4. CASE Showing
    BY <1>1, <2>4 DEF Showing, client_killed, Abandoned, Working, Listings, IInv, TypeOK
  <2> QED
    BY <2>1, <2>2, <2>3, <2>4 DEF IInv, client_killed, Gone, Abandoned, Over
<1>3. TypeOK'
  BY DEF client_killed, IInv, TypeOK
<1> QED
  BY <1>2, <1>3 DEF IInv

\* The server takes a request: it is the command the client waits for.
LEMMA InterpretStep ==
  ASSUME CountsRight, IInv, interpret
  PROVE  IInv'
<1>1. PICK k \in 1 .. Len(toServer) :
        /\ toServer' = Take(toServer, k)
        /\ LET m == Head(toServer)
               c == IF m.type = "cmd" THEN m.cmd ELSE Plain("-1")
           IN
           \/ /\ c.kind = "plain"
              /\ toClient' = Append(toClient, Reply(c.reply))
              /\ UNCHANGED <<server, job>>
           \/ /\ c.kind = "exit"
              /\ toClient' = Append(toClient, Reply("3"))
              /\ server' = "closed"
              /\ UNCHANGED job
           \/ /\ c.kind = "long"
              /\ server' = "closed"
              /\ UNCHANGED <<toClient, job>>
           \/ /\ c.kind \in {"ls", "odd", "cat"}
              /\ toClient' = Append(toClient, Reply("2"))
              /\ server' = "ack"
              /\ job' = c
  BY DEF interpret
<1>2. /\ toServer = <<Request(cmd)>> /\ cmd \in Command /\ shown = 0
      /\ \/ client = "reply" /\ toClient = <<>>
         \/ client = "killed"
  BY <1>1, NoMessage, OneMessage
     DEF interpret, IInv, Prompting, Asking, Counting, Showing, Abandoned, Over
<1>3. k = 1 /\ toServer' = <<>> /\ Head(toServer) = Request(cmd)
  BY <1>1, <1>2, OneMessage
<1>4. \/ /\ cmd.kind = "plain" /\ toClient' = Append(toClient, Reply(cmd.reply))
         /\ server' = "idle" /\ job' = job
      \/ /\ cmd.kind = "exit" /\ toClient' = Append(toClient, Reply("3"))
         /\ server' = "closed" /\ job' = job
      \/ /\ cmd.kind = "long" /\ toClient' = toClient
         /\ server' = "closed" /\ job' = job
      \/ /\ cmd \in Listings /\ toClient' = Append(toClient, Reply("2"))
         /\ server' = "ack" /\ job' = cmd
  BY <1>1, <1>2, <1>3, Decoded, CommandKinds DEF interpret
<1>5. TypeOK'
  BY <1>2, <1>4 DEF interpret, IInv, TypeOK
<1>6. CASE client = "reply" /\ toClient = <<>>
  <2>1. Asking'
    BY <1>2, <1>3, <1>4, <1>6, OneMessage DEF interpret, Asking, Working, Listings
  <2> QED
    BY <1>5, <2>1 DEF IInv
<1>7. CASE client = "killed"
  <2>1. Abandoned'
    BY <1>2, <1>3, <1>4, <1>7 DEF interpret, Abandoned, Working, Listings
  <2> QED
    BY <1>5, <2>1 DEF IInv
<1> QED
  BY <1>2, <1>6, <1>7

\* The count is sent once it has been asked for.
LEMMA SendCountStep ==
  ASSUME CountsRight, IInv, send_count
  PROVE  IInv'
<1>1. PICK k \in 1 .. Len(toServer) :
        /\ toServer' = Take(toServer, k)
        /\ IF Head(toServer).type = "ACK"
           THEN /\ toClient' = toClient \o IF job.kind = "odd"
                                           THEN <<Count(job.say), Reply("4")>>
                                           ELSE <<Count(job.say)>>
                /\ left' = job.send
           ELSE /\ \/ job.kind # "cat" /\ toClient' = Append(toClient, Reply("4"))
                   \/ toClient' = toClient
                /\ left' = 0
  BY DEF send_count
<1>2. /\ toServer = <<Ack>> /\ Working /\ shown = 0
      /\ \/ client = "count" /\ toClient = <<>>
         \/ client = "killed"
  BY <1>1, NoMessage, OneMessage
     DEF send_count, IInv, Prompting, Asking, Counting, Showing, Abandoned, Over
<1>3. k = 1 /\ toServer' = <<>> /\ Head(toServer) = Ack
  BY <1>1, <1>2, OneMessage
<1>4. job.kind # "odd" /\ job.have \in Nat /\ job.say = job.have /\ job.send = job.have
  BY <1>2, ListingIsRight DEF Working
<1>5. toClient' = toClient \o <<Count(cmd.have)>> /\ left' = cmd.have
  BY <1>1, <1>2, <1>3, <1>4, Decoded DEF Working
<1>6. TypeOK'
  BY <1>2, <1>4, <1>5 DEF send_count, IInv, TypeOK, Working
<1>7. CASE client = "count" /\ toClient = <<>>
  <2>1. Counting'
    BY <1>2, <1>3, <1>5, <1>7, OneMessage DEF send_count, Counting, Working, Listings
  <2> QED
    BY <1>6, <2>1 DEF IInv
<1>8. CASE client = "killed"
  <2>1. Abandoned'
    BY <1>2, <1>3, <1>4, <1>5, <1>8 DEF send_count, Abandoned, Working, Listings
  <2> QED
    BY <1>6, <2>1 DEF IInv
<1> QED
  BY <1>2, <1>7, <1>8

\* A line is sent for each that is asked for, and never another.
LEMMA SendItemStep ==
  ASSUME CountsRight, IInv, send_item
  PROVE  IInv'
<1>1. PICK k \in 1 .. Len(toServer) :
        /\ toServer' = Take(toServer, k)
        /\ toClient' = IF Head(toServer).type = "EXPECT" THEN Append(toClient, Item)
                       ELSE toClient
  BY DEF send_item
<1>2. /\ toServer = <<Expect>> /\ Working /\ left > 0
      /\ \/ client = "item" /\ toClient = <<>> /\ left = n
         \/ client = "killed" /\ (shown = 0 \/ shown < cmd.have)
  BY <1>1, NoMessage, OneMessage
     DEF send_item, IInv, Prompting, Asking, Counting, Showing, Abandoned, Over
<1>3. k = 1 /\ toServer' = <<>> /\ Head(toServer) = Expect
  BY <1>1, <1>2, OneMessage
<1>4. toClient' = Append(toClient, Item) /\ left' = left - 1 /\ left \in Nat
  BY <1>1, <1>3, Decoded DEF send_item, IInv, TypeOK
<1>5. TypeOK'
  BY <1>2, <1>4 DEF send_item, IInv, TypeOK
<1>6. CASE client = "item" /\ toClient = <<>> /\ left = n
  <2>1. Showing
    BY <1>6 DEF IInv, Prompting, Asking, Counting, Showing, Abandoned, Over
  <2>2. Showing'
    BY <1>2, <1>3, <1>4, <1>6, <2>1, OneMessage DEF send_item, Showing, Working, Listings
  <2> QED
    BY <1>5, <2>2 DEF IInv
<1>7. CASE client = "killed" /\ (shown = 0 \/ shown < cmd.have)
  <2>1. Abandoned'
    BY <1>2, <1>3, <1>4, <1>7 DEF send_item, Abandoned, Working, Listings
  <2> QED
    BY <1>5, <2>1 DEF IInv
<1> QED
  BY <1>2, <1>6, <1>7

\* The server finds that its shell is gone.
LEMMA EndOfInputStep ==
  ASSUME IInv, end_of_input
  PROVE  IInv'
<1>1. client = "killed" /\ Abandoned
  BY DEF end_of_input, Gone, IInv, Prompting, Asking, Counting, Showing, Abandoned, Over
<1>2. Abandoned'
  BY <1>1 DEF end_of_input, Abandoned, Working, Listings, Request
<1>3. TypeOK'
  BY DEF end_of_input, IInv, TypeOK
<1> QED
  BY <1>2, <1>3 DEF IInv

LEMMA NextIInv ==
  ASSUME CountsRight, IInv, [Next]_vars
  PROVE  IInv'
<1>1. CASE UNCHANGED vars
  BY <1>1 DEF vars, IInv, TypeOK, Prompting, Asking, Counting, Showing, Abandoned, Over,
              Working, Listings
<1>2. CASE \E c \in Command : send_cmd(c)
  BY <1>2, SendCmdStep
<1>3. CASE client_killed
  BY <1>3, ClientKilledStep
<1>4. CASE ClientStep
  BY <1>4, GetReplyStep, GetCountStep, GetItemStep, ClientFailsStep DEF ClientStep
<1>5. CASE ServerStep
  BY <1>5, InterpretStep, SendCountStep, SendItemStep, EndOfInputStep DEF ServerStep
<1> QED
  BY <1>1, <1>2, <1>3, <1>4, <1>5 DEF Next

\* The two programs are always at one of the points above.
THEOREM Invariant == CountsRight => (Spec => []IInv)
<1> SUFFICES ASSUME CountsRight PROVE Spec => []IInv
  OBVIOUS
<1>1. Init => IInv
  BY InitIInv
<1>2. IInv /\ [Next]_vars => IInv'
  BY NextIInv
<1> QED
  BY <1>1, <1>2, PTL DEF Spec

\* The values are of their types all along: no line count below zero is ever
\* waited for, and the server works on a command the user gave.
THEOREM TypeCorrect == CountsRight => (Spec => []TypeOK)
<1>1. IInv => TypeOK
  BY DEF IInv
<1> QED
  BY <1>1, Invariant, PTL

\* client.c and server.c never read a message for another one, and none is
\* lost because it arrived together with another.
THEOREM StaysInStep == CountsRight => (Spec => []InStep)
<1> SUFFICES ASSUME CountsRight PROVE Spec => []InStep
  OBVIOUS
<1>1. IInv => InStep
  <2> SUFFICES ASSUME IInv, ~Gone, server # "closed" PROVE InStep
    BY DEF InStep
  <2>2. CASE Prompting
    BY <2>2, NoMessage DEF Prompting, InStep
  <2>3. CASE Asking
    <3>1. Len(toServer) + Len(toClient) <= 1 /\ client = "reply"
      BY <2>3, OneOnItsWay DEF Asking
    <3> QED
      BY <3>1 DEF InStep
  <2>4. CASE Counting
    <3>1. Len(toServer) + Len(toClient) <= 1 /\ client = "count"
      BY <2>4, OneOnItsWay DEF Counting
    <3>2. \/ server = "ack" /\ toServer = <<Ack>>
          \/ server # "ack" /\ toClient # <<>>
      BY <2>4, OneOnItsWay DEF Counting
    <3> QED
      BY <3>1, <3>2 DEF InStep
  <2>5. CASE Showing
    <3>1. /\ Len(toServer) + Len(toClient) <= 1 /\ toServer # toClient
          /\ client = "item"
      BY <2>5, OneOnItsWay DEF Showing
    <3>2. n = left + Len(toClient)
      <4>1. CASE toClient = <<>> /\ left = n
        BY <4>1, NoMessage DEF IInv, TypeOK
      <4>2. CASE toClient = <<Item>> /\ left = n - 1
        BY <4>2, OneMessage DEF IInv, TypeOK
      <4> QED
        BY <2>5, <4>1, <4>2 DEF Showing
    <3> QED
      BY <3>1, <3>2 DEF InStep
  <2> QED
    BY <2>2, <2>3, <2>4, <2>5 DEF IInv, Gone, Abandoned, Over
<1> QED
  BY <1>1, Invariant, PTL

\* The server gives up without alloc_final only on a shell that was killed in
\* the middle of the ls or cat it works on.
THEOREM EndsInOrder == CountsRight => (Spec => []OrderlyEnd)
<1> SUFFICES ASSUME CountsRight PROVE Spec => []OrderlyEnd
  OBVIOUS
<1>1. IInv => OrderlyEnd
  BY ListingIsRight
     DEF IInv, OrderlyEnd, Prompting, Asking, Counting, Showing, Abandoned, Over, Working
<1> QED
  BY <1>1, Invariant, PTL

\* When the shell prompts again after ls or cat it has shown a line for every
\* entry or zone.
THEOREM ShowsAll == CountsRight => (Spec => Complete)
<1> DEFINE AllShown == client' = "prompt" /\ client \in {"count", "item"} => shown' = cmd.have
<1> SUFFICES ASSUME CountsRight PROVE Spec => [][AllShown]_vars
  BY DEF Complete
<1>1. IInv /\ [Next]_vars => [AllShown]_vars
  <2> SUFFICES ASSUME IInv, Next, client' = "prompt", client \in {"count", "item"}
               PROVE  shown' = cmd.have
    BY DEF vars
  <2>1. get_count \/ get_item
    BY DEF Next, send_cmd, client_killed, ClientStep, get_reply, client_fails, ServerStep,
           interpret, send_count, send_item, end_of_input
  <2>2. CASE get_count
    <3>1. Counting
      BY <2>2 DEF IInv, get_count, Prompting, Asking, Counting, Showing, Abandoned, Over
    <3>2. toClient = <<Count(cmd.have)>> /\ n' = cmd.have
      BY <2>2, <3>1, OneMessage, NoMessage, Decoded DEF get_count, Counting
    <3>3. cmd.have \in Nat
      BY <3>1, ListingIsRight DEF Counting, Working
    <3> QED
      BY <2>2, <3>1, <3>2, <3>3 DEF get_count, Counting
  <2>3. CASE get_item
    <3>1. Showing
      BY <2>3 DEF IInv, get_item, Prompting, Asking, Counting, Showing, Abandoned, Over
    <3>2. toClient = <<Item>> /\ shown' = shown + 1
      BY <2>3, <3>1, OneMessage, NoMessage, Decoded DEF get_item, Showing
    <3> QED
      BY <2>3, <3>1, <3>2 DEF get_item, Showing, IInv, TypeOK
  <2> QED
    BY <2>1, <2>2, <2>3
<1> HIDE DEF AllShown
<1> QED
  BY <1>1, Invariant, PTL DEF Spec

-----------------------------------------------------------------------------
\* For which files the hypothesis holds: get_cat_len gives back the data zones
\* update_size was told of up to 42 and from 53 to 84 of them.  From there on
\* it is right only when the last index zone of the second level is full, and
\* under the third level only when it is not.
CountedRight(z) ==
  \/ z \in 0 .. 42 \cup 53 .. 84
  \/ z \in 85 .. 1108 /\ (z - 84) % 32 = 0
  \/ z > 1108 /\ (z - 1108) % 32 # 0

\* Division of what is given as a multiple and a remainder.
LEMMA Divided ==
  ASSUME NEW k \in Int
  PROVE  /\ \A r \in 0 .. 31 : (32 * k + r) \div 32 = k /\ (32 * k + r) % 32 = r
         /\ \A r \in 0 .. 32 : (33 * k + r) \div 33 = k
OBVIOUS

\* A file of 32 k + r zones, 1 <= r <= 32, beyond a boundary has k + 1 more
\* index zones beyond it.
LEMMA Split ==
  ASSUME NEW w \in Nat, w > 0
  PROVE  \E k \in Nat, r \in 1 .. 32 :
           /\ w = 32 * k + r /\ (w + 31) \div 32 = k + 1
           /\ w % 32 = 0 <=> r = 32
<1> DEFINE k == (w - 1) \div 32
           r == ((w - 1) % 32) + 1
<1>1. k \in Nat /\ r \in 1 .. 32 /\ w = 32 * k + r
  OBVIOUS
<1> HIDE DEF k, r
<1>2. (w + 31) \div 32 = k + 1
  <2>1. w + 31 = 32 * (k + 1) + (r - 1) /\ r - 1 \in 0 .. 31 /\ k + 1 \in Int
    BY <1>1
  <2> QED
    BY <2>1, Divided
<1>3. CASE r = 32
  <2>1. w = 32 * (k + 1) + 0 /\ k + 1 \in Int
    BY <1>1, <1>3
  <2>2. w % 32 = 0
    BY <2>1, Divided
  <2> QED
    BY <1>1, <1>2, <1>3, <2>2
<1>4. CASE r # 32
  <2>1. r \in 0 .. 31 /\ k \in Int
    BY <1>1, <1>4
  <2>2. (32 * k + r) % 32 = r
    BY <2>1, Divided
  <2> QED
    BY <1>1, <1>2, <1>4, <2>2
<1> QED
  BY <1>3, <1>4

\* The two functions of fs_lib.c are inverse to each other on these files and
\* on no other.
THEOREM CatCount == \A z \in Nat : get_cat_len(update_size(z)) = z <=> CountedRight(z)
<1> TAKE z \in Nat
<1>1. CASE z <= 84
  <2>1. update_size(z) = (CASE z <= 20 -> 1 + z [] z \in 21 .. 52 -> 2 + z [] OTHER -> 3 + z)
    BY SMTT(30), <1>1 DEF update_size
  <2>2. /\ \A size \in 0 .. 21 : get_cat_len(size) = size - 1
        /\ \A size \in 22 .. 44 : get_cat_len(size) = size - 2
        /\ \A size \in 45 .. 87 : get_cat_len(size) = size - 3
    <3>1. ASSUME NEW size \in 0 .. 21 PROVE get_cat_len(size) = size - 1
      BY DEF get_cat_len
    <3>2. ASSUME NEW size \in 22 .. 44 PROVE get_cat_len(size) = size - 2
      BY DEF get_cat_len
    <3>3. ASSUME NEW size \in 45 .. 87 PROVE get_cat_len(size) = size - 3
      BY SMTT(30) DEF get_cat_len
    <3> QED
      BY <3>1, <3>2, <3>3
  <2>3. CASE z <= 20
    BY <2>1, <2>2, <2>3 DEF CountedRight
  <2>4. CASE z \in 21 .. 52
    BY <2>1, <2>2, <2>4 DEF CountedRight
  <2>5. CASE z \in 53 .. 84
    BY <2>1, <2>2, <2>5 DEF CountedRight
  <2> QED
    BY <1>1, <2>3, <2>4, <2>5
<1>2. CASE z \in 85 .. 1108
  <2>1. PICK k \in Nat, r \in 1 .. 32 :
          /\ z - 84 = 32 * k + r /\ ((z - 84) + 31) \div 32 = k + 1
          /\ (z - 84) % 32 = 0 <=> r = 32
    BY <1>2, Split
  <2>2. update_size(z) = 4 + z + (k + 1)
    BY <1>2, <2>1 DEF update_size
  <2>3. get_cat_len(update_size(z)) = 2 + z + k - ((33 * k + (r + 34)) \div 33)
    <3>1. update_size(z) - 55 = 33 * k + (r + 34) /\ update_size(z) \in 90 .. 1144
      BY <1>2, <2>1, <2>2
    <3> QED
      BY <2>2, <3>1 DEF get_cat_len
  <2>4. (33 * k + (r + 34)) \div 33 = IF r = 32 THEN k + 2 ELSE k + 1
    <3>1. 33 * k + (r + 34) = 33 * (k + 1) + (r + 1)
      OBVIOUS
    <3>2. r = 32 => 33 * k + (r + 34) = 33 * (k + 2) + 0
      OBVIOUS
    <3> QED
      BY <3>1, <3>2, Divided
  <2> QED
    BY <1>2, <2>1, <2>3, <2>4 DEF CountedRight
<1>3. CASE z > 1108
  <2>1. PICK k \in Nat, r \in 1 .. 32 :
          /\ z - 1108 = 32 * k + r /\ ((z - 1108) + 31) \div 32 = k + 1
          /\ (z - 1108) % 32 = 0 <=> r = 32
    BY <1>3, Split
  <2>2. update_size(z) = 37 + z + (k + 1)
    BY <1>3, <2>1 DEF update_size
  <2>3. get_cat_len(update_size(z)) = z + (k + 1) - ((33 * k + (r + 34)) \div 33)
    <3>1. update_size(z) - 1112 = 33 * k + (r + 34) /\ update_size(z) > 1144
      BY <1>3, <2>1, <2>2
    <3> QED
      BY <2>2, <3>1 DEF get_cat_len
  <2>4. (33 * k + (r + 34)) \div 33 = IF r = 32 THEN k + 2 ELSE k + 1
    <3>1. 33 * k + (r + 34) = 33 * (k + 1) + (r + 1)
      OBVIOUS
    <3>2. r = 32 => 33 * k + (r + 34) = 33 * (k + 2) + 0
      OBVIOUS
    <3> QED
      BY <3>1, <3>2, Divided
  <2> QED
    BY <1>3, <2>1, <2>3, <2>4 DEF CountedRight
<1> QED
  BY <1>1, <1>2, <1>3

\* The conversation about directories of one zone and files counted right.
COROLLARY Conversation ==
  ASSUME Odd = {}, \A e \in DirSizes : e <= NUM_OF_DENTRY_SUBS,
         \A z \in FileSizes : CountedRight(z)
  PROVE  Spec => /\ []TypeOK /\ []InStep /\ []OrderlyEnd
                 /\ Complete
<1>1. CountsRight
  BY CatCount, SizesAssumption DEF CountsRight, Sent
<1> QED
  BY <1>1, TypeCorrect, StaysInStep, EndsInOrder, ShowsAll
=============================================================================
