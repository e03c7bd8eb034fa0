----------------------------- MODULE Processes -----------------------------
(***************************************************************************)
(* The programs of the system as processes on one machine: how they start, *)
(* find each other and end.  main, disk_init in src/src/disk_mgr.c;        *)
(* src/src/format.c; main in src/src/server.c and src/src/client.c;        *)
(* alloc_init and alloc_final in src/src/alloc.c; get_client_sock and      *)
(* gen_server_sock in src/src/utils.c.                                     *)
(*                                                                         *)
(* A listener (disk manager or server) binds its port, accepts one         *)
(* connection, serves it to its end and exits.  Its listening socket stays *)
(* open until then, so that others connect, and wait in its queue for an   *)
(* answer that never comes.                                                *)
(*                                                                         *)
(* A definition named X_... just before X is X with a fault the properties *)
(* must notice; nothing else uses it.                                      *)
(***************************************************************************)
EXTENDS Integers, Sequences, FiniteSets

CONSTANTS
  Manager, Server, Client,  \* processes of disk_mgr, server, client
  formatter,    \* the process format forks
  own,          \* the disk manager format starts
  PortOf,       \* the port of each manager and server
  Target,       \* the port each server, client and formatter connects to
  Privileged,   \* file permissions do not apply to the user
  Killable,     \* processes that may be killed
  BACKLOG,      \* connections a listener's queue holds, in the code 5 and one
  GONE,         \* the other end of a connection that has been closed
  NONE

Listener == Manager \cup Server
Owner == Server \cup {formatter}
Process == Listener \cup Client \cup {formatter}

ASSUME ProcessAssumption ==
  /\ own \in Manager /\ Manager \cap Server = {}
  /\ Listener \cap (Client \cup {formatter}) = {} /\ formatter \notin Client
  /\ {GONE, NONE} \cap Process = {} /\ GONE # NONE
  /\ {PortOf[l] : l \in Listener} # {} /\ {Target[p] : p \in Owner \cup Client} # {}
  /\ Privileged \in BOOLEAN
  /\ Killable \subseteq Process
  /\ BACKLOG \in Nat \ {0}

VARIABLES
  pc,      \* where each process is, "off" if there is none
  queue,   \* connections to a listener that it has not accepted
  peer,    \* the one it has accepted, or NONE
  lingers, \* ports the system keeps for a while after their process ended
  made     \* DISK_FILE exists

vars == <<pc, queue, peer, lingers, made>>

\* A listener holds its port until its process ends.
Holds(l) ==
  /\ l \in Listener
  /\ pc[l] \in {"listening", "serving"} \/ (pc[l] = "final" /\ peer[l] # NONE)

PortFree(port) ==
  port \notin lingers /\ ~\E l \in Listener : PortOf[l] = port /\ Holds(l)

Accepted(p) == {l \in Listener : peer[l] = p}
Connected(p) == \E l \in Listener : peer[l] = p \/ \E i \in DOMAIN queue[l] : queue[l][i] = p

Goto(p, place) == pc' = [pc EXCEPT ![p] = place]

\* A process ends: its connections close at the other end, and so do those
\* made to it.  Which end closed first decides whether its port lingers.
Ends(p) ==
  LET closed(q) == IF q = p THEN GONE ELSE q IN
  /\ Goto(p, "off")
  /\ queue' = [l \in Listener |-> IF l = p THEN <<>>
                                  ELSE [i \in DOMAIN queue[l] |-> closed(queue[l][i])]]
  /\ peer' = [l \in Listener |-> IF l = p THEN NONE ELSE closed(peer[l])]
  /\ lingers' \in {lingers} \cup (IF Holds(p) /\ peer[p] # NONE
                                  THEN {lingers \cup {PortOf[p]}} ELSE {})
  /\ UNCHANGED made

-----------------------------------------------------------------------------
Init ==
  /\ pc = [p \in Process |-> "off"]
  /\ queue = [l \in Listener |-> <<>>]
  /\ peer = [l \in Listener |-> NONE]
  /\ lingers = {}
  /\ made = FALSE

\* The user starts a program.
start(p) ==
  /\ pc[p] = "off" /\ p \notin {formatter, own}
  /\ Goto(p, IF p \in Manager THEN "opening" ELSE "connecting")
  /\ UNCHANGED <<queue, peer, lingers, made>>

\* format: fork; the parent is busy with its disk manager until that ends.
start_format ==
  /\ pc[formatter] = "off" /\ pc[own] = "off"
  /\ pc' = [pc EXCEPT ![formatter] = "sleeping", ![own] = "opening"]
  /\ UNCHANGED <<queue, peer, lingers, made>>

\* The child has slept its 2 ms, and does not look whether the manager listens.
wake ==
  /\ pc[formatter] = "sleeping"
  /\ Goto(formatter, "connecting")
  /\ UNCHANGED <<queue, peer, lingers, made>>

\* disk_init makes the file with no permissions, which the next start meets.
disk_init(m) ==
  /\ pc[m] = "opening"
  /\ made' = TRUE
  /\ Goto(m, IF made /\ ~Privileged THEN "off" ELSE "binding")
  /\ UNCHANGED <<queue, peer, lingers>>

gen_server_sock_anyway(l) ==
  /\ pc[l] = "binding"
  /\ Goto(l, "listening")
  /\ UNCHANGED <<queue, peer, lingers, made>>

\* bind, listen.  A disk manager that cannot bind exits, a server ends in order.
gen_server_sock(l) ==
  /\ pc[l] = "binding"
  /\ Goto(l, IF PortFree(PortOf[l]) THEN "listening" ELSE IF l \in Manager THEN "off" ELSE "final")
  /\ UNCHANGED <<queue, peer, lingers, made>>

accept(l) ==
  /\ pc[l] = "listening" /\ queue[l] # <<>>
  /\ Goto(l, "serving")
  /\ peer' = [peer EXCEPT ![l] = Head(queue[l])]
  /\ queue' = [queue EXCEPT ![l] = Tail(@)]
  /\ UNCHANGED <<lingers, made>>

get_client_sock_unlimited(p) ==
  /\ pc[p] = "connecting"
  /\ \E l \in Listener :
       /\ PortOf[l] = Target[p] /\ Holds(l)
       /\ queue' = [queue EXCEPT ![l] = Append(@, p)]
       /\ Goto(p, IF p \in Client THEN "talking" ELSE "loading")
  /\ UNCHANGED <<peer, lingers, made>>

\* connect succeeds if anything listens on the port, and waits while its queue
\* is full; if nothing listens the program exits.
get_client_sock(p) ==
  /\ pc[p] = "connecting"
  /\ \/ \E l \in Listener :
          /\ PortOf[l] = Target[p] /\ Holds(l) /\ Len(queue[l]) < BACKLOG
          /\ queue' = [queue EXCEPT ![l] = Append(@, p)]
          /\ Goto(p, IF p \in Client THEN "talking" ELSE "loading")
     \/ /\ ~\E l \in Listener : PortOf[l] = Target[p] /\ Holds(l)
        /\ Goto(p, "off")
        /\ UNCHANGED queue
  /\ UNCHANGED <<peer, lingers, made>>

\* alloc_init gets the bitmap once the manager has accepted the connection.
alloc_init(p) ==
  /\ pc[p] = "loading" /\ Accepted(p) # {}
  /\ Goto(p, IF p = formatter THEN "formatting" ELSE "binding")
  /\ UNCHANGED <<queue, peer, lingers, made>>

format ==
  /\ pc[formatter] = "formatting" /\ Connected(formatter)
  /\ Goto(formatter, "final")
  /\ UNCHANGED <<queue, peer, lingers, made>>

interpret_stays(s) ==
  /\ pc[s] = "serving" /\ peer[s] # GONE
  /\ Goto(s, "final") /\ peer' = [peer EXCEPT ![s] = GONE]
  /\ UNCHANGED <<queue, lingers, made>>

\* The server's shell is gone: it ends in order, or crashes if it was in the
\* middle of an exchange.  A command too long ends the session as well.
interpret(s) ==
  /\ pc[s] = "serving"
  /\ \/ Goto(s, "final") /\ peer' = [peer EXCEPT ![s] = GONE] /\ UNCHANGED <<queue, lingers, made>>
     \/ peer[s] = GONE /\ Ends(s)

alloc_final(p) ==
  /\ pc[p] = "final" /\ Connected(p)
  /\ Ends(p)

serv_loop_again(m) ==
  /\ pc[m] = "serving" /\ peer[m] = GONE
  /\ Goto(m, "listening") /\ peer' = [peer EXCEPT ![m] = NONE]
  /\ UNCHANGED <<queue, lingers, made>>

\* serv_loop ends when its owner is gone.
serv_loop(m) ==
  /\ pc[m] = "serving" /\ peer[m] = GONE
  /\ Ends(m)

\* A program that waits for the other end, or turns to it, finds it gone.
lost(p) ==
  /\ pc[p] \in {"loading", "formatting", "final", "talking"}
       \/ (p \in Server /\ pc[p] = "serving")
  /\ ~Connected(p)
  /\ Ends(p)

\* The user types exit, or kills the shell.
leave(c) == pc[c] = "talking" /\ Ends(c)

killed(p) == p \in Killable /\ pc[p] # "off" /\ Ends(p)

port_is_free_again ==
  \E port \in lingers :
    /\ lingers' = lingers \ {port}
    /\ UNCHANGED <<pc, queue, peer, made>>

-----------------------------------------------------------------------------
Gone(s) == peer[s] = GONE /\ interpret(s)

\* What a process does by itself; a user need not start or leave anything, nor
\* type a command that ends the session.
Runs(p) ==
  \/ p \in Manager /\ (disk_init(p) \/ serv_loop(p))
  \/ p \in Listener /\ (gen_server_sock(p) \/ accept(p))
  \/ p \in Owner \cup Client /\ get_client_sock(p)
  \/ p \in Owner /\ (alloc_init(p) \/ alloc_final(p))
  \/ p \in Server /\ Gone(p)
  \/ p = formatter /\ (wake \/ format)
  \/ lost(p)

Next ==
  \/ \E p \in Process : start(p) \/ killed(p) \/ Runs(p)
  \/ start_format
  \/ \E s \in Server : interpret(s)
  \/ \E c \in Client : leave(c)
  \/ port_is_free_again

Spec == Init /\ [][Next]_vars /\ \A p \in Process : WF_vars(Runs(p))

-----------------------------------------------------------------------------
TypeOK ==
  /\ pc \in [Process -> {"off", "opening", "binding", "listening", "serving", "sleeping",
                         "connecting", "loading", "formatting", "final", "talking"}]
  /\ \A l \in Listener :
       /\ Len(queue[l]) <= BACKLOG /\ (queue[l] # <<>> => Holds(l))
       /\ \A i \in DOMAIN queue[l] : queue[l][i] \in Owner \cup Client \cup {GONE}
  /\ peer \in [Listener -> Owner \cup Client \cup {GONE, NONE}]
  /\ lingers \subseteq {PortOf[l] : l \in Listener}
  /\ made \in BOOLEAN

\* A server has the bitmap in memory from alloc_init to alloc_final and writes
\* zones and bitmap as if nobody else did: no two processes, server or format,
\* may be in that stretch on the same disk file at a time.
HasDisk(p) == p \in Owner /\ pc[p] \notin {"off", "sleeping", "connecting", "loading"}
                          /\ Connected(p)
OneOwner == Cardinality({p \in Owner : HasDisk(p)}) <= 1

\* A session that has lost its shell ends, and its disk manager after it, so
\* that the programs can be started again.
SessionEnds ==
  \A m \in Manager, s \in Server :
    peer[m] = s /\ pc[s] = "serving" /\ peer[s] = GONE ~> peer[m] # s /\ pc[m] = "off"

\* The child of format ends, whether its disk manager is there in time or not,
\* unless a server has a connection on the port, and maybe is served for ever;
\* and when the child has got to the manager, that ends as well, and so format.
Session == \E s \in Server : Target[s] = Target[formatter] /\ Connected(s)
GotThrough == peer[own] = formatter \/ \E i \in DOMAIN queue[own] : queue[own][i] = formatter
FormatEnds ==
  /\ pc[formatter] = "sleeping" ~> pc[formatter] = "off" \/ Session
  /\ GotThrough ~> (pc[formatter] = "off" /\ pc[own] = "off") \/ Session
=============================================================================
