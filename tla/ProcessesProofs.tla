-------------------------- MODULE ProcessesProofs --------------------------
(***************************************************************************)
(* What TLAPS proves of Processes, for any number of disk managers,        *)
(* servers and clients and any length of queue: of all the programs that   *)
(* look for their disk on one port, one at a time has it.                  *)
(***************************************************************************)
EXTENDS Processes, TLAPS, SequenceTheorems, FiniteSetTheorems

-----------------------------------------------------------------------------
\* The hypothesis: servers and format look for the disk on one port.  Managers
\* on other ports are left alone; two servers told different ports work on one
\* disk file without a word (README).
OneTarget == \A p, q \in Owner : Target[p] = Target[q]

Caller == Owner \cup Client
Place == {"off", "opening", "binding", "listening", "serving", "sleeping",
          "connecting", "loading", "formatting", "final", "talking"}

\* The types.
ValuesOK ==
  /\ pc \in [Process -> Place]
  /\ queue \in [Listener -> Seq(Caller \cup {GONE})]
  /\ peer \in [Listener -> Caller \cup {GONE, NONE}]
  /\ lingers \subseteq {PortOf[l] : l \in Listener}
  /\ made \in BOOLEAN

\* A queue is a listener's, and has its length.
QueuesHeld == \A l \in Listener : Len(queue[l]) <= BACKLOG /\ (queue[l] # <<>> => Holds(l))

\* A port is held once.
OneHolder == \A k, l \in Listener : Holds(k) /\ Holds(l) /\ PortOf[k] = PortOf[l] => k = l

\* A connection is accepted by a process that serves it, until its end.
Served ==
  \A l \in Listener : /\ pc[l] = "serving" => peer[l] # NONE
                      /\ pc[l] \notin {"serving", "final"} => peer[l] = NONE

\* A process waits at the port it looked for, in one place, and for one answer.
Waiting ==
  \A l \in Listener : \A i \in DOMAIN queue[l] : queue[l][i] \in Caller =>
    LET p == queue[l][i] IN
    /\ pc[p] = IF p \in Client THEN "talking" ELSE "loading"
    /\ PortOf[l] = Target[p]
    /\ \A k \in Listener : /\ peer[k] # p
                           /\ \A j \in DOMAIN queue[k] : queue[k][j] = p => k = l /\ j = i

\* A process is served at the port it looked for, and has waited.
Answering ==
  \A l \in Listener : peer[l] \in Caller =>
    /\ pc[peer[l]] \notin {"off", "opening", "sleeping", "connecting"}
    /\ PortOf[l] = Target[peer[l]]

IInv == ValuesOK /\ QueuesHeld /\ OneHolder /\ Served /\ Waiting /\ Answering

InQueue(p) == \E l \in Listener : \E i \in DOMAIN queue[l] : queue[l][i] = p

-----------------------------------------------------------------------------
\* No process has two roles, and no process stands for none.
LEMMA Roles ==
  /\ Listener \subseteq Process /\ Caller \subseteq Process
  /\ Process = Manager \cup Caller
  /\ Manager \cap Caller = {} /\ Manager \subseteq Listener /\ own \in Manager
  /\ Owner \subseteq Caller /\ Client \subseteq Caller /\ Owner \cap Client = {}
  /\ formatter \in Owner /\ formatter \notin Listener
  /\ Listener \cap Owner = Server /\ Listener \cap Client = {}
  /\ GONE \notin Process /\ NONE \notin Process /\ GONE # NONE
  /\ GONE \notin Caller /\ NONE \notin Caller
BY ProcessAssumption DEF Listener, Caller, Process, Owner

\* A process just started has no port.
LEMMA InitIInv == Init => IInv
<1> SUFFICES ASSUME Init PROVE IInv
  OBVIOUS
<1>1. \A l \in Listener : queue[l] = <<>> /\ peer[l] = NONE /\ pc[l] = "off"
  BY Roles DEF Init
<1>2. ValuesOK
  <2>1. <<>> \in Seq(Caller \cup {GONE})
    BY EmptySeq
  <2> QED
    BY <2>1 DEF Init, ValuesOK, Place
<1>3. QueuesHeld
  BY <1>1, ProcessAssumption DEF QueuesHeld
<1>4. OneHolder /\ Served
  BY <1>1 DEF OneHolder, Served, Holds
<1>5. Waiting
  BY <1>1 DEF Waiting
<1>6. Answering
  BY <1>1, Roles DEF Answering
<1> QED
  BY <1>2, <1>3, <1>4, <1>5, <1>6 DEF IInv

\* A process that holds no port goes on, and holds none: nothing changes for
\* those that wait or are served.
LEMMA GoesOn ==
  ASSUME IInv, NEW p \in Process, NEW place \in Place, Goto(p, place),
         pc[p] \notin {"listening", "serving", "final"}, place \notin {"listening", "serving"},
         ~InQueue(p),
         place \in {"off", "opening", "sleeping", "connecting"} => Accepted(p) = {},
         queue' = queue, peer' = peer, lingers' = lingers, made' \in BOOLEAN
  PROVE  IInv'
<1>1. \A q \in Process : pc'[q] = IF q = p THEN place ELSE pc[q]
  BY DEF Goto, IInv, ValuesOK
<1>2. ValuesOK'
  BY DEF Goto, IInv, ValuesOK
<1>3. \A l \in Listener : Holds(l)' <=> Holds(l)
  <2> SUFFICES ASSUME NEW l \in Listener PROVE Holds(l)' <=> Holds(l)
    OBVIOUS
  <2>1. CASE l = p
    BY <1>1, <2>1, Roles DEF Holds, IInv, Served
  <2>2. CASE l # p
    BY <1>1, <2>2, Roles DEF Holds
  <2> QED
    BY <2>1, <2>2
<1>4. QueuesHeld' /\ OneHolder'
  BY <1>3 DEF IInv, QueuesHeld, OneHolder
<1>5. Served'
  BY <1>1, Roles DEF IInv, Served
<1>6. Waiting'
  BY <1>1, Roles DEF IInv, Waiting, InQueue
<1>7. Answering'
  BY <1>1, Roles DEF IInv, Answering, Accepted
<1> QED
  BY <1>2, <1>4, <1>5, <1>6, <1>7 DEF IInv

\* Who waits has not been answered, and who waits or is served has connected.
LEMMA Calls ==
  ASSUME IInv, NEW p \in Process
  PROVE  /\ InQueue(p) => pc[p] = (IF p \in Client THEN "talking" ELSE "loading") /\ p \in Caller
         /\ InQueue(p) => Accepted(p) = {}
         /\ Accepted(p) # {} => pc[p] \notin {"off", "opening", "sleeping", "connecting"} /\ p \in Caller
<1>1. ASSUME InQueue(p)
      PROVE  /\ pc[p] = (IF p \in Client THEN "talking" ELSE "loading") /\ p \in Caller
             /\ Accepted(p) = {}
  <2>1. PICK l \in Listener : \E i \in DOMAIN queue[l] : queue[l][i] = p
    BY <1>1 DEF InQueue
  <2>2. p \in Caller
    <3>1. queue[l] \in Seq(Caller \cup {GONE})
      BY DEF IInv, ValuesOK
    <3>2. p \in Caller \cup {GONE}
      BY <2>1, <3>1, ElementOfSeq, LenProperties
    <3> QED
      BY <3>2, Roles
  <2> QED
    BY <2>1, <2>2 DEF IInv, Waiting, Accepted
<1>2. ASSUME Accepted(p) # {}
      PROVE  pc[p] \notin {"off", "opening", "sleeping", "connecting"} /\ p \in Caller
  <2>1. PICK l \in Listener : peer[l] = p
    BY <1>2 DEF Accepted
  <2>2. p \in Caller
    BY <2>1, Roles DEF IInv, ValuesOK
  <2> QED
    BY <2>1, <2>2 DEF IInv, Answering
<1> QED
  BY <1>1, <1>2

\* The steps that only bring a process on.
LEMMA StartStep ==
  ASSUME IInv, NEW p \in Process, start(p)
  PROVE  IInv'
<1> DEFINE place == IF p \in Manager THEN "opening" ELSE "connecting"
<1>1. place \in Place /\ place \notin {"listening", "serving"}
  BY DEF Place
<1> HIDE DEF place
<1>2. Goto(p, place) /\ pc[p] = "off" /\ queue' = queue /\ peer' = peer /\ lingers' = lingers
  BY DEF start, place
<1>3. made' \in BOOLEAN
  BY DEF start, IInv, ValuesOK
<1>4. ~InQueue(p) /\ Accepted(p) = {}
  BY <1>2, Calls
<1> QED
  BY <1>1, <1>2, <1>3, <1>4, GoesOn

\* format starts two processes at once.
LEMMA StartFormatStep ==
  ASSUME IInv, start_format
  PROVE  IInv'
<1>1. formatter \in Process /\ own \in Process /\ own # formatter /\ own \notin Caller
  BY Roles
<1>2. /\ \A q \in Process : pc'[q] = IF q = own THEN "opening"
                                     ELSE IF q = formatter THEN "sleeping" ELSE pc[q]
      /\ pc[own] = "off" /\ pc[formatter] = "off"
      /\ queue' = queue /\ peer' = peer
  BY <1>1 DEF start_format, IInv, ValuesOK
<1>3. ~InQueue(formatter) /\ Accepted(formatter) = {}
  BY <1>1, <1>2, Calls
<1>4. ValuesOK'
  BY DEF start_format, IInv, ValuesOK, Place
<1>5. \A l \in Listener : Holds(l)' <=> Holds(l)
  BY <1>2, Roles DEF Holds
<1>6. QueuesHeld' /\ OneHolder'
  BY <1>2, <1>5 DEF IInv, QueuesHeld, OneHolder
<1>7. Served'
  BY <1>2, Roles DEF IInv, Served
<1>8. Waiting'
  BY <1>1, <1>2, <1>3, Roles DEF IInv, Waiting, InQueue
<1>9. Answering'
  BY <1>1, <1>2, <1>3, Roles DEF IInv, Answering, Accepted
<1> QED
  BY <1>4, <1>6, <1>7, <1>8, <1>9 DEF IInv

\* The child of format goes on.
LEMMA WakeStep ==
  ASSUME IInv, wake
  PROVE  IInv'
<1>1. formatter \in Process /\ "connecting" \in Place
  BY Roles DEF Place
<1>2. /\ Goto(formatter, "connecting") /\ pc[formatter] = "sleeping"
      /\ queue' = queue /\ peer' = peer /\ lingers' = lingers /\ made' \in BOOLEAN
  BY DEF wake, IInv, ValuesOK
<1>3. ~InQueue(formatter) /\ Accepted(formatter) = {}
  BY <1>1, <1>2, Calls
<1> QED
  BY <1>1, <1>2, <1>3, GoesOn

\* A disk manager opens the file, or fails to.
LEMMA DiskInitStep ==
  ASSUME IInv, NEW m \in Manager, disk_init(m)
  PROVE  IInv'
<1> DEFINE place == IF made /\ ~Privileged THEN "off" ELSE "binding"
<1>1. m \in Process /\ place \in Place /\ place \notin {"listening", "serving"}
  BY Roles DEF Place
<1> HIDE DEF place
<1>2. /\ Goto(m, place) /\ pc[m] = "opening"
      /\ queue' = queue /\ peer' = peer /\ lingers' = lingers /\ made' \in BOOLEAN
  BY DEF disk_init, place
<1>3. ~InQueue(m) /\ Accepted(m) = {}
  BY <1>1, <1>2, Calls
<1> QED
  BY <1>1, <1>2, <1>3, GoesOn

\* A port is bound only while nobody holds it.
LEMMA GenServerSockStep ==
  ASSUME IInv, NEW l \in Listener, gen_server_sock(l)
  PROVE  IInv'
<1>1. l \in Process /\ pc[l] = "binding" /\ ~InQueue(l) /\ (l \in Manager => Accepted(l) = {})
  BY Roles, Calls DEF gen_server_sock
<1>2. queue' = queue /\ peer' = peer /\ lingers' = lingers /\ made' \in BOOLEAN
  BY DEF gen_server_sock, IInv, ValuesOK
<1>3. CASE ~PortFree(PortOf[l])
  <2> DEFINE place == IF l \in Manager THEN "off" ELSE "final"
  <2>1. Goto(l, place)
    BY <1>3 DEF gen_server_sock
  <2>2. place \in Place /\ place \notin {"listening", "serving"}
        /\ (place \in {"off", "opening", "sleeping", "connecting"} => Accepted(l) = {})
    BY <1>1 DEF Place
  <2> HIDE DEF place
  <2> QED
    BY <1>1, <1>2, <2>1, <2>2, GoesOn
<1>4. CASE PortFree(PortOf[l])
  <2>1. pc' = [pc EXCEPT ![l] = "listening"]
    BY <1>4 DEF gen_server_sock, Goto
  <2>2. \A q \in Process : pc'[q] = IF q = l THEN "listening" ELSE pc[q]
    BY <2>1 DEF IInv, ValuesOK
  <2>3. ValuesOK'
    BY <1>2, <2>1 DEF IInv, ValuesOK, Place
  <2>4. \A k \in Listener : Holds(k)' <=> (Holds(k) \/ k = l)
    BY <1>2, <2>2, Roles DEF Holds
  <2>5. QueuesHeld'
    BY <1>2, <2>4 DEF IInv, QueuesHeld
  <2>6. OneHolder'
    BY <1>4, <2>4 DEF IInv, OneHolder, PortFree
  <2>7. Served'
    BY <1>1, <1>2, <2>2, Roles DEF IInv, Served
  <2>8. Waiting'
    BY <1>1, <1>2, <2>2, Roles DEF IInv, Waiting, InQueue
  <2>9. Answering'
    BY <1>1, <1>2, <2>2, Roles DEF IInv, Answering
  <2> QED
    BY <2>3, <2>5, <2>6, <2>7, <2>8, <2>9 DEF IInv
<1> QED
  BY <1>3, <1>4

\* The bitmap comes to a process that has been accepted, so waits no more.
LEMMA AllocInitStep ==
  ASSUME IInv, NEW p \in Owner, alloc_init(p)
  PROVE  IInv'
<1> DEFINE place == IF p = formatter THEN "formatting" ELSE "binding"
<1>1. p \in Process /\ place \in Place /\ place \notin {"listening", "serving"}
      /\ place \notin {"off", "opening", "sleeping", "connecting"}
  BY Roles DEF Place
<1> HIDE DEF place
<1>2. /\ Goto(p, place) /\ pc[p] = "loading" /\ Accepted(p) # {}
      /\ queue' = queue /\ peer' = peer /\ lingers' = lingers /\ made' \in BOOLEAN
  BY DEF alloc_init, place, IInv, ValuesOK
<1>3. ~InQueue(p)
  BY <1>1, <1>2, Calls
<1> QED
  BY <1>1, <1>2, <1>3, GoesOn

\* format has the disk formatted.
LEMMA FormatStep ==
  ASSUME IInv, format
  PROVE  IInv'
<1>1. formatter \in Process /\ "final" \in Place
  BY Roles DEF Place
<1>2. /\ Goto(formatter, "final") /\ pc[formatter] = "formatting"
      /\ queue' = queue /\ peer' = peer /\ lingers' = lingers /\ made' \in BOOLEAN
  BY DEF format, IInv, ValuesOK
<1>3. ~InQueue(formatter)
  BY <1>1, <1>2, Calls, Roles
<1> QED
  BY <1>1, <1>2, <1>3, GoesOn

\* The first of those who wait is accepted, and waits no more.
LEMMA AcceptStep ==
  ASSUME IInv, NEW l \in Listener, accept(l)
  PROVE  IInv'
<1> DEFINE s == queue[l]
           q == Head(s)
<1>1. /\ s \in Seq(Caller \cup {GONE}) /\ s # <<>> /\ l \in Process
      /\ q \in Caller \cup {GONE} /\ q = s[1] /\ 1 \in DOMAIN s
      /\ Tail(s) \in Seq(Caller \cup {GONE}) /\ Len(Tail(s)) = Len(s) - 1 /\ Len(s) \in Nat
      /\ \A i \in DOMAIN Tail(s) : i + 1 \in DOMAIN s /\ Tail(s)[i] = s[i + 1] /\ i \in Nat \ {0}
  <2>1. s \in Seq(Caller \cup {GONE}) /\ s # <<>> /\ l \in Process
    BY Roles DEF accept, IInv, ValuesOK
  <2> HIDE DEF s
  <2> QED
    BY <2>1
<1>2. /\ pc[l] = "listening" /\ peer' = [peer EXCEPT ![l] = q]
      /\ queue' = [queue EXCEPT ![l] = Tail(s)] /\ pc' = [pc EXCEPT ![l] = "serving"]
      /\ lingers' = lingers /\ made' = made
  BY DEF accept, Goto
<1>3. /\ \A p \in Process : pc'[p] = IF p = l THEN "serving" ELSE pc[p]
      /\ \A k \in Listener : peer'[k] = IF k = l THEN q ELSE peer[k]
      /\ \A k \in Listener : queue'[k] = IF k = l THEN Tail(s) ELSE queue[k]
  BY <1>1, <1>2 DEF IInv, ValuesOK
<1>4. q # NONE
  BY <1>1, Roles
<1>5. \A k \in Listener : Holds(k)' <=> Holds(k)
  BY <1>2, <1>3, Roles DEF Holds
<1> HIDE DEF q, s
<1>6. ValuesOK'
  BY <1>1, <1>2, <1>4 DEF IInv, ValuesOK, Place
<1>7. QueuesHeld'
  <2>1. Len(s) <= BACKLOG /\ Holds(l)
    BY <1>1 DEF IInv, QueuesHeld, s
  <2>2. Len(Tail(s)) <= BACKLOG
    BY <1>1, <2>1, ProcessAssumption
  <2> QED
    BY <1>3, <1>5, <2>1, <2>2 DEF IInv, QueuesHeld
<1>8. OneHolder'
  BY <1>5 DEF IInv, OneHolder
<1>9. Served'
  BY <1>1, <1>3, <1>4, Roles DEF IInv, Served
<1>10. q \in Caller =>
         /\ pc[q] = IF q \in Client THEN "talking" ELSE "loading"
         /\ PortOf[l] = Target[q]
         /\ \A k \in Listener : /\ peer[k] # q
                                /\ \A j \in DOMAIN queue[k] : queue[k][j] = q => k = l /\ j = 1
  BY <1>1 DEF IInv, Waiting, s
<1>11. Waiting'
  <2> SUFFICES ASSUME NEW k \in Listener, NEW i \in DOMAIN queue'[k], queue'[k][i] \in Caller
               PROVE  LET p == queue'[k][i] IN
                      /\ pc'[p] = IF p \in Client THEN "talking" ELSE "loading"
                      /\ PortOf[k] = Target[p]
                      /\ \A h \in Listener : /\ peer'[h] # p
                                             /\ \A j \in DOMAIN queue'[h] :
                                                  queue'[h][j] = p => h = k /\ j = i
    BY DEF Waiting
  <2> DEFINE p == queue'[k][i]
             Before(h, j) == IF h = l THEN j + 1 ELSE j
  <2>1. \A h \in Listener : \A j \in DOMAIN queue'[h] :
          Before(h, j) \in DOMAIN queue[h] /\ queue'[h][j] = queue[h][Before(h, j)]
    BY <1>1, <1>3 DEF s
  <2>2. /\ pc[p] = IF p \in Client THEN "talking" ELSE "loading"
        /\ PortOf[k] = Target[p]
        /\ \A h \in Listener : /\ peer[h] # p
                               /\ \A j \in DOMAIN queue[h] :
                                    queue[h][j] = p => h = k /\ j = Before(k, i)
    BY <2>1 DEF IInv, Waiting
  <2>3. p # l
    BY <1>2, <2>2
  <2>4. p # q
    <3>1. p = q => k = l /\ Before(k, i) = 1
      BY <1>10, <2>1
    <3>2. k = l => i \in Nat \ {0}
      BY <1>1, <1>3
    <3> QED
      BY <3>1, <3>2
  <2>5. \A h \in Listener : \A j \in DOMAIN queue'[h] : queue'[h][j] = p => h = k /\ j = i
    <3> SUFFICES ASSUME NEW h \in Listener, NEW j \in DOMAIN queue'[h], queue'[h][j] = p
                 PROVE  h = k /\ j = i
      OBVIOUS
    <3>1. h = k /\ Before(h, j) = Before(k, i)
      BY <2>1, <2>2
    <3>2. k = l => i \in Nat /\ j \in Nat
      BY <1>1, <1>3, <3>1
    <3> QED
      BY <3>1, <3>2
  <2> QED
    BY <1>3, <2>2, <2>3, <2>4, <2>5, Roles
<1>12. Answering'
  BY <1>1, <1>2, <1>3, <1>10, Roles DEF IInv, Answering
<1> QED
  BY <1>6, <1>7, <1>8, <1>9, <1>11, <1>12 DEF IInv

\* A caller gets to the end of the queue of the one that holds the port, or
\* finds none.
LEMMA GetClientSockStep ==
  ASSUME IInv, NEW p \in Caller, get_client_sock(p)
  PROVE  IInv'
<1>1. /\ pc[p] = "connecting" /\ p \in Process /\ p # GONE
      /\ peer' = peer /\ lingers' = lingers /\ made' = made /\ made' \in BOOLEAN
      /\ ~InQueue(p) /\ Accepted(p) = {}
  BY Calls, Roles DEF get_client_sock, IInv, ValuesOK
<1>2. CASE Goto(p, "off") /\ queue' = queue
  <2>1. "off" \in Place
    BY DEF Place
  <2> QED
    BY <1>1, <1>2, <2>1, GoesOn
<1>3. ASSUME NEW l \in Listener, PortOf[l] = Target[p], Holds(l), Len(queue[l]) < BACKLOG,
             queue' = [queue EXCEPT ![l] = Append(queue[l], p)],
             Goto(p, IF p \in Client THEN "talking" ELSE "loading")
      PROVE  IInv'
  <2> DEFINE s == queue[l]
             place == IF p \in Client THEN "talking" ELSE "loading"
             Old(h, j) == h # l \/ j # Len(s) + 1
  <2>1. /\ s \in Seq(Caller \cup {GONE}) /\ Len(s) \in Nat
        /\ Append(s, p) \in Seq(Caller \cup {GONE}) /\ Len(Append(s, p)) = Len(s) + 1
        /\ \A i \in DOMAIN Append(s, p) :
             \/ i \in DOMAIN s /\ Append(s, p)[i] = s[i] /\ i # Len(s) + 1
             \/ i = Len(s) + 1 /\ Append(s, p)[i] = p
    <3>1. s \in Seq(Caller \cup {GONE})
      BY DEF IInv, ValuesOK
    <3> HIDE DEF s
    <3> QED
      BY <3>1
  <2>2. /\ \A q \in Process : pc'[q] = IF q = p THEN place ELSE pc[q]
        /\ \A k \in Listener : queue'[k] = IF k = l THEN Append(s, p) ELSE queue[k]
    BY <1>3 DEF Goto, IInv, ValuesOK
  <2>3. \A k \in Listener : Holds(k)' <=> Holds(k)
    BY <1>1, <2>2, Roles DEF Holds
  <2>4. ValuesOK'
    BY <1>1, <1>3, <2>1 DEF Goto, IInv, ValuesOK, Place
  <2>5. QueuesHeld'
    <3>1. Len(Append(s, p)) <= BACKLOG
      BY <1>3, <2>1, ProcessAssumption
    <3> QED
      BY <1>3, <2>2, <2>3, <3>1 DEF IInv, QueuesHeld
  <2>6. OneHolder'
    BY <2>3 DEF IInv, OneHolder
  <2>7. Served'
    BY <1>1, <2>2, Roles DEF IInv, Served
  <2>8. Waiting'
    <3> SUFFICES ASSUME NEW k \in Listener, NEW i \in DOMAIN queue'[k], queue'[k][i] \in Caller
                 PROVE  LET q == queue'[k][i] IN
                        /\ pc'[q] = IF q \in Client THEN "talking" ELSE "loading"
                        /\ PortOf[k] = Target[q]
                        /\ \A h \in Listener : /\ peer'[h] # q
                                               /\ \A j \in DOMAIN queue'[h] :
                                                    queue'[h][j] = q => h = k /\ j = i
      BY DEF Waiting
    <3>1. \A h \in Listener : \A j \in DOMAIN queue'[h] :
            IF Old(h, j) THEN j \in DOMAIN queue[h] /\ queue'[h][j] = queue[h][j]
                         ELSE queue'[h][j] = p
      BY <2>1, <2>2
    <3> HIDE DEF Old
    <3>2. \A h \in Listener : \A j \in DOMAIN queue'[h] : Old(h, j) => queue'[h][j] # p
      BY <1>1, <3>1 DEF InQueue
    <3>3. CASE Old(k, i)
      BY <1>1, <2>2, <3>1, <3>2, <3>3, Roles DEF IInv, Waiting
    <3>4. CASE ~Old(k, i)
      <4>1. queue'[k][i] = p /\ k = l /\ i = Len(s) + 1
        BY <3>1, <3>4 DEF Old
      <4>2. \A h \in Listener : \A j \in DOMAIN queue'[h] : queue'[h][j] = p => h = k /\ j = i
        BY <3>2, <4>1 DEF Old
      <4> QED
        BY <1>1, <1>3, <2>2, <4>1, <4>2 DEF Accepted
    <3> QED
      BY <3>3, <3>4
  <2>9. Answering'
    BY <1>1, <2>2, Roles DEF IInv, Answering, Accepted
  <2> QED
    BY <2>4, <2>5, <2>6, <2>7, <2>8, <2>9 DEF IInv
<1> QED
  BY <1>2, <1>3 DEF get_client_sock

\* A process ends, and takes what it had with it: its port, its place in a
\* queue, the connection it was served on.
LEMMA EndsStep ==
  ASSUME IInv, NEW p \in Process, Ends(p)
  PROVE  IInv'
<1> DEFINE closed(q) == IF q = p THEN GONE ELSE q
           rest(l) == [i \in DOMAIN queue[l] |-> closed(queue[l][i])]
<1>1. /\ pc' = [pc EXCEPT ![p] = "off"] /\ made' = made
      /\ queue' = [l \in Listener |-> IF l = p THEN <<>> ELSE rest(l)]
      /\ peer' = [l \in Listener |-> IF l = p THEN NONE ELSE closed(peer[l])]
      /\ lingers' \in {lingers} \cup (IF Holds(p) /\ peer[p] # NONE
                                      THEN {lingers \cup {PortOf[p]}} ELSE {})
  BY DEF Ends, Goto
<1>2. \A q \in Process : pc'[q] = IF q = p THEN "off" ELSE pc[q]
  BY <1>1 DEF IInv, ValuesOK
<1>3. ASSUME NEW l \in Listener
      PROVE  /\ rest(l) \in Seq(Caller \cup {GONE}) /\ Len(rest(l)) = Len(queue[l])
             /\ DOMAIN rest(l) = DOMAIN queue[l]
             /\ rest(l) # <<>> => queue[l] # <<>>
  <2> DEFINE s == queue[l]
             t == rest(l)
  <2>1. s \in Seq(Caller \cup {GONE})
    BY DEF IInv, ValuesOK
  <2>2. Len(s) \in Nat /\ DOMAIN s = 1 .. Len(s) /\ \A i \in 1 .. Len(s) : s[i] \in Caller \cup {GONE}
    BY <2>1
  <2>3. t \in [1 .. Len(s) -> Caller \cup {GONE}]
    BY <2>2
  <2> HIDE DEF s, t
  <2>4. t \in Seq(Caller \cup {GONE})
    BY <2>2, <2>3, SeqDef
  <2>5. 1 .. Len(t) = 1 .. Len(s) /\ Len(t) \in Nat
    BY <2>3, <2>4, LenProperties
  <2>6. Len(t) = Len(s)
    BY <2>2, <2>5
  <2>7. t # <<>> => s # <<>>
    BY <2>1, <2>4, <2>6, EmptySeq
  <2> QED
    BY <2>2, <2>3, <2>4, <2>6, <2>7 DEF s, t
<1> HIDE DEF rest
<1>4. \A l \in Listener : \A i \in DOMAIN queue'[l] :
        /\ l # p /\ i \in DOMAIN queue[l]
        /\ queue'[l][i] = closed(queue[l][i])
  BY <1>1, <1>3 DEF rest
<1>5. \A l \in Listener : peer'[l] = IF l = p THEN NONE ELSE closed(peer[l])
  BY <1>1
<1>6. p # GONE /\ p # NONE
  BY Roles
<1>7. \A l \in Listener : Holds(l)' <=> Holds(l) /\ l # p
  BY <1>2, <1>5, <1>6, Roles DEF Holds
<1>8. ValuesOK'
  <2>1. lingers' \subseteq {PortOf[l] : l \in Listener}
    BY <1>1 DEF IInv, ValuesOK, Holds
  <2>2. queue' \in [Listener -> Seq(Caller \cup {GONE})]
    BY <1>1, <1>3, EmptySeq
  <2>3. peer' \in [Listener -> Caller \cup {GONE, NONE}]
    BY <1>1 DEF IInv, ValuesOK
  <2> QED
    BY <1>1, <2>1, <2>2, <2>3 DEF IInv, ValuesOK, Place
<1>9. QueuesHeld'
  <2>1. Len(<<>>) = 0 /\ 0 <= BACKLOG
    BY ProcessAssumption
  <2> QED
    BY <1>1, <1>3, <1>7, <2>1 DEF IInv, QueuesHeld
<1>10. OneHolder'
  BY <1>7 DEF IInv, OneHolder
<1>11. Served'
  BY <1>2, <1>5, <1>6, Roles DEF IInv, Served
<1>12. Waiting'
  <2> SUFFICES ASSUME NEW l \in Listener, NEW i \in DOMAIN queue'[l], queue'[l][i] \in Caller
               PROVE  LET q == queue'[l][i] IN
                      /\ pc'[q] = IF q \in Client THEN "talking" ELSE "loading"
                      /\ PortOf[l] = Target[q]
                      /\ \A k \in Listener : /\ peer'[k] # q
                                             /\ \A j \in DOMAIN queue'[k] :
                                                  queue'[k][j] = q => k = l /\ j = i
    BY DEF Waiting
  <2> DEFINE q == queue'[l][i]
  <2>1. q = queue[l][i] /\ i \in DOMAIN queue[l] /\ q # p /\ q # NONE /\ q # GONE /\ q \in Process
    BY <1>4, Roles
  <2>2. /\ pc[q] = IF q \in Client THEN "talking" ELSE "loading"
        /\ PortOf[l] = Target[q]
        /\ \A k \in Listener : /\ peer[k] # q
                               /\ \A j \in DOMAIN queue[k] : queue[k][j] = q => k = l /\ j = i
    BY <2>1 DEF IInv, Waiting
  <2>3. \A k \in Listener : \A j \in DOMAIN queue'[k] : queue'[k][j] = q => k = l /\ j = i
    BY <1>4, <2>1, <2>2
  <2>4. \A k \in Listener : peer'[k] # q
    BY <1>5, <2>1, <2>2
  <2> QED
    BY <1>2, <2>1, <2>2, <2>3, <2>4
<1>13. Answering'
  BY <1>2, <1>5, <1>6, Roles DEF IInv, Answering
<1> QED
  BY <1>8, <1>9, <1>10, <1>11, <1>12, <1>13 DEF IInv

\* A server ends its session, or crashes in the middle of an exchange.
LEMMA InterpretStep ==
  ASSUME IInv, NEW s \in Server, interpret(s)
  PROVE  IInv'
<1>1. s \in Listener /\ s \in Process /\ pc[s] = "serving"
  BY Roles DEF interpret, Listener
<1>2. CASE Ends(s)
  BY <1>1, <1>2, EndsStep
<1>3. CASE /\ Goto(s, "final") /\ peer' = [peer EXCEPT ![s] = GONE]
           /\ UNCHANGED <<queue, lingers, made>>
  <2>1. /\ \A q \in Process : pc'[q] = IF q = s THEN "final" ELSE pc[q]
        /\ \A l \in Listener : peer'[l] = IF l = s THEN GONE ELSE peer[l]
        /\ queue' = queue /\ lingers' = lingers /\ made' = made
    BY <1>3 DEF Goto, IInv, ValuesOK
  <2>2. \A l \in Listener : Holds(l)' <=> Holds(l)
    BY <1>1, <2>1, Roles DEF Holds
  <2>3. ValuesOK'
    BY <1>1, <1>3 DEF Goto, IInv, ValuesOK, Place
  <2>4. QueuesHeld' /\ OneHolder'
    BY <2>1, <2>2 DEF IInv, QueuesHeld, OneHolder
  <2>5. Served'
    BY <2>1, Roles DEF IInv, Served
  <2>6. Waiting'
    BY <1>1, <2>1, Roles DEF IInv, Waiting
  <2>7. Answering'
    BY <1>1, <2>1, Roles DEF IInv, Answering
  <2> QED
    BY <2>3, <2>4, <2>5, <2>6, <2>7 DEF IInv
<1> QED
  BY <1>2, <1>3 DEF interpret

\* Every step of a process by itself.
LEMMA RunsStep ==
  ASSUME IInv, NEW p \in Process, Runs(p)
  PROVE  IInv'
<1>1. CASE \/ p \in Manager /\ serv_loop(p)
           \/ p \in Owner /\ alloc_final(p)
           \/ lost(p)
  BY <1>1, EndsStep DEF serv_loop, alloc_final, lost
<1>2. CASE p \in Server /\ Gone(p)
  BY <1>2, InterpretStep DEF Gone
<1>3. CASE \/ p \in Manager /\ disk_init(p)
           \/ p \in Listener /\ (gen_server_sock(p) \/ accept(p))
  BY <1>3, DiskInitStep, GenServerSockStep, AcceptStep
<1>4. CASE \/ p \in Caller /\ get_client_sock(p)
           \/ p \in Owner /\ alloc_init(p)
           \/ p = formatter /\ (wake \/ format)
  BY <1>4, GetClientSockStep, AllocInitStep, WakeStep, FormatStep
<1> QED
  BY <1>1, <1>2, <1>3, <1>4 DEF Runs, Caller

\* Every step of the system keeps ports and connections in order.
LEMMA NextIInv == IInv /\ [Next]_vars => IInv'
<1> SUFFICES ASSUME IInv, [Next]_vars PROVE IInv'
  OBVIOUS
<1>1. CASE \E p \in Process : start(p) \/ Runs(p)
  BY <1>1, StartStep, RunsStep
<1>2. CASE (\E p \in Process : killed(p)) \/ (\E c \in Client : leave(c))
  BY <1>2, EndsStep, Roles DEF killed, leave
<1>3. CASE start_format \/ \E s \in Server : interpret(s)
  BY <1>3, StartFormatStep, InterpretStep
<1>4. CASE port_is_free_again \/ UNCHANGED vars
  <2>1. /\ pc' = pc /\ queue' = queue /\ peer' = peer /\ made' = made
        /\ lingers' \subseteq {PortOf[l] : l \in Listener}
    BY <1>4 DEF port_is_free_again, vars, IInv, ValuesOK
  <2>2. ValuesOK'
    BY <2>1 DEF IInv, ValuesOK
  <2>3. \A l \in Listener : Holds(l)' <=> Holds(l)
    BY <2>1 DEF Holds
  <2> QED
    BY <2>1, <2>2, <2>3 DEF IInv, QueuesHeld, OneHolder, Served, Waiting, Answering
<1> QED
  BY <1>1, <1>2, <1>3, <1>4 DEF Next

\* Ports, queues and connections are in order all along.
THEOREM Invariant == Spec => []IInv
<1>1. Init => IInv
  BY InitIInv
<1> QED
  BY <1>1, NextIInv, PTL DEF Spec

\* The types, and a queue never holds more than listen allows, nor anybody once
\* its listener has ended: the listening socket of main (disk_mgr.c, server.c).
THEOREM TypeCorrect == Spec => []TypeOK
<1>1. IInv => TypeOK
  <2> SUFFICES ASSUME IInv PROVE TypeOK
    OBVIOUS
  <2>1. \A l \in Listener : \A i \in DOMAIN queue[l] : queue[l][i] \in Caller \cup {GONE}
    BY ElementOfSeq, LenProperties DEF IInv, ValuesOK
  <2> QED
    BY <2>1 DEF IInv, ValuesOK, QueuesHeld, TypeOK, Caller, Place
<1> QED
  BY <1>1, Invariant, PTL

\* Of the servers and format that look for their disk on one port, one at most
\* is between alloc_init and alloc_final with its disk manager there, however
\* many disk managers are started and whoever is killed: bind lets one listener
\* have the port, accept is called once, and alloc_init waits for it.
THEOREM DiskHasOneOwner == OneTarget => (Spec => []OneOwner)
<1> SUFFICES ASSUME OneTarget PROVE Spec => []OneOwner
  OBVIOUS
<1>1. IInv => OneOwner
  <2> SUFFICES ASSUME IInv PROVE OneOwner
    OBVIOUS
  <2> DEFINE S == {p \in Owner : HasDisk(p)}
  <2>1. ASSUME NEW p \in S PROVE \E l \in Listener : peer[l] = p /\ Holds(l) /\ PortOf[l] = Target[p]
    <3>1. /\ p \in Owner /\ p \in Process /\ p \in Caller /\ p \notin Client /\ Connected(p)
          /\ pc[p] \notin {"off", "sleeping", "connecting", "loading"}
      BY <2>1, Roles DEF HasDisk
    <3>2. ~InQueue(p)
      BY <3>1, Calls
    <3>3. PICK l \in Listener : peer[l] = p
      BY <3>1, <3>2 DEF Connected, InQueue
    <3>4. p # NONE
      BY <3>1, Roles
    <3>5. Holds(l)
      BY <3>3, <3>4, Roles DEF IInv, Served, Holds
    <3>6. PortOf[l] = Target[p]
      BY <3>1, <3>3 DEF IInv, Answering
    <3> QED
      BY <3>3, <3>5, <3>6
  <2>2. ASSUME NEW p \in S, NEW q \in S PROVE p = q
    <3>1. PICK k \in Listener : peer[k] = p /\ Holds(k) /\ PortOf[k] = Target[p]
      BY <2>1
    <3>2. PICK l \in Listener : peer[l] = q /\ Holds(l) /\ PortOf[l] = Target[q]
      BY <2>1
    <3>3. k = l
      BY <3>1, <3>2 DEF IInv, OneHolder, OneTarget
    <3> QED
      BY <3>1, <3>2, <3>3
  <2>3. CASE S = {}
    BY <2>3, FS_EmptySet DEF OneOwner
  <2>4. CASE S # {}
    <3>1. PICK p \in S : TRUE
      BY <2>4
    <3>2. S = {p}
      BY <2>2, <3>1
    <3>3. Cardinality({p}) = 1
      BY FS_Singleton
    <3> QED
      BY <3>2, <3>3 DEF OneOwner
  <2> QED
    BY <2>3, <2>4
<1> QED
  BY <1>1, Invariant, PTL
=============================================================================
