----------------------------- MODULE ZoneStore -----------------------------
(***************************************************************************)
(* What src/src/alloc.h promises to the layers above it: an array of       *)
(* zones that behaves like memory, and an allocation state per zone that   *)
(* is loaded when the store is opened and written back when it is closed.  *)
(* There is no cache, no block and no disk here.  Alloc implements this    *)
(* module under the mapping given at its end.                              *)
(***************************************************************************)
EXTENDS Integers

CONSTANTS
  Usable,      \* zone ids a caller can read, write and be given
  Mapped,      \* the ids among them the store keeps a state for
  FirstBlock,  \* the ids format() clears
  RootId,      \* the id of the root dentry
  Payload,     \* contents of a zone
  Blank,       \* the content of a cleared zone
  NULL,        \* "no such zone"
  State,       \* allocation states
  Unoccupied,  \* the state of a free zone
  DOccupied    \* the state of a zone that holds a dentry

VARIABLES
  open,        \* "yes" while a process has the store open, "lost" when it has
               \* asked for more than there are states for, else "no"
  zone,        \* content of every usable zone
  state,       \* allocation state of every mapped zone
  saved,       \* the states the next open starts from
  out          \* what the last call returned

vars == <<open, zone, state, saved, out>>

Init ==
  /\ open = "no"
  /\ zone = [id \in Usable |-> Blank]
  /\ state = [id \in Mapped |-> Unoccupied]
  /\ saved = [id \in Mapped |-> Unoccupied]
  /\ out = NULL

\* Opening loads the saved states.
Open ==
  /\ open = "no"
  /\ open' = "yes"
  /\ state' = saved
  /\ UNCHANGED <<zone, saved, out>>

\* Closing saves the states; nothing else changes.
Close ==
  /\ open = "yes"
  /\ open' = "no"
  /\ saved' = state
  /\ UNCHANGED <<zone, state, out>>

\* A crash loses the states since the last close and no zone.
Crash ==
  /\ open # "no"
  /\ open' = "no"
  /\ UNCHANGED <<zone, state, saved, out>>

\* A crash of a close that has saved some of the states.
CrashClosing ==
  /\ open = "yes"
  /\ open' = "no"
  /\ saved' \in [Mapped -> State]
  /\ \A id \in Mapped : saved'[id] \in {saved[id], state[id]}
  /\ UNCHANGED <<zone, state, out>>

\* A crash of a format that has cleared some states and zones.
CrashFormatting ==
  /\ open = "yes"
  /\ open' = "no"
  /\ saved' \in [Mapped -> State]
  /\ \A id \in Mapped : saved'[id] \in {saved[id], Unoccupied}
  /\ \E cleared \in SUBSET FirstBlock :
       zone' = [id \in Usable |-> IF id \in cleared THEN Blank ELSE zone[id]]
  /\ UNCHANGED <<state, out>>

\* A read returns the last value written.
Read(id) ==
  /\ open = "yes"
  /\ out' = zone[id]
  /\ UNCHANGED <<open, zone, state, saved>>

\* A write changes one zone and nothing else.
Write(id, val) ==
  /\ open = "yes"
  /\ zone' = [zone EXCEPT ![id] = val]
  /\ UNCHANGED <<open, state, saved, out>>

\* A reserved or negative id is refused.
Refuse ==
  /\ open = "yes"
  /\ out' = NULL
  /\ UNCHANGED <<open, zone, state, saved>>

\* Some free zone is taken ...
Take(s) ==
  /\ open = "yes"
  /\ \E id \in Mapped :
       /\ state[id] = Unoccupied
       /\ state' = [state EXCEPT ![id] = s]
       /\ out' = id
  /\ UNCHANGED <<open, zone, saved>>

\* ... unless there is none ...
TakeFails ==
  /\ open = "yes"
  /\ \A id \in Mapped : state[id] # Unoccupied
  /\ out' = -1
  /\ UNCHANGED <<open, zone, state, saved>>

\* ... or, when there is none, one without a state, and the store is lost.
Overrun ==
  /\ open = "yes"
  /\ \A id \in Mapped : state[id] # Unoccupied
  /\ open' = "lost"
  /\ out' \in Usable \ Mapped
  /\ UNCHANGED <<zone, state, saved>>

Give(id) ==
  /\ open = "yes"
  /\ IF id \in Mapped THEN open' = open /\ state' = [state EXCEPT ![id] = Unoccupied]
                      ELSE open' = "lost" /\ state' = state
  /\ UNCHANGED <<zone, saved, out>>

\* Of a store that is lost nothing is promised but that it can be opened again
\* after a crash.
Stray ==
  /\ open = "lost"
  /\ zone' \in [Usable -> Payload]
  /\ saved' \in [Mapped -> State]
  /\ UNCHANGED <<open, state, out>>

Format ==
  /\ open = "yes"
  /\ zone' = [id \in Usable |-> IF id \in FirstBlock THEN Blank ELSE zone[id]]
  /\ saved' = [id \in Mapped |-> Unoccupied]
  /\ state' = [id \in Mapped |-> IF id = RootId THEN DOccupied ELSE Unoccupied]
  /\ UNCHANGED <<open, out>>

Next ==
  \/ Open \/ Close \/ Refuse \/ TakeFails \/ Overrun \/ Stray \/ Format
  \/ Crash \/ CrashClosing \/ CrashFormatting
  \/ \E id \in Usable : Read(id) \/ Give(id) \/ \E val \in Payload : Write(id, val)
  \/ \E s \in State \ {Unoccupied} : Take(s)

Spec == Init /\ [][Next]_vars
=============================================================================
