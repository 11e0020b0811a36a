---------------------------- MODULE CommandService ----------------------------
(***************************************************************************)
(* What a stream device promises its host threads (doc/coprthr_api_ref.txt *)
(* 279-281 and 316-318): commands are queued in order, executed one at a   *)
(* time in that order and none is dropped, and a call that synchronises    *)
(* with the queue returns only once everything submitted has completed.    *)
(***************************************************************************)
EXTENDS Sequences, Functions

CONSTANTS Clients, Events, Null

VARIABLES
  waiting,   \* commands accepted and not yet begun, in order
  active,    \* the command the device is working on, or Null
  done,      \* completed commands, in completion order
  syncing    \* clients blocked until the queue is drained

service == <<waiting, active, done, syncing>>

Init ==
  waiting = <<>> /\ active = Null /\ done = <<>> /\ syncing = {}

Submit(e) ==
  /\ e \notin Range(waiting) \cup {active} \cup Range(done)
  /\ waiting' = Append(waiting, e)
  /\ UNCHANGED <<active, done, syncing>>

Begin ==
  /\ active = Null /\ waiting # <<>>
  /\ active' = Head(waiting) /\ waiting' = Tail(waiting)
  /\ UNCHANGED <<done, syncing>>

End ==
  /\ active # Null
  /\ done' = Append(done, active) /\ active' = Null
  /\ UNCHANGED <<waiting, syncing>>

SyncCall(c) ==
  /\ syncing' = syncing \cup {c}
  /\ UNCHANGED <<waiting, active, done>>

SyncReturn(c) ==
  /\ c \in syncing /\ waiting = <<>> /\ active = Null
  /\ syncing' = syncing \ {c}
  /\ UNCHANGED <<waiting, active, done>>

Next ==
  \/ \E e \in Events : Submit(e)
  \/ Begin \/ End
  \/ \E c \in Clients : SyncCall(c) \/ SyncReturn(c)

Spec == Init /\ [][Next]_service

(* The device keeps working, and a synchronising client is let go. *)
FairSpec ==
  /\ Spec
  /\ WF_service(Begin) /\ WF_service(End)
  /\ \A c \in Clients : WF_service(SyncReturn(c))

=============================================================================
