--------------------------- MODULE SerialMailboxes ---------------------------
(***************************************************************************)
(* What the programmatic registry promises its callers, without agents,    *)
(* locks or workers: each drain key is a mailbox that runs one message at  *)
(* a time, in the order they were put there, and is idle only when nothing *)
(* waits.  Whole mailboxes may be emptied by a teardown; the running       *)
(* message is never cancelled.                                             *)
(***************************************************************************)
EXTENDS Sequences

CONSTANTS Key, Msg, Nobody

VARIABLES
  waiting,  \* key -> messages waiting, oldest first
  running   \* key -> the message of the current turn, or Nobody

mailboxes == <<waiting, running>>

Init ==
  /\ waiting = [k \in Key |-> <<>>]
  /\ running = [k \in Key |-> Nobody]

\* A message for an idle mailbox runs at once, any other one waits.
Put(k, m) ==
  \/ /\ running[k] = Nobody
     /\ running' = [running EXCEPT ![k] = m]
     /\ UNCHANGED waiting
  \/ /\ running[k] # Nobody
     /\ waiting' = [waiting EXCEPT ![k] = Append(@, m)]
     /\ UNCHANGED running

\* The current turn is over and the next message, if any, runs.
Advance(k) ==
  /\ running[k] # Nobody
  /\ \/ /\ waiting[k] # <<>>
        /\ running' = [running EXCEPT ![k] = Head(waiting[k])]
        /\ waiting' = [waiting EXCEPT ![k] = Tail(@)]
     \/ /\ waiting[k] = <<>>
        /\ running' = [running EXCEPT ![k] = Nobody]
        /\ UNCHANGED waiting

Empty(ks) ==
  /\ waiting' = [k \in Key |-> IF k \in ks THEN <<>> ELSE waiting[k]]
  /\ UNCHANGED running

Next ==
  \/ \E k \in Key : (\E m \in Msg : Put(k, m)) \/ Advance(k)
  \/ \E ks \in SUBSET Key : Empty(ks)

Spec == Init /\ [][Next]_mailboxes

\* Every turn ends.
FairSpec == Spec /\ \A k \in Key : WF_mailboxes(Advance(k))
=============================================================================
