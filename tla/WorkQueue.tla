------------------------------ MODULE WorkQueue ------------------------------
(***************************************************************************)
(* What the queue of an attached agent promises: a message has at most one *)
(* session working on it, only that session finishes it, and a message that*)
(* is done is never open again.                                            *)
(***************************************************************************)
CONSTANTS Msg, Session, Absent, Open, Done

VARIABLE owner  \* Msg -> Absent, Open, Done, or the session that works on it

Init == owner = [m \in Msg |-> Absent]

Post(m) == owner[m] = Absent /\ owner' = [owner EXCEPT ![m] = Open]

Take(s, m) == owner[m] = Open /\ owner' = [owner EXCEPT ![m] = s]

\* Some sessions give up, or run out of time.
Lapse(M) ==
  /\ \A m \in M : owner[m] \in Session
  /\ owner' = [m \in Msg |-> IF m \in M THEN Open ELSE owner[m]]

Finish(s, m) == owner[m] = s /\ owner' = [owner EXCEPT ![m] = Done]

Next ==
  \/ \E m \in Msg : Post(m)
  \/ \E s \in Session, m \in Msg : Take(s, m) \/ Finish(s, m)
  \/ \E M \in SUBSET Msg : Lapse(M)

Spec == Init /\ [][Next]_owner
=============================================================================
