--------------------------- MODULE MCAttachedQueue ---------------------------
(***************************************************************************)
(* Two environments of AttachedQueue, chosen in the initial state.  In     *)
(* "prompt" three sessions race for two messages and calls take less than a*)
(* tick.  In "faulty" there is one message and two sessions; they may be   *)
(* late, vault calls fail and lose their answers, calls outlast claims and *)
(* the daemon restarts.                                                    *)
(***************************************************************************)
EXTENDS AttachedQueue

\* The constants of the configuration are those of "prompt".
VARIABLE env

CONSTANTS s1, s2, s3
Sessions == {s1, s2, s3}

Faulty == INSTANCE AttachedQueue WITH
  VaultFails <- TRUE, CanRestart <- TRUE, LateSessions <- TRUE, PromptCalls <- FALSE

\* The message and the session that only the prompt environment has.
OnlyOneMessage == status'[2] = "absent" /\ at'[s3] = "idle"

In(e) == env = e /\ UNCHANGED env
MCInit == env \in {"prompt", "faulty"} /\ Init
MCNext ==
  \/ In("prompt") /\ Next
  \/ In("faulty") /\ Faulty!Next /\ OnlyOneMessage
MCSpec ==
  /\ MCInit
  /\ [][MCNext]_<<vars, env>>
  /\ WF_vars(env = "faulty" /\ Faulty!Sweep)
  /\ WF_vars(env = "faulty" /\ Faulty!Tick)
  /\ SF_vars(env = "faulty" /\ Faulty!Swept(1))

(* Among prompt sessions a message is worked on by one session at a time   *)
(* and gets one reply, and the notes implement the work queue.             *)
PromptImplementsWorkQueue ==
  /\ env = "prompt" => Queue!Init
  /\ [][env = "prompt" => SingleClaim' /\ AnsweredOnce']_<<vars, env>>
  /\ [][env = "prompt" => Queue!Next]_<<Owner, env>>

(* In the faulty environment no message stays in flight for ever.          *)
FaultyClaimsEnd ==
  (env = "faulty" /\ status[1] = "in-flight") ~> status[1] # "in-flight"
=============================================================================
