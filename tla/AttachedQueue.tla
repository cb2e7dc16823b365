---------------------------- MODULE AttachedQueue ----------------------------
(***************************************************************************)
(* The queue of an attached agent (src/backends/attached-queue.ts): the    *)
(* inbound notes of a channel, whose claim status lives in the vault, the  *)
(* sessions that claim, answer and release them through the MCP tools, and *)
(* the daemon's periodic sweep of expired claims.                          *)
(*                                                                         *)
(* Every vault call is an await: a tool call is a chain of steps, and those*)
(* of other sessions, of the sweep and of the clock come in between.  Time *)
(* is the age of claims, counted in ticks up to the TTL.                   *)
(*                                                                         *)
(* Definitions that no other one uses stand before the definition that they*)
(* are a faulty variant of; the properties below tell the two apart.       *)
(***************************************************************************)
EXTENDS Naturals

CONSTANTS
  MaxMsgs,             \* bound on the inbound notes
  Session,             \* the sessions connected to the channel
  TTL,                 \* claimTtlMs, in ticks
  MAX_CLAIM_ATTEMPTS,
  VaultFails,          \* may a vault call fail, or its answer be lost?
  CanRestart,          \* may the daemon restart?
  LateSessions,        \* may a session act on a claim that has expired?
  PromptCalls,         \* do calls and sweeps take less than a tick?
  None

ASSUME BoundAssumption == {MaxMsgs, TTL, MAX_CLAIM_ATTEMPTS} \subseteq Nat \ {0}
ASSUME SwitchAssumption ==
  {VaultFails, CanRestart, LateSessions, PromptCalls} \subseteq BOOLEAN

Msg == 1..MaxMsgs  \* in the order of their timestamps
ASSUME SessionAssumption ==
  None \notin Msg /\ Session \cap {"absent", "open", "done"} = {}

VARIABLES
  status,    \* Msg -> claim status of the inbound note
  age,       \* Msg -> age of the claim of an in-flight note
  at,        \* Session -> the await its tool call is at, "idle" or "holding"
  msg,       \* Session -> the message of its call or of its claim
  unchanged, \* Session -> has the note it listed not been written since?
  tries,     \* Session -> lost races of its claimNext call
  lease,     \* Session -> age of the claim it holds
  sweeping,  \* the notes the running sweep has still to release
  outbound   \* Msg -> replies in the vault

notes == <<status, age>>
vars == <<notes, at, msg, unchanged, tries, lease, sweeping, outbound>>

Calling == {"listing", "claiming", "reply", "handle", "release"}
Holding == {"holding", "reply", "handle", "release"}

Init ==
  /\ status = [m \in Msg |-> "absent"]
  /\ age = [m \in Msg |-> 0]
  /\ at = [s \in Session |-> "idle"]
  /\ msg = [s \in Session |-> None]
  /\ unchanged = [s \in Session |-> FALSE]
  /\ tries = [s \in Session |-> 0]
  /\ lease = [s \in Session |-> 0]
  /\ sweeping = {}
  /\ outbound = [m \in Msg |-> 0]

Move(s, place) == at' = [at EXCEPT ![s] = place]

\* setInboundStatus, as the vault carries it out: it also moves updated_at,
\* which every claim that has listed the note compares with.
SetStatus(m, st) ==
  /\ status' = [status EXCEPT ![m] = st]
  /\ age' = [age EXCEPT ![m] = 0]
  /\ unchanged' = [s \in Session |-> unchanged[s] /\ msg[s] # m]

\* A new inbound note has no status, which reads as pending.
Inbound(m) ==
  /\ status[m] = "absent"
  /\ \A n \in 1..(m - 1) : status[n] # "absent"
  /\ status' = [status EXCEPT ![m] = "pending"]
  /\ UNCHANGED <<age, at, msg, unchanged, tries, lease, sweeping, outbound>>

(***************************************************************************)
(* claimNext                                                               *)
(***************************************************************************)
Pending == {m \in Msg : status[m] = "pending"}

NextMessage(s) ==
  /\ at[s] = "idle"
  /\ Move(s, "listing")
  /\ tries' = [tries EXCEPT ![s] = 0]
  /\ UNCHANGED <<notes, msg, unchanged, lease, sweeping, outbound>>

\* The list of the queue is back: claim its oldest pending note.
Listed(s) ==
  /\ at[s] = "listing"
  /\ \/ /\ Pending = {}
        /\ Move(s, "idle")
        /\ UNCHANGED <<msg, unchanged>>
     \/ \E m \in Pending :
          /\ \A n \in Pending : m <= n
          /\ Move(s, "claiming")
          /\ msg' = [msg EXCEPT ![s] = m]
          /\ unchanged' = [unchanged EXCEPT ![s] = TRUE]
  /\ UNCHANGED <<notes, tries, lease, sweeping, outbound>>

ForcedClaim(s) ==
  /\ at[s] = "claiming"
  /\ SetStatus(msg[s], "in-flight")
  /\ Move(s, "holding")
  /\ lease' = [lease EXCEPT ![s] = 0]
  /\ UNCHANGED <<msg, tries, sweeping, outbound>>

\* The compare-and-swap lands.
Claimed(s) ==
  /\ at[s] = "claiming"
  /\ unchanged[s]
  /\ SetStatus(msg[s], "in-flight")
  /\ Move(s, "holding")
  /\ lease' = [lease EXCEPT ![s] = 0]
  /\ UNCHANGED <<msg, tries, sweeping, outbound>>

\* ... or another writer was faster: list again, up to the backstop.
Conflict(s) ==
  /\ at[s] = "claiming"
  /\ ~unchanged[s]
  /\ tries' = [tries EXCEPT ![s] = @ + 1]
  /\ Move(s, IF tries[s] + 1 < MAX_CLAIM_ATTEMPTS THEN "listing" ELSE "idle")
  /\ UNCHANGED <<notes, msg, unchanged, lease, sweeping, outbound>>

\* Any other failure is the session's tool error.  An answer that is lost
\* leaves a claim that no session knows of.
ClaimFails(s) ==
  /\ VaultFails
  /\ at[s] \in {"listing", "claiming"}
  /\ Move(s, "idle")
  /\ \/ UNCHANGED <<notes, unchanged>>
     \/ at[s] = "claiming" /\ unchanged[s] /\ SetStatus(msg[s], "in-flight")
  /\ UNCHANGED <<msg, tries, lease, sweeping, outbound>>

(***************************************************************************)
(* reply and release                                                       *)
(***************************************************************************)
InTime(s) == LateSessions \/ lease[s] < TTL

Call(s, tool) ==
  /\ at[s] = "holding"
  /\ InTime(s)
  /\ Move(s, tool)
  /\ UNCHANGED <<notes, msg, unchanged, tries, lease, sweeping, outbound>>

Reply(s) == Call(s, "reply")
Release(s) == Call(s, "release")

HandleFirst(s) ==
  /\ at[s] = "reply"
  /\ SetStatus(msg[s], "handled")
  /\ Move(s, "handle")
  /\ UNCHANGED <<msg, tries, lease, sweeping, outbound>>

\* A reply reaches the vault; 2 stands for two and more.
Sent(m) == outbound' = [outbound EXCEPT ![m] = IF @ = 0 THEN 1 ELSE 2]

\* The outbound note comes first ...
ReplyWritten(s) ==
  /\ at[s] = "reply"
  /\ Sent(msg[s])
  /\ Move(s, "handle")
  /\ UNCHANGED <<notes, msg, unchanged, tries, lease, sweeping>>

\* ... and then the status, which is not conditional on the claim.
Handled(s) ==
  /\ at[s] = "handle"
  /\ SetStatus(msg[s], "handled")
  /\ Move(s, "idle")
  /\ UNCHANGED <<msg, tries, lease, sweeping, outbound>>

Released(s) ==
  /\ at[s] = "release"
  /\ SetStatus(msg[s], "pending")
  /\ Move(s, "idle")
  /\ UNCHANGED <<msg, tries, lease, sweeping, outbound>>

\* A tool error, with the write done or not: the session still has its claim
\* and may call again.
CallFails(s) ==
  /\ VaultFails
  /\ at[s] \in {"reply", "handle", "release"}
  /\ \/ UNCHANGED <<notes, unchanged, outbound>>
     \/ at[s] = "reply" /\ Sent(msg[s]) /\ UNCHANGED <<notes, unchanged>>
     \/ at[s] = "handle" /\ SetStatus(msg[s], "handled") /\ UNCHANGED outbound
     \/ at[s] = "release" /\ SetStatus(msg[s], "pending") /\ UNCHANGED outbound
  /\ Move(s, "holding")
  /\ UNCHANGED <<msg, tries, lease, sweeping>>

\* The session goes away with its claim.
Abandon(s) ==
  /\ at[s] = "holding"
  /\ Move(s, "idle")
  /\ UNCHANGED <<notes, msg, unchanged, tries, lease, sweeping, outbound>>

(***************************************************************************)
(* The sweep, the clock and restarts                                       *)
(***************************************************************************)
PastExpiry == {m \in Msg : status[m] = "in-flight" /\ age[m] > TTL}

Expired == {m \in Msg : status[m] = "in-flight" /\ age[m] = TTL}

\* sweepExpired lists the queue and releases the expired claims one by one,
\* here in any order.
Sweep ==
  /\ sweeping = {}
  /\ Expired # {}
  /\ sweeping' = Expired
  /\ UNCHANGED <<notes, at, msg, unchanged, tries, lease, outbound>>

Swept(m) ==
  /\ m \in sweeping
  /\ sweeping' = sweeping \ {m}
  /\ SetStatus(m, "pending")
  /\ UNCHANGED <<at, msg, tries, lease, outbound>>

SweepFails(m) ==
  /\ VaultFails
  /\ m \in sweeping
  /\ sweeping' = sweeping \ {m}
  /\ UNCHANGED <<notes, at, msg, unchanged, tries, lease, outbound>>

Older(a) == IF a < TTL THEN a + 1 ELSE TTL

Tick ==
  /\ PromptCalls => sweeping = {} /\ \A s \in Session : at[s] \notin Calling
  /\ age' = [m \in Msg |-> IF status[m] = "in-flight" THEN Older(age[m]) ELSE age[m]]
  /\ lease' = [s \in Session |-> IF at[s] \in Holding THEN Older(lease[s]) ELSE lease[s]]
  /\ UNCHANGED <<status, at, msg, unchanged, tries, sweeping, outbound>>

\* The calls in progress are cut off; the notes keep their claims and the
\* sessions theirs.
Restart ==
  /\ CanRestart
  /\ at' = [s \in Session |->
              IF at[s] \in {"listing", "claiming"} THEN "idle"
              ELSE IF at[s] \in Calling THEN "holding" ELSE at[s]]
  /\ sweeping' = {}
  /\ UNCHANGED <<notes, msg, unchanged, tries, lease, outbound>>

SessionStep(s) ==
  \/ NextMessage(s) \/ Listed(s) \/ Claimed(s) \/ Conflict(s) \/ ClaimFails(s)
  \/ Reply(s) \/ Release(s) \/ ReplyWritten(s) \/ Handled(s) \/ Released(s)
  \/ CallFails(s) \/ Abandon(s)

Next ==
  \/ \E m \in Msg : Inbound(m) \/ Swept(m) \/ SweepFails(m)
  \/ \E s \in Session : SessionStep(s)
  \/ Sweep \/ Tick \/ Restart

Spec == Init /\ [][Next]_vars

\* The interval timer fires, time goes by, and the vault does not fail the
\* sweep's release of the same note for ever.  Nothing is asked of sessions.
FairSpec ==
  Spec /\ WF_vars(Sweep) /\ WF_vars(Tick) /\ \A m \in Msg : SF_vars(Swept(m))

(***************************************************************************)
(* Properties.                                                             *)
(***************************************************************************)

\* Every variable keeps its type.
TypeOK ==
  /\ status \in [Msg -> {"absent", "pending", "in-flight", "handled"}]
  /\ age \in [Msg -> 0..TTL]
  /\ at \in [Session -> {"idle"} \cup Calling \cup Holding]
  /\ msg \in [Session -> Msg \cup {None}]
  /\ \A s \in Session : at[s] \notin {"idle", "listing"} => msg[s] \in Msg
  /\ unchanged \in [Session -> BOOLEAN]
  /\ tries \in [Session -> Nat]
  /\ lease \in [Session -> 0..TTL]
  /\ sweeping \subseteq Msg
  /\ outbound \in [Msg -> 0..2]

\* The session works on m, and its claim has not expired.
Works(s, m) == at[s] \in Holding /\ msg[s] = m /\ lease[s] < TTL

\* Single claim: two sessions never work on one message, however their claims,
\* the sweep and lost answers interleave.
SingleClaim ==
  \A s, t \in Session, m \in Msg : Works(s, m) /\ Works(t, m) => s = t

\* A message that is marked handled has its reply in the transcript.
HandledHasReply == \A m \in Msg : status[m] = "handled" => outbound[m] > 0

\* A message gets one reply.
AnsweredOnce == \A m \in Msg : outbound[m] <= 1

\* A claim whose session is gone, or never learnt of it, does not strand its
\* message: no message stays in flight for ever.
ClaimsEnd == \A m \in Msg : status[m] = "in-flight" ~> status[m] # "in-flight"

(***************************************************************************)
(* Among prompt sessions the notes implement a work queue.                 *)
(***************************************************************************)
Owner ==
  [m \in Msg |->
     CASE status[m] = "absent" -> "absent"
       [] status[m] = "handled" -> "done"
       [] status[m] \in {"pending", "in-flight"} ->
            IF \E s \in Session : Works(s, m)
              THEN CHOOSE s \in Session : Works(s, m) ELSE "open"]

Queue == INSTANCE WorkQueue
  WITH Absent <- "absent", Open <- "open", Done <- "done", owner <- Owner

\* Messages are claimed by one session at a time, finished by the session that
\* has claimed them, and then done for good.
ImplementsWorkQueue == Queue!Spec
=============================================================================
