------------------------- MODULE AttachedQueueProofs -------------------------
(***************************************************************************)
(* Theorems about AttachedQueue, for any number of messages and sessions,  *)
(* any TTL and any number of attempts: what holds however the vault fails, *)
(* and what a daemon and sessions that are prompt make of the queue.       *)
(***************************************************************************)
EXTENDS MCAttachedQueue, TLAPS

\* Sessions act before their claims expire, calls take less than a tick, and
\* the vault carries each of them out once.
Prompt == PromptCalls /\ ~LateSessions /\ ~VaultFails

LEMMA StatusIsSet ==
  ASSUME TypeOK, NEW m \in Msg, NEW st \in {"pending", "in-flight", "handled"}, SetStatus(m, st)
  PROVE  /\ status' \in [Msg -> {"absent", "pending", "in-flight", "handled"}]
         /\ age' \in [Msg -> 0..TTL] /\ unchanged' \in [Session -> BOOLEAN]
<1>1. 0 \in 0..TTL
  BY BoundAssumption
<1> QED
  BY <1>1 DEF TypeOK, SetStatus

LEMMA OlderTyped ==
  ASSUME NEW a \in 0..TTL PROVE Older(a) \in 0..TTL
BY BoundAssumption DEF Older

LEMMA InitTyped == Init => TypeOK
<1>b. 0 \in 0..TTL /\ MAX_CLAIM_ATTEMPTS \in Nat
  BY BoundAssumption
<1> QED
  BY <1>b DEF Init, TypeOK

LEMMA StepTyped == ASSUME TypeOK, [Next]_vars PROVE TypeOK'
<1>b. 0 \in 0..TTL /\ MAX_CLAIM_ATTEMPTS \in Nat
  BY BoundAssumption
<1>1. ASSUME NEW m \in Msg, Inbound(m) PROVE TypeOK'
  BY <1>1 DEF Inbound, TypeOK
<1>2. ASSUME NEW m \in Msg, Swept(m) PROVE TypeOK'
  BY <1>2, StatusIsSet DEF Swept, TypeOK
<1>3. ASSUME NEW m \in Msg, SweepFails(m) PROVE TypeOK'
  BY <1>3 DEF SweepFails, TypeOK, notes
<1>4. ASSUME NEW s \in Session, NextMessage(s) \/ Abandon(s) PROVE TypeOK'
  BY <1>4 DEF NextMessage, Abandon, Move, TypeOK, notes, Calling, Holding
<1>5. ASSUME NEW s \in Session, Listed(s) PROVE TypeOK'
  <2>1. CASE Move(s, "idle") /\ UNCHANGED <<msg, unchanged>>
    BY <1>5, <2>1 DEF Listed, Move, TypeOK, notes
  <2>2. ASSUME NEW m \in Pending, Move(s, "claiming"), msg' = [msg EXCEPT ![s] = m],
               unchanged' = [unchanged EXCEPT ![s] = TRUE]
        PROVE  TypeOK'
    <3>1. m \in Msg
      BY DEF Pending
    <3>2. at' = [at EXCEPT ![s] = "claiming"] /\ UNCHANGED <<status, age, tries, lease, sweeping, outbound>>
      BY <1>5, <2>2 DEF Listed, Move, notes
    <3> QED  BY <2>2, <3>1, <3>2 DEF TypeOK, Calling
  <2> QED  BY <1>5, <2>1, <2>2 DEF Listed
<1>6. ASSUME NEW s \in Session, Claimed(s) PROVE TypeOK'
  <2>1. msg[s] \in Msg
    BY <1>6 DEF Claimed, TypeOK
  <2>2. UNCHANGED <<msg, tries, sweeping, outbound>>
    BY <1>6 DEF Claimed
  <2>3. at' = [at EXCEPT ![s] = "holding"] /\ lease' = [lease EXCEPT ![s] = 0]
    BY <1>6 DEF Claimed, Move
  <2>4. /\ status' \in [Msg -> {"absent", "pending", "in-flight", "handled"}]
        /\ age' \in [Msg -> 0..TTL] /\ unchanged' \in [Session -> BOOLEAN]
    BY <1>6, <2>1, StatusIsSet DEF Claimed
  <2> QED  BY <2>1, <2>2, <2>3, <2>4, <1>b DEF TypeOK, Holding
<1>7. ASSUME NEW s \in Session, Conflict(s) PROVE TypeOK'
  BY <1>7 DEF Conflict, Move, TypeOK, notes, Calling, Holding
<1>8. ASSUME NEW s \in Session, ClaimFails(s) PROVE TypeOK'
  <2>1. at' = [at EXCEPT ![s] = "idle"] /\ UNCHANGED <<msg, tries, lease, sweeping, outbound>>
    BY <1>8 DEF ClaimFails, Move
  <2>2. /\ status' \in [Msg -> {"absent", "pending", "in-flight", "handled"}]
        /\ age' \in [Msg -> 0..TTL] /\ unchanged' \in [Session -> BOOLEAN]
    <3>1. CASE UNCHANGED <<notes, unchanged>>
      BY <3>1 DEF TypeOK, notes
    <3>2. CASE at[s] = "claiming" /\ SetStatus(msg[s], "in-flight")
      BY <3>2, StatusIsSet DEF TypeOK
    <3> QED  BY <1>8, <3>1, <3>2 DEF ClaimFails
  <2> QED  BY <2>1, <2>2 DEF TypeOK
<1>9. ASSUME NEW s \in Session, Reply(s) \/ Release(s) PROVE TypeOK'
  BY <1>9 DEF Reply, Release, Call, Move, TypeOK, notes, Calling, Holding
<1>10. ASSUME NEW s \in Session, ReplyWritten(s) PROVE TypeOK'
  BY <1>10 DEF ReplyWritten, Sent, Move, TypeOK, notes, Calling, Holding
<1>11. ASSUME NEW s \in Session, Handled(s) \/ Released(s) PROVE TypeOK'
  <2>1. at' = [at EXCEPT ![s] = "idle"] /\ UNCHANGED <<msg, tries, lease, sweeping, outbound>>
    BY <1>11 DEF Handled, Released, Move
  <2>2. msg[s] \in Msg
    BY <1>11 DEF Handled, Released, TypeOK
  <2>3. /\ status' \in [Msg -> {"absent", "pending", "in-flight", "handled"}]
        /\ age' \in [Msg -> 0..TTL] /\ unchanged' \in [Session -> BOOLEAN]
    BY <1>11, <2>2, StatusIsSet DEF Handled, Released
  <2> QED  BY <2>1, <2>3 DEF TypeOK
<1>12. ASSUME NEW s \in Session, CallFails(s) PROVE TypeOK'
  <2>1. at' = [at EXCEPT ![s] = "holding"] /\ UNCHANGED <<msg, tries, lease, sweeping>> /\ msg[s] \in Msg
    BY <1>12 DEF CallFails, Move, TypeOK
  <2>2. /\ status' \in [Msg -> {"absent", "pending", "in-flight", "handled"}]
        /\ age' \in [Msg -> 0..TTL] /\ unchanged' \in [Session -> BOOLEAN]
    <3>1. CASE UNCHANGED <<notes, unchanged>>
      BY <3>1 DEF TypeOK, notes
    <3>2. CASE SetStatus(msg[s], "handled") \/ SetStatus(msg[s], "pending")
      BY <3>2, <2>1, StatusIsSet
    <3> QED  BY <1>12, <3>1, <3>2 DEF CallFails
  <2>3. outbound' \in [Msg -> 0..2]
    BY <1>12, <2>1 DEF CallFails, Sent, TypeOK
  <2> QED  BY <2>1, <2>2, <2>3 DEF TypeOK, Holding
<1>13. ASSUME Sweep PROVE TypeOK'
  BY <1>13 DEF Sweep, Expired, TypeOK, notes
<1>14. ASSUME Tick PROVE TypeOK'
  <2>1. age' \in [Msg -> 0..TTL] /\ lease' \in [Session -> 0..TTL]
    BY <1>14, OlderTyped DEF Tick, TypeOK
  <2> QED  BY <1>14, <2>1 DEF Tick, TypeOK
<1>15. ASSUME Restart PROVE TypeOK'
  BY <1>15 DEF Restart, TypeOK, notes, Calling, Holding
<1>16. CASE UNCHANGED vars
  BY <1>16 DEF vars, notes, TypeOK, Calling, Holding
<1> QED
  BY <1>1, <1>2, <1>3, <1>4, <1>5, <1>6, <1>7, <1>8, <1>9, <1>10, <1>11, <1>12, <1>13, <1>14,
     <1>15, <1>16 DEF Next, SessionStep

\* Every variable keeps its type.
THEOREM Typing == Spec => []TypeOK
<1>1. TypeOK /\ [Next]_vars => TypeOK'
  BY StepTyped
<1> QED
  BY <1>1, InitTyped, PTL DEF Spec

-----------------------------------------------------------------------------
(* A handled message has its reply, whatever fails.                         *)

\* A session that is about to mark its message has written the reply.
ReplyFirst == \A s \in Session : at[s] = "handle" => outbound[msg[s]] > 0

\* Replies are never taken back.
RepliesStay == \A m \in Msg : outbound[m] > 0 => outbound'[m] > 0

LEMMA SentCounts ==
  ASSUME TypeOK, NEW m \in Msg, Sent(m)
  PROVE  outbound'[m] > 0 /\ RepliesStay
BY DEF Sent, TypeOK, RepliesStay

\* A step that marks nothing and moves no session to "handle" keeps both.
LEMMA NothingHandled ==
  ASSUME TypeOK, TypeOK', ReplyFirst, HandledHasReply, RepliesStay,
         \A m \in Msg : status'[m] = "handled" => status[m] = "handled",
         \A s \in Session : at'[s] = "handle" => at[s] = "handle" /\ msg'[s] = msg[s]
  PROVE  ReplyFirst' /\ HandledHasReply'
<1>1. \A s \in Session : at[s] = "handle" => msg[s] \in Msg
  BY DEF TypeOK
<1> QED
  BY <1>1 DEF ReplyFirst, HandledHasReply, RepliesStay

\* A message that is marked handled has its reply in the transcript, though
\* calls fail, their answers are lost, sessions are late and the daemon
\* restarts between the reply and the mark.
THEOREM RepliesPrecedeMarks == Spec => []HandledHasReply
<1>1. Init => ReplyFirst /\ HandledHasReply
  BY DEF Init, ReplyFirst, HandledHasReply
<1>2. TypeOK /\ TypeOK' /\ ReplyFirst /\ HandledHasReply /\ [Next]_vars => ReplyFirst' /\ HandledHasReply'
  <2> SUFFICES ASSUME TypeOK, TypeOK', ReplyFirst, HandledHasReply, [Next]_vars
               PROVE  ReplyFirst' /\ HandledHasReply'
    OBVIOUS
  <2>k. outbound' = outbound => RepliesStay
    BY DEF RepliesStay
  <2>m. \A s \in Session : at[s] \notin {"idle", "listing"} => msg[s] \in Msg
    BY DEF TypeOK
  <2>1. ASSUME NEW m \in Msg, Inbound(m) \/ Swept(m) \/ SweepFails(m) PROVE ReplyFirst' /\ HandledHasReply'
    <3>1. /\ UNCHANGED <<at, msg, outbound>>
          /\ \A n \in Msg : status'[n] = "handled" => status[n] = "handled"
      BY <2>1 DEF Inbound, Swept, SweepFails, SetStatus, notes, TypeOK
    <3> QED  BY <3>1, <2>k, NothingHandled
  <2>2. ASSUME NEW s \in Session,
               \/ NextMessage(s) \/ Listed(s) \/ Conflict(s) \/ Reply(s) \/ Release(s) \/ Abandon(s)
        PROVE  ReplyFirst' /\ HandledHasReply'
    <3>1. /\ UNCHANGED <<status, outbound>>
          /\ \A t \in Session : at'[t] = "handle" => at[t] = "handle" /\ msg'[t] = msg[t]
      BY <2>2 DEF NextMessage, Listed, Conflict, Reply, Release, Call, Abandon, Move, notes, TypeOK
    <3> QED  BY <3>1, <2>k, NothingHandled
  <2>3. ASSUME NEW s \in Session, Claimed(s) \/ ClaimFails(s) \/ Released(s)
        PROVE  ReplyFirst' /\ HandledHasReply'
    <3>1. UNCHANGED <<msg, outbound>> /\ \A t \in Session : at'[t] = "handle" => at[t] = "handle"
      BY <2>3 DEF Claimed, ClaimFails, Released, Move, TypeOK
    <3>2. \A n \in Msg : status'[n] = "handled" => status[n] = "handled"
      BY <2>3 DEF Claimed, ClaimFails, Released, SetStatus, notes, TypeOK
    <3> QED  BY <3>1, <3>2, <2>k, NothingHandled
  <2>4. ASSUME NEW s \in Session, ReplyWritten(s) PROVE ReplyFirst' /\ HandledHasReply'
    <3>1. outbound'[msg[s]] > 0 /\ RepliesStay /\ msg[s] \in Msg
      BY <2>4, <2>m, SentCounts DEF ReplyWritten
    <3>2. UNCHANGED <<status, msg>> /\ \A t \in Session \ {s} : at'[t] = at[t]
      BY <2>4 DEF ReplyWritten, Move, notes, TypeOK
    <3> QED  BY <3>1, <3>2, <2>m DEF ReplyFirst, HandledHasReply, RepliesStay
  <2>5. ASSUME NEW s \in Session, Handled(s) PROVE ReplyFirst' /\ HandledHasReply'
    <3>1. /\ UNCHANGED <<msg, outbound>> /\ \A t \in Session : at'[t] = "handle" => at[t] = "handle"
          /\ at[s] = "handle" /\ \A n \in Msg : status'[n] = "handled" => status[n] = "handled" \/ n = msg[s]
      BY <2>5 DEF Handled, SetStatus, Move, TypeOK
    <3> QED  BY <3>1 DEF ReplyFirst, HandledHasReply
  <2>6. ASSUME NEW s \in Session, CallFails(s) PROVE ReplyFirst' /\ HandledHasReply'
    <3>1. msg' = msg /\ \A t \in Session : at'[t] = "handle" => at[t] = "handle"
      BY <2>6 DEF CallFails, Move, TypeOK
    <3>2. CASE at[s] = "handle" /\ SetStatus(msg[s], "handled") /\ UNCHANGED outbound
      <4>1. \A n \in Msg : status'[n] = "handled" => status[n] = "handled" \/ n = msg[s]
        BY <3>2 DEF SetStatus, TypeOK
      <4> QED  BY <3>1, <3>2, <4>1 DEF ReplyFirst, HandledHasReply
    <3>3. CASE ~(at[s] = "handle" /\ SetStatus(msg[s], "handled") /\ UNCHANGED outbound)
      <4>1. \A n \in Msg : status'[n] = "handled" => status[n] = "handled"
        BY <2>6, <3>3 DEF CallFails, SetStatus, notes, TypeOK
      <4>2. RepliesStay
        BY <2>6, <2>k, <2>m, SentCounts DEF CallFails
      <4> QED  BY <3>1, <4>1, <4>2, NothingHandled
    <3> QED  BY <3>2, <3>3
  <2>7. ASSUME Sweep \/ Tick PROVE ReplyFirst' /\ HandledHasReply'
    BY <2>7 DEF Sweep, Tick, notes, ReplyFirst, HandledHasReply
  <2>8. ASSUME Restart PROVE ReplyFirst' /\ HandledHasReply'
    BY <2>8 DEF Restart, notes, ReplyFirst, HandledHasReply, Calling
  <2>9. CASE UNCHANGED vars
    BY <2>9 DEF vars, notes, ReplyFirst, HandledHasReply
  <2> QED
    BY <2>1, <2>2, <2>3, <2>4, <2>5, <2>6, <2>7, <2>8, <2>9 DEF Next, SessionStep
<1> QED
  BY <1>1, <1>2, Typing, PTL DEF Spec

-----------------------------------------------------------------------------
(* Prompt sessions and a prompt daemon: single claims.                      *)

\* A compare-and-swap that would still land finds its note pending.
SwapsArePending == \A s \in Session : at[s] = "claiming" /\ unchanged[s] => status[msg[s]] = "pending"

CallsInTime == \A s \in Session : at[s] \in {"reply", "handle", "release"} => lease[s] < TTL

\* Who works on a message holds its claim, and the two clocks agree.
WorkIsClaimed ==
  \A s \in Session, m \in Msg : Works(s, m) => status[m] = "in-flight" /\ age[m] = lease[s]

\* What a sweep will release has not been touched since it was listed.
SweepsExpired == \A m \in sweeping : status[m] = "in-flight" /\ age[m] = TTL

PromptInv == SwapsArePending /\ CallsInTime /\ WorkIsClaimed /\ SweepsExpired /\ SingleClaim

LEMMA LeasesTyped ==
  ASSUME TypeOK, NEW s \in Session PROVE lease[s] \in Nat /\ lease[s] <= TTL /\ TTL \in Nat
BY BoundAssumption DEF TypeOK

LEMMA AgesTyped ==
  ASSUME TypeOK, NEW m \in Msg PROVE age[m] \in Nat /\ age[m] <= TTL /\ TTL \in Nat
BY BoundAssumption DEF TypeOK

LEMMA OlderGrows ==
  ASSUME NEW a \in 0..TTL, Older(a) < TTL PROVE a < TTL
BY BoundAssumption DEF Older

\* A session at a call works on its message, and only it does.
LEMMA CallerWorks ==
  ASSUME TypeOK, PromptInv, NEW s \in Session, at[s] \in {"reply", "handle", "release"}
  PROVE  /\ msg[s] \in Msg /\ Works(s, msg[s])
         /\ status[msg[s]] = "in-flight" /\ age[msg[s]] = lease[s]
         /\ \A t \in Session : Works(t, msg[s]) => t = s
         /\ msg[s] \notin sweeping
<1>1. msg[s] \in Msg /\ Works(s, msg[s])
  BY DEF TypeOK, PromptInv, CallsInTime, Works, Holding
<1>2. status[msg[s]] = "in-flight" /\ age[msg[s]] = lease[s] /\ lease[s] < TTL
  BY <1>1 DEF PromptInv, WorkIsClaimed, Works
<1>3. msg[s] \notin sweeping
  BY <1>2, LeasesTyped DEF PromptInv, SweepsExpired
<1> QED
  BY <1>1, <1>2, <1>3 DEF PromptInv, SingleClaim

\* The notes are left alone, and nobody starts to work.
LEMMA NotesLeftAlone ==
  ASSUME TypeOK, PromptInv, UNCHANGED notes, UNCHANGED lease, sweeping' \subseteq sweeping,
         \A s \in Session, m \in Msg : Works(s, m)' => Works(s, m),
         SwapsArePending', CallsInTime'
  PROVE  PromptInv'
BY DEF PromptInv, WorkIsClaimed, SweepsExpired, SingleClaim, notes

\* One note gets another status, and nobody works on it then.
LEMMA NoteIsFreed ==
  ASSUME TypeOK, PromptInv, NEW m \in Msg, NEW st, SetStatus(m, st), UNCHANGED <<msg, lease>>,
         sweeping' \subseteq sweeping \ {m},
         \A s \in Session : ~Works(s, m)',
         \A s \in Session : at'[s] = at[s] \/ at'[s] = "idle"
  PROVE  PromptInv'
<1>1. \A n \in Msg \ {m} : status'[n] = status[n] /\ age'[n] = age[n]
  BY DEF SetStatus, TypeOK
<1>2. \A s \in Session, n \in Msg : Works(s, n)' => Works(s, n) /\ n # m
  BY DEF Works, Holding
<1>3. SwapsArePending'
  <2>1. \A s \in Session : unchanged'[s] => unchanged[s] /\ msg[s] # m
    BY DEF SetStatus
  <2>2. \A s \in Session : at[s] = "claiming" => msg[s] \in Msg
    BY DEF TypeOK
  <2> QED  BY <1>1, <2>1, <2>2 DEF SwapsArePending, PromptInv
<1>4. CallsInTime'
  BY DEF CallsInTime, PromptInv
<1>5. sweeping \subseteq Msg
  BY DEF TypeOK
<1> QED
  BY <1>1, <1>2, <1>3, <1>4, <1>5 DEF PromptInv, WorkIsClaimed, SweepsExpired, SingleClaim

LEMMA PromptStep ==
  ASSUME Prompt, TypeOK, TypeOK', PromptInv, [Next]_vars
  PROVE  PromptInv'
<1>c. SwapsArePending /\ CallsInTime /\ WorkIsClaimed /\ SweepsExpired /\ SingleClaim
  BY DEF PromptInv
<1>m. \A s \in Session : at[s] \notin {"idle", "listing"} => msg[s] \in Msg
  BY DEF TypeOK
<1>1. ASSUME NEW m \in Msg, Inbound(m) PROVE PromptInv'
  <2>1. status[m] = "absent" /\ status'[m] = "pending" /\ \A n \in Msg \ {m} : status'[n] = status[n]
    BY <1>1 DEF Inbound, TypeOK
  <2>2. UNCHANGED <<age, at, msg, unchanged, lease, sweeping>> /\ sweeping \subseteq Msg
    BY <1>1 DEF Inbound, TypeOK
  <2>3. \A s \in Session, n \in Msg : Works(s, n)' <=> Works(s, n)
    BY <2>2 DEF Works
  <2> QED
    BY <1>c, <1>m, <2>1, <2>2, <2>3
    DEF PromptInv, SwapsArePending, CallsInTime, WorkIsClaimed, SweepsExpired, SingleClaim
<1>2. ASSUME NEW m \in Msg, Swept(m) PROVE PromptInv'
  <2>1. m \in sweeping /\ sweeping' = sweeping \ {m} /\ SetStatus(m, "pending") /\ UNCHANGED <<at, msg, lease>>
    BY <1>2 DEF Swept
  <2>2. \A s \in Session : ~Works(s, m)'
    <3>1. \A s \in Session : ~Works(s, m)
      BY <1>c, <2>1, LeasesTyped DEF SweepsExpired, WorkIsClaimed, Works
    <3> QED  BY <3>1, <2>1 DEF Works
  <2> QED
    BY <2>1, <2>2, NoteIsFreed
<1>3. ASSUME NEW s \in Session, NextMessage(s) \/ Conflict(s) \/ Reply(s) \/ Release(s) \/ ReplyWritten(s) \/ Abandon(s)
      PROVE  PromptInv'
  <2>1. UNCHANGED <<notes, msg, lease, sweeping, unchanged>> /\ \A t \in Session \ {s} : at'[t] = at[t]
    BY <1>3 DEF NextMessage, Conflict, Reply, Release, Call, ReplyWritten, Abandon, Move, TypeOK
  <2>2. /\ at'[s] \in {"idle", "listing", "reply", "release", "handle"}
        /\ at'[s] \in {"reply", "release", "handle"} => at[s] \in {"holding", "reply"} /\ lease[s] < TTL
    BY <1>3, <1>c
    DEF NextMessage, Conflict, Reply, Release, Call, ReplyWritten, Abandon, Move, TypeOK, InTime, Prompt, CallsInTime
  <2>3. \A t \in Session, m \in Msg : Works(t, m)' => Works(t, m)
    BY <2>1, <2>2 DEF Works, Holding
  <2>4. SwapsArePending' /\ CallsInTime'
    BY <2>1, <2>2, <1>c DEF SwapsArePending, CallsInTime, notes
  <2> QED
    BY <2>1, <2>3, <2>4, NotesLeftAlone
<1>4. ASSUME NEW s \in Session, Listed(s) PROVE PromptInv'
  <2>1. UNCHANGED <<notes, lease, sweeping>> /\ \A t \in Session \ {s} : at'[t] = at[t] /\ msg'[t] = msg[t] /\ unchanged'[t] = unchanged[t]
    BY <1>4 DEF Listed, Move, TypeOK
  <2>2. at'[s] = "idle" \/ (at'[s] = "claiming" /\ msg'[s] \in Pending)
    BY <1>4 DEF Listed, Move, TypeOK
  <2>3. \A t \in Session, m \in Msg : Works(t, m)' => Works(t, m)
    BY <2>1, <2>2 DEF Works, Holding
  <2>4. SwapsArePending' /\ CallsInTime'
    BY <2>1, <2>2, <1>c DEF SwapsArePending, CallsInTime, notes, Pending
  <2> QED
    BY <2>1, <2>3, <2>4, NotesLeftAlone
<1>5. ASSUME NEW s \in Session, Claimed(s) PROVE PromptInv'
  <2> DEFINE m == msg[s]
  <2>1. /\ at[s] = "claiming" /\ unchanged[s] /\ m \in Msg /\ status[m] = "pending"
        /\ SetStatus(m, "in-flight") /\ UNCHANGED <<msg, sweeping>>
        /\ at'[s] = "holding" /\ lease'[s] = 0
        /\ \A t \in Session \ {s} : at'[t] = at[t] /\ lease'[t] = lease[t]
    BY <1>5, <1>c, <1>m DEF Claimed, Move, SwapsArePending, TypeOK
  <2>2. /\ status'[m] = "in-flight" /\ age'[m] = 0
        /\ \A n \in Msg \ {m} : status'[n] = status[n] /\ age'[n] = age[n]
        /\ \A t \in Session : unchanged'[t] => unchanged[t] /\ msg[t] # m
    BY <2>1 DEF SetStatus, TypeOK
  <2>3. \A t \in Session \ {s}, n \in Msg : Works(t, n)' => Works(t, n) /\ n # m
    BY <1>c, <2>1 DEF Works, WorkIsClaimed
  <2>4. \A n \in Msg : Works(s, n)' => n = m
    BY <2>1 DEF Works
  <2>5. m \notin sweeping /\ sweeping \subseteq Msg
    BY <1>c, <2>1 DEF SweepsExpired, TypeOK
  <2>6. SwapsArePending' /\ CallsInTime'
    BY <1>c, <1>m, <2>1, <2>2 DEF SwapsArePending, CallsInTime
  <2>7. WorkIsClaimed'
    BY <1>c, <2>1, <2>2, <2>3, <2>4 DEF WorkIsClaimed
  <2>8. SweepsExpired' /\ SingleClaim'
    BY <1>c, <2>1, <2>2, <2>3, <2>4, <2>5 DEF SweepsExpired, SingleClaim
  <2> QED
    BY <2>6, <2>7, <2>8 DEF PromptInv
<1>6. ASSUME NEW s \in Session, Handled(s) \/ Released(s) PROVE PromptInv'
  <2>1. /\ at[s] \in {"handle", "release"} /\ at' = [at EXCEPT ![s] = "idle"] /\ UNCHANGED <<msg, lease, sweeping>>
        /\ \E st \in {"handled", "pending"} : SetStatus(msg[s], st)
    BY <1>6 DEF Handled, Released, Move
  <2>2. msg[s] \in Msg /\ msg[s] \notin sweeping /\ \A t \in Session : Works(t, msg[s]) => t = s
    BY <2>1, CallerWorks
  <2>3. \A t \in Session : at'[t] = at[t] \/ at'[t] = "idle"
    BY <2>1 DEF TypeOK
  <2>4. \A t \in Session : ~Works(t, msg[s])'
    BY <2>1, <2>2 DEF Works, Holding, TypeOK
  <2> QED
    BY <2>1, <2>2, <2>3, <2>4, NoteIsFreed
<1>7. ASSUME Sweep PROVE PromptInv'
  BY <1>7, <1>c DEF Sweep, Expired, PromptInv, SwapsArePending, CallsInTime, WorkIsClaimed,
                    SweepsExpired, SingleClaim, Works, notes
<1>8. ASSUME Tick PROVE PromptInv'
  <2>1. /\ sweeping = {} /\ \A s \in Session : at[s] \notin Calling
        /\ UNCHANGED <<status, at, msg, unchanged, sweeping>>
    BY <1>8 DEF Tick, Prompt
  <2>2. ASSUME NEW s \in Session, NEW m \in Msg, Works(s, m)'
        PROVE  Works(s, m) /\ status'[m] = "in-flight" /\ age'[m] = lease'[s]
    <3>1. at[s] \in Holding /\ msg[s] = m /\ lease'[s] = Older(lease[s]) /\ lease'[s] < TTL
      BY <1>8, <2>1, <2>2 DEF Tick, Works
    <3>2. Works(s, m)
      BY <3>1, OlderGrows DEF Works, TypeOK
    <3>3. status[m] = "in-flight" /\ age[m] = lease[s]
      BY <3>2, <1>c DEF WorkIsClaimed
    <3> QED  BY <1>8, <3>1, <3>2, <3>3 DEF Tick
  <2> QED
    BY <1>c, <2>1, <2>2 DEF PromptInv, SwapsArePending, CallsInTime, WorkIsClaimed, SweepsExpired, SingleClaim, Calling
<1>9. ASSUME Restart PROVE PromptInv'
  <2>1. UNCHANGED <<notes, msg, unchanged, lease>> /\ sweeping' = {}
    BY <1>9 DEF Restart
  <2>2. \A s \in Session : at'[s] \notin Calling /\ (at'[s] \in Holding => at[s] \in Holding)
    BY <1>9 DEF Restart, Calling, Holding
  <2>3. \A s \in Session, m \in Msg : Works(s, m)' => Works(s, m)
    BY <2>1, <2>2 DEF Works
  <2>4. SwapsArePending' /\ CallsInTime'
    BY <2>2 DEF SwapsArePending, CallsInTime, Calling
  <2> QED
    BY <2>1, <2>3, <2>4, NotesLeftAlone
<1>10. CASE UNCHANGED vars
  BY <1>10 DEF vars, notes, PromptInv, SwapsArePending, CallsInTime, WorkIsClaimed, SweepsExpired,
               SingleClaim, Works
<1> QED
  BY <1>1, <1>2, <1>3, <1>4, <1>5, <1>6, <1>7, <1>8, <1>9, <1>10
  DEF Next, SessionStep, ClaimFails, CallFails, SweepFails, Prompt

LEMMA PromptInit == Init => PromptInv
BY DEF Init, PromptInv, SwapsArePending, CallsInTime, WorkIsClaimed, SweepsExpired, SingleClaim,
       Works, Holding

\* However the claims, the sweep and the restarts of prompt parties interleave,
\* two sessions never work on one message.
THEOREM ClaimsAreSingle == ASSUME Prompt PROVE Spec => []SingleClaim
<1>1. TypeOK /\ TypeOK' /\ PromptInv /\ [Next]_vars => PromptInv'
  BY PromptStep
<1>2. PromptInv => SingleClaim
  BY DEF PromptInv
<1> QED
  BY <1>1, <1>2, PromptInit, Typing, PTL DEF Spec

-----------------------------------------------------------------------------
(* ... and one reply each.                                                  *)

\* A reply is there because its message is handled, or about to be.
RepliesAccounted ==
  \A m \in Msg : outbound[m] > 0 =>
    status[m] = "handled" \/ \E s \in Session : at[s] = "handle" /\ msg[s] = m

\* A step that writes no reply and unmarks none.
LEMMA RepliesLeftAlone ==
  ASSUME TypeOK, RepliesAccounted, AnsweredOnce, UNCHANGED outbound,
         \A m \in Msg : status[m] = "handled" => status'[m] = "handled",
         \A s \in Session : at[s] = "handle" =>
            (at'[s] = "handle" /\ msg'[s] = msg[s]) \/ status'[msg[s]] = "handled"
  PROVE  RepliesAccounted' /\ AnsweredOnce'
BY DEF RepliesAccounted, AnsweredOnce

LEMMA AnswersStep ==
  ASSUME Prompt, ~CanRestart, TypeOK, TypeOK', PromptInv, RepliesAccounted, AnsweredOnce, [Next]_vars
  PROVE  RepliesAccounted' /\ AnsweredOnce'
<1>c. SwapsArePending /\ SweepsExpired
  BY DEF PromptInv
<1>m. \A s \in Session : at[s] \notin {"idle", "listing"} => msg[s] \in Msg
  BY DEF TypeOK
<1>1. ASSUME NEW m \in Msg, Inbound(m) \/ Swept(m) PROVE RepliesAccounted' /\ AnsweredOnce'
  <2>1. UNCHANGED <<at, msg, outbound>> /\ \A n \in Msg : status[n] = "handled" => status'[n] = "handled"
    BY <1>1, <1>c DEF Inbound, Swept, SetStatus, SweepsExpired, TypeOK
  <2> QED  BY <2>1, RepliesLeftAlone
<1>2. ASSUME NEW s \in Session,
             NextMessage(s) \/ Listed(s) \/ Conflict(s) \/ Reply(s) \/ Release(s) \/ Abandon(s)
      PROVE  RepliesAccounted' /\ AnsweredOnce'
  <2>1. /\ UNCHANGED <<status, outbound>>
        /\ \A t \in Session : at[t] = "handle" => at'[t] = "handle" /\ msg'[t] = msg[t]
    BY <1>2 DEF NextMessage, Listed, Conflict, Reply, Release, Call, Abandon, Move, notes, TypeOK
  <2> QED  BY <2>1, RepliesLeftAlone
<1>3. ASSUME NEW s \in Session, Claimed(s) \/ Released(s) PROVE RepliesAccounted' /\ AnsweredOnce'
  <2>1. msg[s] \in Msg /\ status[msg[s]] # "handled"
    BY <1>3, <1>c, <1>m, CallerWorks DEF Claimed, Released, SwapsArePending
  <2>2. /\ UNCHANGED <<msg, outbound>>
        /\ \A t \in Session : at[t] = "handle" => at'[t] = "handle"
        /\ \A n \in Msg \ {msg[s]} : status'[n] = status[n]
    BY <1>3 DEF Claimed, Released, SetStatus, Move, TypeOK
  <2> QED  BY <2>1, <2>2, RepliesLeftAlone
<1>4. ASSUME NEW s \in Session, ReplyWritten(s) PROVE RepliesAccounted' /\ AnsweredOnce'
  <2> DEFINE m == msg[s]
  <2>1. at[s] = "reply" /\ at'[s] = "handle" /\ UNCHANGED <<status, msg>>
        /\ \A t \in Session \ {s} : at'[t] = at[t]
    BY <1>4 DEF ReplyWritten, Move, notes, TypeOK
  <2>2. /\ m \in Msg /\ status[m] = "in-flight"
        /\ \A t \in Session : Works(t, m) => t = s
    BY <2>1, CallerWorks
  <2>3. \A t \in Session : ~(at[t] = "handle" /\ msg[t] = m)
    BY <2>1, <2>2, CallerWorks
  <2>4. outbound[m] = 0
    BY <2>2, <2>3 DEF RepliesAccounted, TypeOK
  <2>5. outbound'[m] = 1 /\ \A n \in Msg \ {m} : outbound'[n] = outbound[n]
    BY <1>4, <2>2, <2>4 DEF ReplyWritten, Sent, TypeOK
  <2>6. RepliesAccounted'
    BY <2>1, <2>5 DEF RepliesAccounted
  <2>7. AnsweredOnce'
    BY <2>5 DEF AnsweredOnce
  <2> QED  BY <2>6, <2>7
<1>5. ASSUME NEW s \in Session, Handled(s) PROVE RepliesAccounted' /\ AnsweredOnce'
  <2>1. /\ at[s] = "handle" /\ UNCHANGED <<msg, outbound>>
        /\ \A t \in Session \ {s} : at'[t] = at[t]
        /\ SetStatus(msg[s], "handled")
    BY <1>5 DEF Handled, Move, TypeOK
  <2>2. msg[s] \in Msg /\ status'[msg[s]] = "handled" /\ \A n \in Msg \ {msg[s]} : status'[n] = status[n]
    BY <2>1, <1>m DEF SetStatus, TypeOK
  <2> QED  BY <2>1, <2>2, RepliesLeftAlone
<1>6. ASSUME Sweep \/ Tick \/ UNCHANGED vars PROVE RepliesAccounted' /\ AnsweredOnce'
  BY <1>6 DEF Sweep, Tick, vars, notes, RepliesAccounted, AnsweredOnce
<1> QED
  BY <1>1, <1>2, <1>3, <1>4, <1>5, <1>6
  DEF Next, SessionStep, ClaimFails, CallFails, SweepFails, Restart, Prompt

\* Prompt parties, and a daemon that does not restart between the reply and
\* the mark, answer a message once.
THEOREM RepliesAreSingle == ASSUME Prompt, ~CanRestart PROVE Spec => []AnsweredOnce
<1>1. Init => RepliesAccounted /\ AnsweredOnce
  BY DEF Init, RepliesAccounted, AnsweredOnce
<1>2. TypeOK /\ TypeOK' /\ PromptInv /\ RepliesAccounted /\ AnsweredOnce /\ [Next]_vars => RepliesAccounted' /\ AnsweredOnce'
  BY AnswersStep
<1>3. TypeOK /\ TypeOK' /\ PromptInv /\ [Next]_vars => PromptInv'
  BY PromptStep
<1> QED
  BY <1>1, <1>2, <1>3, PromptInit, Typing, PTL DEF Spec

-----------------------------------------------------------------------------
(* The notes and the claims implement the work queue.                       *)

\* What the work queue says of a message that nobody works on.
Unowned(m) ==
  IF status[m] = "absent" THEN "absent" ELSE IF status[m] = "handled" THEN "done" ELSE "open"

OwnersTold ==
  /\ Owner = [m \in Msg |-> Owner[m]]
  /\ \A m \in Msg, s \in Session : Works(s, m) => Owner[m] = s
  /\ \A m \in Msg : (\A s \in Session : ~Works(s, m)) => Owner[m] = Unowned(m)

LEMMA OwnerIs == TypeOK /\ PromptInv => OwnersTold
<1> SUFFICES ASSUME TypeOK, PromptInv PROVE OwnersTold
  OBVIOUS
<1>1. ASSUME NEW m \in Msg, NEW s \in Session, Works(s, m) PROVE Owner[m] = s
  <2>1. status[m] = "in-flight" /\ \A t \in Session : Works(t, m) => t = s
    BY <1>1 DEF PromptInv, WorkIsClaimed, SingleClaim
  <2>2. Owner[m] = CHOOSE t \in Session : Works(t, m)
    BY <1>1, <2>1 DEF Owner
  <2> QED  BY <1>1, <2>1, <2>2
<1>2. ASSUME NEW m \in Msg, \A s \in Session : ~Works(s, m) PROVE Owner[m] = Unowned(m)
  <2>1. status[m] \in {"absent", "pending", "in-flight", "handled"}
    BY DEF TypeOK
  <2> QED  BY <1>2, <2>1 DEF Owner, Unowned
<1> QED
  BY <1>1, <1>2 DEF Owner, OwnersTold

LEMMA OwnersNow == TypeOK' /\ PromptInv' => OwnersTold'
BY OwnerIs, PTL

\* A message of which nothing changes that an owner depends on.
LEMMA SameOwner ==
  ASSUME OwnersTold, OwnersTold', NEW n \in Msg, Unowned(n)' = Unowned(n),
         \A s \in Session : Works(s, n)' <=> Works(s, n)
  PROVE  Owner'[n] = Owner[n]
<1>1. CASE \E s \in Session : Works(s, n)
  BY <1>1 DEF OwnersTold
<1>2. CASE \A s \in Session : ~Works(s, n)
  BY <1>2 DEF OwnersTold
<1> QED
  BY <1>1, <1>2

\* Owners that change at most at one message.
LEMMA OwnerMoves ==
  ASSUME OwnersTold, OwnersTold', NEW m \in Msg, NEW o, Owner'[m] = o,
         \A n \in Msg \ {m} : Unowned(n)' = Unowned(n),
         \A s \in Session, n \in Msg \ {m} : Works(s, n)' <=> Works(s, n)
  PROVE  Owner' = [Owner EXCEPT ![m] = o]
<1>1. \A n \in Msg \ {m} : Owner'[n] = Owner[n]
  BY SameOwner
<1> QED
  BY <1>1 DEF OwnersTold

\* Of a message that is set to a status, no other message notices anything.
LEMMA StatusAlone ==
  ASSUME TypeOK, NEW m \in Msg, NEW st, SetStatus(m, st)
  PROVE  status'[m] = st /\ \A n \in Msg \ {m} : Unowned(n)' = Unowned(n)
BY DEF SetStatus, TypeOK, Unowned

LEMMA QueueStep ==
  ASSUME Prompt, TypeOK, TypeOK', PromptInv, PromptInv', [Next]_vars
  PROVE  [Queue!Next]_Owner
<1>o. OwnersTold /\ OwnersTold'
  BY OwnerIs, OwnersNow
<1>m. \A s \in Session : at[s] \notin {"idle", "listing"} => msg[s] \in Msg
  BY DEF TypeOK
<1>s. (\A n \in Msg : Unowned(n)' = Unowned(n) /\ \A s \in Session : Works(s, n)' <=> Works(s, n)) => UNCHANGED Owner
  BY <1>o, SameOwner DEF OwnersTold
<1>1. ASSUME NEW m \in Msg, Inbound(m) PROVE Queue!Post(m)
  <2>1. status[m] = "absent" /\ status'[m] = "pending" /\ \A n \in Msg \ {m} : status'[n] = status[n]
    BY <1>1 DEF Inbound, TypeOK
  <2>2. \A s \in Session, n \in Msg : Works(s, n)' <=> Works(s, n)
    BY <1>1 DEF Inbound, Works
  <2>3. \A s \in Session : ~Works(s, m)
    BY <2>1 DEF PromptInv, WorkIsClaimed
  <2>4. Owner[m] = "absent" /\ Owner'[m] = "open"
    BY <2>1, <2>2, <2>3, <1>o DEF OwnersTold, Unowned
  <2>5. Owner' = [Owner EXCEPT ![m] = "open"]
    BY <2>1, <2>2, <2>4, <1>o, OwnerMoves DEF Unowned
  <2> QED  BY <2>4, <2>5 DEF Queue!Post
<1>2. ASSUME NEW m \in Msg, Swept(m) PROVE UNCHANGED Owner
  <2>1. m \in sweeping /\ SetStatus(m, "pending") /\ UNCHANGED <<at, msg, lease>>
    BY <1>2 DEF Swept
  <2>2. \A n \in Msg, s \in Session : Works(s, n)' <=> Works(s, n)
    BY <2>1 DEF Works
  <2>3. Unowned(m)' = Unowned(m)
    BY <2>1, StatusAlone DEF PromptInv, SweepsExpired, Unowned
  <2> QED  BY <2>1, <2>2, <2>3, <1>s, StatusAlone
<1>3. ASSUME NEW s \in Session, NextMessage(s) \/ Listed(s) \/ Conflict(s) \/ Reply(s) \/ Release(s) \/ ReplyWritten(s)
      PROVE  UNCHANGED Owner
  <2>1. UNCHANGED <<status, lease>> /\ \A t \in Session \ {s} : at'[t] = at[t] /\ msg'[t] = msg[t]
    BY <1>3 DEF NextMessage, Listed, Conflict, Reply, Release, Call, ReplyWritten, Move, notes, TypeOK
  <2>2. \/ at[s] \notin Holding /\ at'[s] \notin Holding
        \/ at[s] \in Holding /\ at'[s] \in Holding /\ msg'[s] = msg[s]
    BY <1>3
    DEF NextMessage, Listed, Conflict, Reply, Release, Call, ReplyWritten, Move, notes, TypeOK, Holding
  <2>3. \A n \in Msg, t \in Session : Works(t, n)' <=> Works(t, n)
    BY <2>1, <2>2 DEF Works
  <2> QED  BY <2>1, <2>3, <1>s DEF Unowned
<1>4. ASSUME NEW s \in Session, Claimed(s) PROVE Queue!Take(s, msg[s])
  <2> DEFINE m == msg[s]
  <2>1. /\ at[s] = "claiming" /\ unchanged[s] /\ m \in Msg /\ status[m] = "pending"
        /\ SetStatus(m, "in-flight") /\ UNCHANGED msg
        /\ at'[s] = "holding" /\ lease'[s] = 0
        /\ \A t \in Session \ {s} : at'[t] = at[t] /\ lease'[t] = lease[t]
    BY <1>4, <1>m DEF Claimed, Move, PromptInv, SwapsArePending, TypeOK
  <2>2. Works(s, m)' /\ \A t \in Session : ~Works(t, m)
    BY <2>1, BoundAssumption DEF Works, Holding, PromptInv, WorkIsClaimed
  <2>3. Owner[m] = "open" /\ Owner'[m] = s
    BY <2>1, <2>2, <1>o DEF OwnersTold, Unowned
  <2>4. \A t \in Session, n \in Msg \ {m} : Works(t, n)' <=> Works(t, n)
    BY <2>1 DEF Works
  <2>5. Owner' = [Owner EXCEPT ![m] = s]
    BY <2>1, <2>3, <2>4, <1>o, StatusAlone, OwnerMoves
  <2> QED  BY <2>3, <2>5 DEF Queue!Take
<1>5. ASSUME NEW s \in Session, Handled(s) \/ Released(s) \/ Abandon(s)
      PROVE  Queue!Finish(s, msg[s]) \/ Queue!Lapse({msg[s]}) \/ UNCHANGED Owner
  <2> DEFINE m == msg[s]
  <2>1. at'[s] = "idle" /\ UNCHANGED <<msg, lease>> /\ \A t \in Session \ {s} : at'[t] = at[t]
    BY <1>5 DEF Handled, Released, Abandon, Move, TypeOK
  <2>2. m \in Msg /\ at[s] \in Holding
    BY <1>5, <1>m DEF Handled, Released, Abandon, Holding
  <2>3. \A t \in Session, n \in Msg \ {m} : Works(t, n)' <=> Works(t, n)
    BY <2>1 DEF Works, Holding
  <2>4. CASE Works(s, m)
    <3>1. Owner[m] = s
      BY <2>2, <2>4, <1>o DEF OwnersTold
    <3>2. \A t \in Session : ~Works(t, m)'
      BY <2>1, <2>2, <2>4 DEF PromptInv, SingleClaim, Works, Holding
    <3>3. Owner'[m] = Unowned(m)'
      BY <2>1, <2>2, <3>2, <1>o DEF OwnersTold
    <3>4. \A n \in Msg \ {m} : Unowned(n)' = Unowned(n)
      BY <1>5, <2>2, StatusAlone DEF Handled, Released, Abandon, notes, Unowned
    <3>5. Owner' = [Owner EXCEPT ![m] = Unowned(m)']
      BY <2>2, <2>3, <3>3, <3>4, <1>o, OwnerMoves
    <3>6. status'[m] \in {"handled", "pending", "in-flight"} /\ (status'[m] = "handled" \/ Unowned(m)' = "open")
      BY <1>5, <2>2, <2>4, StatusAlone
      DEF Handled, Released, Abandon, notes, PromptInv, WorkIsClaimed, Unowned
    <3>7. CASE status'[m] = "handled"
      BY <2>1, <3>1, <3>5, <3>7 DEF Queue!Finish, Unowned
    <3>8. CASE Unowned(m)' = "open"
      <4>1. Owner' = [n \in Msg |-> IF n \in {m} THEN "open" ELSE Owner[n]]
        BY <2>2, <3>5, <3>8, <1>o DEF OwnersTold
      <4> QED  BY <3>1, <4>1 DEF Queue!Lapse
    <3> QED  BY <3>6, <3>7, <3>8
  <2>5. CASE ~Works(s, m)
    <3>1. UNCHANGED status
      BY <1>5, <2>5, CallerWorks DEF Handled, Released, Abandon, notes
    <3>2. \A t \in Session, n \in Msg : Works(t, n)' <=> Works(t, n)
      BY <2>1, <2>3, <2>5 DEF Works, Holding
    <3> QED  BY <3>1, <3>2, <1>s DEF Unowned
  <2> QED  BY <2>4, <2>5
<1>6. ASSUME Tick PROVE \E M \in SUBSET Msg : Queue!Lapse(M)
  <2> DEFINE M == {m \in Msg : (\E s \in Session : Works(s, m)) /\ \A s \in Session : ~Works(s, m)'}
  <2>1. /\ UNCHANGED <<status, at, msg>>
        /\ \A s \in Session : at[s] \in Holding => lease'[s] = Older(lease[s])
    BY <1>6 DEF Tick
  <2>2. \A s \in Session, n \in Msg : Works(s, n)' => Works(s, n)
    BY <2>1, OlderGrows DEF Works, TypeOK
  <2>3. ASSUME NEW n \in M PROVE Owner[n] \in Session /\ Owner'[n] = "open"
    <3>1. PICK s \in Session : Works(s, n)
      OBVIOUS
    <3>2. status'[n] = "in-flight" /\ n \in Msg
      BY <2>1, <3>1 DEF PromptInv, WorkIsClaimed
    <3> QED  BY <3>1, <3>2, <1>o DEF OwnersTold, Unowned
  <2>4. ASSUME NEW n \in Msg \ M PROVE Owner'[n] = Owner[n]
    <3>1. CASE \E s \in Session : Works(s, n)'
      <4>1. PICK s \in Session : Works(s, n)'
        BY <3>1
      <4> QED  BY <4>1, <2>2, <1>o DEF OwnersTold
    <3>2. CASE \A s \in Session : ~Works(s, n)'
      <4>1. \A s \in Session : ~Works(s, n)
        BY <3>2
      <4>2. Unowned(n)' = Unowned(n)
        BY <2>1 DEF Unowned
      <4> QED  BY <3>2, <4>1, <4>2, <1>o DEF OwnersTold
    <3> QED  BY <3>1, <3>2
  <2>5. Owner' = [n \in Msg |-> IF n \in M THEN "open" ELSE Owner[n]]
    <3> HIDE DEF M
    <3> QED  BY <2>3, <2>4, <1>o DEF OwnersTold
  <2>6. M \in SUBSET Msg
    OBVIOUS
  <2> HIDE DEF M
  <2> QED  BY <2>3, <2>5, <2>6 DEF Queue!Lapse
<1>7. ASSUME Restart PROVE UNCHANGED Owner
  <2>1. UNCHANGED <<status, msg, lease>> /\ \A s \in Session : at'[s] \in Holding <=> at[s] \in Holding
    BY <1>7 DEF Restart, notes, Calling, Holding
  <2> QED  BY <2>1, <1>s DEF Works, Unowned
<1>8. ASSUME Sweep \/ UNCHANGED vars PROVE UNCHANGED Owner
  BY <1>8, <1>s DEF Sweep, vars, notes, Works, Unowned
<1> QED
  BY <1>m, <1>1, <1>2, <1>3, <1>4, <1>5, <1>6, <1>7, <1>8
  DEF Next, SessionStep, ClaimFails, CallFails, SweepFails, Prompt, Queue!Next,
      Claimed, Handled, Released, Abandon

\* The queue of prompt sessions is a work queue: a message is taken by one
\* session at a time, finished by the one that has taken it, and then done.
THEOREM QueueRefinesWorkQueue == ASSUME Prompt PROVE Spec => ImplementsWorkQueue
<1>1. Init => Queue!Init
  BY DEF Init, Queue!Init, Owner
<1>2. TypeOK /\ TypeOK' /\ PromptInv /\ PromptInv' /\ [Next]_vars => [Queue!Next]_Owner
  BY QueueStep
<1>3. TypeOK /\ TypeOK' /\ PromptInv /\ [Next]_vars => PromptInv'
  BY PromptStep
<1> QED
  BY <1>1, <1>2, <1>3, PromptInit, Typing, PTL DEF Spec, ImplementsWorkQueue, Queue!Spec

-----------------------------------------------------------------------------
(* The environments of the runs, for any number of messages and sessions.   *)

QueueInv == TypeOK /\ PromptInv /\ RepliesAccounted /\ AnsweredOnce

\* Where no call fails, no session is late and the daemon stays up, every step
\* of the sessions, of the sweep and of the clock is a step of the work queue
\* or changes nobody's ownership, two sessions never work on one message, and
\* no message is answered twice.
THEOREM PromptQueueIsAQueue ==
  ASSUME Prompt, ~CanRestart PROVE MCSpec => PromptImplementsWorkQueue
<1> DEFINE I == env = "prompt" => QueueInv
<1>1. MCInit => I /\ (env = "prompt" => Queue!Init)
  <2>1. Init => RepliesAccounted /\ AnsweredOnce /\ Queue!Init
    BY DEF Init, RepliesAccounted, AnsweredOnce, Queue!Init, Owner
  <2> QED  BY <2>1, InitTyped, PromptInit DEF MCInit, QueueInv
<1>2. I /\ [MCNext]_<<vars, env>> =>
        /\ I'
        /\ (env = "prompt" => SingleClaim' /\ AnsweredOnce')
        /\ [env = "prompt" => Queue!Next]_<<Owner, env>>
  <2>1. ASSUME QueueInv, [Next]_vars
        PROVE  QueueInv' /\ SingleClaim' /\ AnsweredOnce' /\ (Queue!Next \/ Owner' = Owner)
    <3>1. TypeOK /\ PromptInv /\ RepliesAccounted /\ AnsweredOnce
      BY <2>1 DEF QueueInv
    <3>2. TypeOK'
      BY <2>1, <3>1, StepTyped
    <3>3. PromptInv'
      BY <2>1, <3>1, <3>2, PromptStep
    <3>4. SingleClaim'
      BY <3>3 DEF PromptInv
    <3>5. RepliesAccounted' /\ AnsweredOnce'
      BY <2>1, <3>1, <3>2, AnswersStep
    <3>6. [Queue!Next]_Owner
      BY <2>1, <3>1, <3>2, <3>3, QueueStep
    <3> QED  BY <3>2, <3>3, <3>4, <3>5, <3>6 DEF QueueInv
  <2>2. [MCNext]_<<vars, env>> => env' = env /\ (env = "prompt" => [Next]_vars)
    BY DEF MCNext, In
  <2>3. CASE env = "prompt"
    BY <2>1, <2>2, <2>3
  <2>4. CASE env # "prompt"
    BY <2>2, <2>4
  <2> QED  BY <2>3, <2>4
<1> QED
  BY <1>1, <1>2, PTL DEF MCSpec, PromptImplementsWorkQueue
=============================================================================
