----------------------------- MODULE Delegation -----------------------------
(***************************************************************************)
(* Agents that delegate to one another.  A request is an inbound note that *)
(* claude itself writes to the other agent's channel, naming the channel   *)
(* to answer to; when its turn ends, the daemon writes a callback, which   *)
(* is an inbound note again and wakes the one who asked                    *)
(* (callbackFieldsFromMeta and buildWriteCallback of daemon.ts,            *)
(* maybeDeliverCallback of backends/registry.ts, writeInbound and          *)
(* writeCallback of transports/vault.ts).                                  *)
(*                                                                         *)
(* The vault calls the daemon for each note, in any order and until a 200  *)
(* reaches it; the daemon drops what its filter has seen.  Since the filter*)
(* is short and in memory, one note may still be handed on again and have  *)
(* another turn: turns are numbered by the arrivals they are about.  claude*)
(* writes what it likes, writes of callbacks fail and the daemon restarts. *)
(* Module Inbound has the webhook in full, Turn one turn, TurnQueue the    *)
(* queue.                                                                  *)
(*                                                                         *)
(* CallbackMayBeAnswered is a faulty variant of the definition after it.   *)
(***************************************************************************)
EXTENDS InboundFilter

CONSTANTS
  Partner,         \* the channels, each with its programmatic agent
  Elsewhere,       \* a reply_to that no vault transport serves
  Nowhere,         \* no reply_to
  Garbage,         \* a delegation_depth that is no number
  MAX_DELEGATION_DEPTH,
  MaxSends,        \* bound: notes of persons and jobs
  MaxRequests,     \* bound: requests of agents
  MaxOutages,      \* bound: restarts of the daemon
  MaxLost          \* bound: answers to the vault that are lost

ASSUME DelegationAssumption ==
  /\ {MAX_DELEGATION_DEPTH, MaxSends, MaxRequests, MaxOutages, MaxLost} \subseteq Nat
  /\ Garbage \notin Nat /\ {Elsewhere, Nowhere} \cap Partner = {}

VARIABLES
  inbound,   \* the inbound notes of the vault, in the order they were written
  untold,    \* notes the vault has no 200 for, and posts
  arrivals,  \* history: the notes handed on, as [note, life], in this order
  inbox,     \* per agent: the queue of its notes, by their arrivals
  working,   \* per agent: the arrival its turn is about, or 0
  outcome,   \* turns that have ended, as [of, status, written]
  lost,      \* answers that did not reach the vault
  outages    \* restarts: the life the daemon is in

delegationVars == <<inbound, untold, arrivals, inbox, working, outcome, lost, outages>>

DelegationInit ==
  /\ FilterInit
  /\ inbound = <<>> /\ untold = {} /\ arrivals = <<>> /\ outcome = {}
  /\ lost = 0 /\ outages = 0
  /\ inbox = [a \in Partner |-> <<>>] /\ working = [a \in Partner |-> 0]

-----------------------------------------------------------------------------
(* Notes.  cause is the turn in which, or after which, a note was written,  *)
(* callbacks the number of callbacks on the way to it, and a note is loyal  *)
(* as long as every request before it passed on the depth of the turn that  *)
(* wrote it.                                                                *)

Written(kind) == Cardinality({n \in DOMAIN inbound : inbound[n].kind = kind})
Asked(t) == inbound[arrivals[t].note]    \* the note that turn t is about

\* writeInbound; the trigger of the vault will tell the daemon.
writeInbound(note) ==
  /\ inbound' = Append(inbound, note)
  /\ untold' = untold \cup {Len(inbound')}

\* What the daemon reads: anything but a positive number is depth 0.
callbackFieldsFromMeta(t) ==
  [replyTo |-> Asked(t).reply_to, correlationId |-> Asked(t).correlation_id,
   delegationDepth |-> IF Asked(t).delegation_depth = Garbage THEN 0
                       ELSE Asked(t).delegation_depth]

\* The chat's send, or a job's: no callback is asked for.
Send(a) ==
  /\ Written("message") < MaxSends
  /\ writeInbound([kind |-> "message", to |-> a, reply_to |-> Nowhere, correlation_id |-> 0,
                   delegation_depth |-> 0, status |-> "", source_channel |-> Nowhere,
                   cause |-> 0, callbacks |-> 0, loyal |-> TRUE])
  /\ UNCHANGED <<arrivals, inbox, working, outcome, lost, outages>> /\ UNCHANGED filterVars

\* In its turn claude writes a request: it passes the depth on or does not, and
\* asks for the answer to its own channel or gets that wrong.
Delegate(a, to, replyTo, depth) ==
  LET t == working[a] IN
  /\ t # 0 /\ Written("request") < MaxRequests
  /\ writeInbound([kind |-> "request", to |-> to, reply_to |-> replyTo,
                   correlation_id |-> Len(inbound) + 1, delegation_depth |-> depth,
                   status |-> "", source_channel |-> Nowhere, cause |-> t,
                   callbacks |-> Asked(t).callbacks,
                   loyal |-> /\ Asked(t).loyal
                             /\ depth = callbackFieldsFromMeta(t).delegationDepth])
  /\ UNCHANGED <<arrivals, inbox, working, outcome, lost, outages>> /\ UNCHANGED filterVars

\* The answer 200 reaches the vault, or is lost and the vault will post again.
Acknowledged(n) ==
  \/ untold' = untold \ {n} /\ UNCHANGED lost
  \/ lost < MaxLost /\ lost' = lost + 1 /\ UNCHANGED untold

\* The webhook: a note that the filter has seen is only acknowledged, another is
\* marked and handed to ingestInbound, which emits it to the agent's queue.
Arrive(n) ==
  /\ n \in untold /\ Acknowledged(n)
  /\ IF Seen(n) THEN UNCHANGED <<arrivals, inbox>> /\ UNCHANGED filterVars
     ELSE /\ MarkSeen(n)
          /\ arrivals' = Append(arrivals, [note |-> n, life |-> outages])
          /\ inbox' = [inbox EXCEPT ![inbound[n].to] = Append(@, Len(arrivals) + 1)]
  /\ UNCHANGED <<inbound, working, outcome, outages>>

-----------------------------------------------------------------------------
(* Turns.                                                                  *)

BeginTurn(a) ==
  /\ working[a] = 0 /\ inbox[a] # <<>>
  /\ working' = [working EXCEPT ![a] = Head(inbox[a])]
  /\ inbox' = [inbox EXCEPT ![a] = Tail(@)]
  /\ UNCHANGED <<inbound, untold, arrivals, outcome, lost, outages>> /\ UNCHANGED filterVars

\* The guards of maybeDeliverCallback, and of buildWriteCallback.
CallsBack(fields) ==
  /\ fields.replyTo \in Partner
  /\ fields.delegationDepth < MAX_DELEGATION_DEPTH

CallbackOf(t, status) ==
  [kind |-> "callback", to |-> Asked(t).reply_to, reply_to |-> Nowhere,
   correlation_id |-> callbackFieldsFromMeta(t).correlationId,
   delegation_depth |-> callbackFieldsFromMeta(t).delegationDepth + 1,
   status |-> status, source_channel |-> Asked(t).to,
   cause |-> t, callbacks |-> Asked(t).callbacks + 1, loyal |-> Asked(t).loyal]

CallbackMayBeAnswered(t, status) ==
  writeInbound([CallbackOf(t, status) EXCEPT !.reply_to = Asked(t).to])

\* A callback carries no reply_to.
writeCallback(t, status) == writeInbound(CallbackOf(t, status))

\* The turn ends, well or not, and the one who asked is told, or the note of the
\* callback is not written; a written one whose answer is lost is no other case,
\* for the daemon writes once and only logs what failed.
Finish(a, status, fails) ==
  LET t == working[a]
      told == CallsBack(callbackFieldsFromMeta(t)) /\ ~fails
  IN
  /\ t # 0
  /\ working' = [working EXCEPT ![a] = 0]
  /\ outcome' = outcome \cup {[of |-> t, status |-> status, written |-> ~fails]}
  /\ IF told THEN writeCallback(t, status) ELSE UNCHANGED <<inbound, untold>>
  /\ UNCHANGED <<arrivals, inbox, lost, outages>> /\ UNCHANGED filterVars

\* Queues, turns and the filter are lost; what the vault is still to post is not.
Outage ==
  /\ outages < MaxOutages /\ outages' = outages + 1
  /\ inbox' = [a \in Partner |-> <<>>] /\ working' = [a \in Partner |-> 0]
  /\ FilterEmptied
  /\ UNCHANGED <<inbound, untold, arrivals, outcome, lost>>

Passed(a) == callbackFieldsFromMeta(working[a]).delegationDepth
DelegationNext ==
  \/ \E a \in Partner : Send(a) \/ BeginTurn(a)
  \/ \E a, to \in Partner :
       \E r \in {a, Elsewhere}, d \in {Garbage} \cup IF working[a] # 0 THEN {Passed(a)} ELSE {} :
         Delegate(a, to, r, d)
  \/ \E n \in untold : Arrive(n)
  \/ \E a \in Partner, s \in {"ok", "error"}, f \in BOOLEAN : Finish(a, s, f)
  \/ Outage

DelegationSpec == DelegationInit /\ [][DelegationNext]_<<filterVars, delegationVars>>

-----------------------------------------------------------------------------
(* Properties.                                                              *)

IsCallback(n) == inbound[n].kind = "callback"

\* A callback goes to the one who asked, for a turn about the request that has
\* ended so, and says which; a turn has one callback at most, and none is itself
\* answered.
CallbacksAnswerRequests ==
  \A c \in DOMAIN inbound : IsCallback(c) =>
    LET t == inbound[c].cause IN
    /\ Asked(t).kind = "request"
    /\ inbound[c].to = Asked(t).reply_to /\ inbound[c].source_channel = Asked(t).to
    /\ inbound[c].correlation_id = Asked(t).correlation_id
    /\ [of |-> t, status |-> inbound[c].status, written |-> TRUE] \in outcome
    /\ \A d \in DOMAIN inbound : IsCallback(d) /\ inbound[d].cause = t => d = c

\* A request is run, and called back, again only if the daemon has restarted
\* since, or has seen as many other notes as the filter remembers.
AgainOnlyIfForgotten ==
  \A t, u \in DOMAIN arrivals : t < u /\ arrivals[t].note = arrivals[u].note =>
    arrivals[t].life # arrivals[u].life
    \/ Cardinality({arrivals[k].note : k \in t + 1 .. u - 1}) >= SEEN_INBOUND_CAP

\* A chain of delegations that passes its depth on is answered up to the
\* ceiling, and never beyond.
ChainsAreBounded ==
  /\ \A n \in DOMAIN inbound : inbound[n].loyal => inbound[n].callbacks <= MAX_DELEGATION_DEPTH
  /\ \A o \in outcome :
       LET r == Asked(o.of) IN
       /\ r.kind = "request" /\ r.reply_to \in Partner /\ o.written
       /\ r.loyal /\ r.callbacks < MAX_DELEGATION_DEPTH
       => \E c \in DOMAIN inbound : IsCallback(c) /\ inbound[c].cause = o.of

DelegationsAnswered == CallbacksAnswerRequests /\ AgainOnlyIfForgotten /\ ChainsAreBounded

\* Said in registry.ts of the depth: it bounds any chain.  Not so: a request
\* does not count, and claude may leave the depth out.
AnyChainIsBounded == \A n \in DOMAIN inbound : inbound[n].callbacks <= MAX_DELEGATION_DEPTH

\* Said in daemon.ts of the filter: a duplicate delivery does not wake twice.  Not
\* so after a restart, or past the cap: a request is answered by two callbacks.
AnsweredAtMostOnce ==
  \A c, d \in DOMAIN inbound :
    IsCallback(c) /\ IsCallback(d)
    /\ arrivals[inbound[c].cause].note = arrivals[inbound[d].cause].note => c = d
=============================================================================
