------------------------------ MODULE Channels ------------------------------
(***************************************************************************)
(* The live channels of the daemon and the file they come from             *)
(* (addChannelLive, removeChannelLive and /api/channels in src/daemon.ts,  *)
(* src/registry.ts), with the transport that runs a loop of its own: the   *)
(* Telegram poller (src/transports/telegram.ts).                           *)
(*                                                                         *)
(* A poller confirms what it has by the offset of its next request, and    *)
(* keeps the offset in memory only.  Stopping it does not wait for it: it  *)
(* finishes the batch it holds beside the poller that replaces it.  A call *)
(* of the API awaits the stop of the old transport before it goes on, and  *)
(* another call may run in between.                                        *)
(*                                                                         *)
(* ConfirmedFirst and RemovesFileOnly are faulty variants of the           *)
(* definitions that follow them.                                           *)
(***************************************************************************)
EXTENDS Push

CONSTANTS
  Name,            \* the Telegram channels
  Call,            \* the API calls that may be open at a time
  Transports,       \* bound: transports ever made
  Updates,         \* bound: updates sent to a bot
  MaxCalls         \* bound: calls of the API

ASSUME ChannelsAssumption ==
  /\ Name \subseteq Channel
  /\ Transports \in Nat \ {0} /\ Updates \in Nat /\ MaxCalls \in Nat

VARIABLES
  file,            \* the names in channels.json
  live,            \* the transport of a live channel; 0: not live
  made,            \* the transports made so far
  poller,          \* the poll loop of each transport
  call,            \* the API calls in progress
  calls,           \* calls of the API so far
  sent,            \* the updates users sent to the channel's bot
  confirmed,       \* the updates Telegram has forgotten: 1 .. confirmed
  done,            \* the updates that were handled, with their poller, in order
  failed,          \* the updates whose handler threw
  booting,         \* the entries of the file that a boot has yet to start
  upset            \* history: since the boot, calls overlapped or a removal from
                   \* the file failed

channelsVars == <<file, live, made, poller, call, calls, sent, confirmed, done, failed,
                  booting, upset>>

Transport == 1 .. Transports
Update == 1 .. Updates

NoPoller == [pc |-> "none", on |-> FALSE, name |-> CHOOSE n \in Name : TRUE, offset |-> 0,
             batch |-> <<>>]
Poller == [pc : {"none", "ask", "wait", "handle", "busy", "sleep"}, on : BOOLEAN, name : Name,
           offset : 0 .. Updates + 1, batch : Seq(Update)]
NoCall == [pc |-> "idle"]

\* What starting a transport for n makes of the map and of the pollers.
Started(g, n) ==
  /\ made' = g
  /\ live' = [live EXCEPT ![n] = g]
  /\ poller' = [poller EXCEPT ![g] = [NoPoller EXCEPT !.pc = "ask", !.on = TRUE, !.name = n]]

ChannelsInit ==
  /\ file \in SUBSET Name
  /\ live = [n \in Name |-> 0]
  /\ made = 0
  /\ poller = [g \in Transport |-> NoPoller]
  /\ call = [a \in Call |-> NoCall]
  /\ calls = 0
  /\ sent = [n \in Name |-> 0]
  /\ confirmed = [n \in Name |-> 0]
  /\ done = [n \in Name |-> <<>>]
  /\ failed = [n \in Name |-> {}]
  /\ booting = file
  /\ upset = FALSE

-----------------------------------------------------------------------------
(* The poll loop of transport g                                            *)

\* The top of the loop: a stopped loop ends, a running one asks for what
\* follows its offset, and Telegram forgets what came before it.
Ask(g) ==
  LET p == poller[g] IN
  /\ p.pc = "ask"
  /\ IF p.on
     THEN /\ poller' = [poller EXCEPT ![g].pc = "wait"]
          /\ confirmed' = [confirmed EXCEPT ![p.name] = IF p.offset > @ + 1 THEN p.offset - 1 ELSE @]
     ELSE /\ poller' = [poller EXCEPT ![g] = NoPoller]
          /\ UNCHANGED confirmed
  /\ UNCHANGED <<file, live, made, call, calls, sent, done, failed, booting, upset>>
  /\ UNCHANGED pushVars

\* Telegram answers with the first k updates that follow the offset and that
\* it has not forgotten; none when the long poll times out.
Answered(g, k) ==
  LET p == poller[g]
      from == IF p.offset > confirmed[p.name] THEN p.offset ELSE confirmed[p.name] + 1 IN
  /\ p.pc = "wait"
  /\ k \in 0 .. sent[p.name] + 1 - from
  /\ poller' = [poller EXCEPT ![g].pc = "handle", ![g].batch = [i \in 1 .. k |-> from + i - 1]]
  /\ UNCHANGED <<file, live, made, call, calls, sent, confirmed, done, failed, booting, upset>>
  /\ UNCHANGED pushVars

\* The request fails: the loop waits five seconds and asks again.
PollFails(g) ==
  /\ poller[g].pc = "wait"
  /\ poller' = [poller EXCEPT ![g].pc = "sleep"]
  /\ UNCHANGED <<file, live, made, call, calls, sent, confirmed, done, failed, booting, upset>>
  /\ UNCHANGED pushVars

Slept(g) ==
  /\ poller[g].pc = "sleep"
  /\ poller' = [poller EXCEPT ![g].pc = "ask"]
  /\ UNCHANGED <<file, live, made, call, calls, sent, confirmed, done, failed, booting, upset>>
  /\ UNCHANGED pushVars

\* The faulty variant: the whole batch is confirmed before it is handled.
ConfirmedFirst(p) ==
  IF p.batch = <<>> THEN [p EXCEPT !.pc = "ask"]
  ELSE [p EXCEPT !.pc = "busy", !.offset = p.batch[Len(p.batch)] + 1]

\* The next update of the batch moves the offset before it is handled.
Took(p) ==
  IF p.batch = <<>> THEN [p EXCEPT !.pc = "ask"]
  ELSE [p EXCEPT !.pc = "busy", !.offset = Head(p.batch) + 1]

TakeUpdate(g) ==
  /\ poller[g].pc = "handle"
  /\ poller' = [poller EXCEPT ![g] = Took(@)]
  /\ UNCHANGED <<file, live, made, call, calls, sent, confirmed, done, failed, booting, upset>>
  /\ UNCHANGED pushVars

\* A message is pushed, a yes or no to a permission becomes a verdict, and
\* one that is not allowed or says nothing is dropped.
MessageHandled(n, u) == PushMessage(n, u) \/ PushVerdict(n) \/ UNCHANGED pushVars

\* A pressed button becomes a verdict, unless it is not allowed or not ours.
CallbackHandled(n) == PushVerdict(n) \/ UNCHANGED pushVars

Handled(g) ==
  LET p == poller[g]
      u == Head(p.batch) IN
  /\ p.pc = "busy"
  /\ done' = [done EXCEPT ![p.name] = Append(@, [by |-> g, update |-> u])]
  /\ poller' = [poller EXCEPT ![g].pc = "handle", ![g].batch = Tail(@)]
  /\ MessageHandled(p.name, u) \/ CallbackHandled(p.name)
  /\ UNCHANGED <<file, live, made, call, calls, sent, confirmed, failed, booting, upset>>

\* A handler throws: the rest of the batch is dropped, to be asked for again.
HandlerThrows(g) ==
  LET p == poller[g] IN
  /\ p.pc = "busy"
  /\ failed' = [failed EXCEPT ![p.name] = @ \cup {Head(p.batch)}]
  /\ poller' = [poller EXCEPT ![g].pc = "sleep", ![g].batch = <<>>]
  /\ UNCHANGED <<file, live, made, call, calls, sent, confirmed, done, booting, upset>>
  /\ UNCHANGED pushVars

\* Someone writes to the bot.
UserSends(n) ==
  /\ sent[n] < Updates
  /\ sent' = [sent EXCEPT ![n] = @ + 1]
  /\ UNCHANGED <<file, live, made, poller, call, calls, confirmed, done, failed, booting, upset>>
  /\ UNCHANGED pushVars

-----------------------------------------------------------------------------
(* The configuration API                                                   *)

Begins(a) ==
  /\ call[a] = NoCall
  /\ calls < MaxCalls
  /\ booting = {}
  /\ calls' = calls + 1

\* A call begins while another one waits for a transport to stop.
Overlapping == \E b \in Call : call[b] # NoCall

\* stop() of a Telegram transport: the loop sees it at its next turn.
Stopped(n) == [poller EXCEPT ![live[n]].on = FALSE]

\* The file with an entry for n, which replaces one of that name.
FileWith(n) == file \cup {n}

\* POST: the entry is persisted first; a channel of that name is stopped, and
\* without one the new transport starts at once.
PostChannel(a, n) ==
  /\ Begins(a)
  /\ file' = FileWith(n)
  /\ IF live[n] # 0
     THEN /\ poller' = Stopped(n)
          /\ call' = [call EXCEPT ![a] = [pc |-> "adding", name |-> n]]
          /\ UNCHANGED <<live, made>>
     ELSE /\ made < Transports
          /\ Started(made + 1, n)
          /\ UNCHANGED call
  /\ upset' = (upset \/ Overlapping)
  /\ UNCHANGED <<sent, confirmed, done, failed, booting>>
  /\ UNCHANGED pushVars

\* The old transport has stopped: whatever is in the map is replaced.
Replace(a) ==
  /\ call[a].pc = "adding"
  /\ made < Transports
  /\ Started(made + 1, call[a].name)
  /\ call' = [call EXCEPT ![a] = NoCall]
  /\ UNCHANGED <<file, calls, sent, confirmed, done, failed, booting, upset>>
  /\ UNCHANGED pushVars

\* Writing the file fails: POST answers 500 and nothing happened.
PostFails(a) ==
  /\ Begins(a)
  /\ UNCHANGED <<file, live, made, poller, call, sent, confirmed, done, failed, booting, upset>>
  /\ UNCHANGED pushVars

\* The file without n, or the file as it was when the write fails.
FileWithout(n) == {file \ {n}, file}

\* DELETE: a live channel is stopped first; one that is not is only removed
\* from the file.
DeleteChannel(a, n) ==
  /\ Begins(a)
  /\ IF live[n] # 0
     THEN /\ poller' = Stopped(n)
          /\ call' = [call EXCEPT ![a] = [pc |-> "removing", name |-> n]]
          /\ upset' = (upset \/ Overlapping)
          /\ UNCHANGED file
     ELSE /\ file' \in FileWithout(n)
          /\ upset' = (upset \/ Overlapping \/ n \in file')
          /\ UNCHANGED <<poller, call>>
  /\ UNCHANGED <<live, made, sent, confirmed, done, failed, booting>>
  /\ UNCHANGED pushVars

\* The faulty variant: the map keeps the stopped channel.
RemovesFileOnly(n) == live

Unlisted(n) == [live EXCEPT ![n] = 0]

Drop(a) ==
  /\ call[a].pc = "removing"
  /\ live' = Unlisted(call[a].name)
  /\ file' \in FileWithout(call[a].name)
  /\ upset' = (upset \/ call[a].name \in file')
  /\ call' = [call EXCEPT ![a] = NoCall]
  /\ UNCHANGED <<made, poller, calls, sent, confirmed, done, failed, booting>>
  /\ UNCHANGED pushVars

\* The daemon boots: every entry of the file becomes a live channel before
\* any request is answered.
Boot(n) ==
  /\ n \in booting
  /\ made < Transports
  /\ Started(made + 1, n)
  /\ booting' = booting \ {n}
  /\ UNCHANGED <<file, call, calls, sent, confirmed, done, failed, upset>>
  /\ UNCHANGED pushVars

ChannelsRestart ==
  /\ PushRestart(boot)
  /\ live' = [n \in Name |-> 0]
  /\ poller' = [g \in Transport |-> NoPoller]
  /\ call' = [a \in Call |-> NoCall]
  /\ booting' = file
  /\ upset' = FALSE
  /\ UNCHANGED <<file, made, calls, sent, confirmed, done, failed>>

ChannelsNext ==
  \/ \E g \in Transport :
       \/ Ask(g) \/ PollFails(g) \/ Slept(g) \/ TakeUpdate(g) \/ Handled(g) \/ HandlerThrows(g)
       \/ \E k \in 0 .. Updates : Answered(g, k)
  \/ \E n \in Name : UserSends(n) \/ Boot(n)
  \/ \E a \in Call :
       \/ Replace(a) \/ PostFails(a) \/ Drop(a)
       \/ \E n \in Name : PostChannel(a, n) \/ DeleteChannel(a, n)
  \/ ChannelsRestart

ChannelsSpec == PushInit /\ ChannelsInit /\ [][ChannelsNext]_<<pushVars, channelsVars>>

-----------------------------------------------------------------------------
(* Properties                                                              *)

\* What Telegram has forgotten (telegram.ts:258) was handled or failed by
\* itself: neither a failing neighbour, a restart in the middle of a batch nor
\* a replaced poller skips an update.
NothingSkipped ==
  \A n \in Name : \A u \in 1 .. confirmed[n] :
    u \in failed[n] \/ \E i \in DOMAIN done[n] : done[n][i].update = u

\* One poller handles no update twice and in order: what is handled twice is
\* handled by two transports.
RisingPerPoller ==
  \A n \in Name : \A i, j \in DOMAIN done[n] :
    i < j /\ done[n][i].by = done[n][j].by => done[n][i].update < done[n][j].update

TelegramHandlesAll == NothingSkipped /\ RisingPerPoller

\* Once the boot is over and no call is in progress, the live channels are those
\* of the file (daemon.ts:1881, 1916) and the poll loops that go on are theirs,
\* none is left behind: as long as, since that boot, no call began while another
\* was in progress and every removal from the file was written.
ConfigurationAgrees ==
  ~upset /\ booting = {} /\ call = [a \in Call |-> NoCall] =>
    /\ file = {n \in Name : live[n] # 0}
    /\ \A g \in Transport : poller[g].on <=> \E n \in Name : live[n] = g
=============================================================================
