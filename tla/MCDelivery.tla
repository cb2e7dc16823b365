----------------------------- MODULE MCDelivery -----------------------------
(***************************************************************************)
(* The webhook and the Telegram channel of one daemon, over the same       *)
(* streams and marks, and agents that call each other back.  A behaviour is*)
(* of one environment: "notes", where requests of the vault overlap and    *)
(* nobody listens; "streams", where messages come from anywhere and streams*)
(* come and break; "bots", where the Telegram channel has traffic and calls*)
(* of the API; "calm" and "boots", where it pushes nothing and the daemon  *)
(* restarts, with one update and two calls, or two and one; "agents", whose*)
(* chains reach the ceiling, and "deep", where they do not, the daemon     *)
(* restarts and the vault posts a note again.                              *)
(***************************************************************************)
EXTENDS Inbound, Channels, Delegation

VARIABLE env

Streams == INSTANCE Push WITH MaxFrames <- 2
Bots == INSTANCE Channels WITH MaxFrames <- 1, MaxRestarts <- 0
Deep == INSTANCE Delegation WITH MAX_DELEGATION_DEPTH <- 2, MaxRequests <- 1,
                             MaxOutages <- 1, MaxLost <- 1
Calm == INSTANCE Channels WITH MaxFrames <- 0, Updates <- 1
Boots == INSTANCE Channels WITH MaxFrames <- 0, MaxCalls <- 1

In(e) == env = e /\ UNCHANGED env

MCInit ==
  /\ PushInit /\ InboundInit /\ ChannelsInit /\ DelegationInit
  /\ env \in {"notes", "streams", "bots", "calm", "boots", "agents", "deep"}
  /\ open = IF env \in {"notes", "streams"} THEN {"v"} ELSE {}
  /\ backing \in [Channel -> {{}}]
  /\ env \in {"notes", "streams", "agents", "deep"} => file = {}

NotesNext == In("notes") /\ InboundNext /\ UNCHANGED <<channelsVars, delegationVars>>
StreamsNext == In("streams") /\ Streams!PushNext /\ UNCHANGED <<inboundVars, channelsVars, delegationVars, filterVars>>
BotsNext == In("bots") /\ Bots!ChannelsNext /\ UNCHANGED <<inboundVars, delegationVars, filterVars>>
CalmNext == In("calm") /\ Calm!ChannelsNext /\ UNCHANGED <<inboundVars, delegationVars, filterVars>>
BootsNext == In("boots") /\ Boots!ChannelsNext /\ UNCHANGED <<inboundVars, delegationVars, filterVars>>
AgentsNext == In("agents") /\ DelegationNext /\ UNCHANGED <<pushVars, inboundVars, channelsVars>>
DeepNext == In("deep") /\ Deep!DelegationNext /\ UNCHANGED <<pushVars, inboundVars, channelsVars>>

MCNext ==
  \/ NotesNext \/ StreamsNext \/ BotsNext \/ CalmNext \/ BootsNext
  \/ AgentsNext \/ DeepNext

MCSpec == MCInit /\ [][MCNext]_<<pushVars, filterVars, inboundVars, channelsVars, delegationVars, env>>

TwoListeners == [x \in {"b1", "b2", "s1"} |-> IF x = "b2" THEN "tg" ELSE "v"]
AllOnOne == [n \in 1 .. 3 |-> "v"]
Backings == {{}, {"live"}, {"attached", "live"}}
=============================================================================
