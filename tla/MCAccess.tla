------------------------------ MODULE MCAccess ------------------------------
(***************************************************************************)
(* What the operator meets: the PIN, the chat and the terminal.  A         *)
(* behaviour is of one environment: "clients", where any clients of the    *)
(* daemon overlap at the step-up routes; "page", where one page does one   *)
(* gated request at a time; "gate", where tokens and tickets open streams  *)
(* and terminals; "chat", the chat page with picks, sends and breaks at any*)
(* time; "calm", the same with an operator who waits; and "terminal", one  *)
(* terminal's relay.                                                       *)
(***************************************************************************)
EXTENDS Page, Chat, Terminal, Gate

VARIABLE env

Of(whom, verbs) == {[of |-> whom, verb |-> v] : v \in verbs}
HubTokens == {
  [sound |-> TRUE, iss |-> "hub", aud |-> "agent", scopes |-> Of("agent", {"read", "send", "admin"})],
  [sound |-> TRUE, iss |-> "other", aud |-> "channel", scopes |-> Of("channel", {"read"})],
  [sound |-> TRUE, iss |-> "hub", aud |-> "vault", scopes |-> Of("agent", {"read", "admin"})]}

Gated == INSTANCE Gate WITH
  Pin <- {"p"}, Call <- {"c1"}, STEP_UP_MAX_ATTEMPTS <- 1, MaxTime <- 3, MaxTokens <- 1

mcVars == <<stepUpVars, pageVars, chatVars, terminalVars, gateVars, env>>

KeyFrames == {[type |-> "resize", cols |-> 0, rows |-> 7], [type |-> "keys"]}

In(e) == env = e /\ UNCHANGED env

MCInit ==
  /\ env \in {"clients", "page", "gate", "chat", "calm", "terminal"}
  /\ StepUpInit /\ PageInit /\ ChatInit /\ TerminalInit /\ GateInit
  /\ env \notin {"clients", "page", "gate"} => pinHash = NoPin
  /\ env = "gate" => pinHash \in {NoPin, "p"}
  /\ exposeState = Unset
  /\ env \notin {"chat", "calm"} => selected = NoChannel

ClientsNext == In("clients") /\ StepUpNext /\ UNCHANGED <<pageVars, gateVars, chatVars, terminalVars>>
PageOnlyNext == In("page") /\ PageNext /\ Patient /\ now' <= 3 /\ UNCHANGED <<gateVars, chatVars, terminalVars>>
GateOnlyNext == In("gate") /\ Gated!GateNext /\ UNCHANGED <<pageVars, chatVars, terminalVars>>
ChatOnlyNext == In("chat") /\ ChatNext /\ notes' <= 1 /\ UNCHANGED <<stepUpVars, pageVars, gateVars, terminalVars>>
CalmNext == In("calm") /\ ChatNext /\ Waits /\ breaks' = 0 /\ UNCHANGED <<stepUpVars, pageVars, gateVars, terminalVars>>
TerminalOnlyNext == In("terminal") /\ TerminalNext /\ UNCHANGED <<stepUpVars, pageVars, gateVars, chatVars>>

MCNext == ClientsNext \/ PageOnlyNext \/ GateOnlyNext \/ ChatOnlyNext \/ CalmNext \/ TerminalOnlyNext
MCSpec == MCInit /\ [][MCNext]_mcVars

CalmPromptsServe == env = "page" => PromptsServe

\* The chat page shows what there is: its streams follow the selection, and as
\* long as the operator waits the transcript shows each note once.
ChatTrue == StreamsFollowSelection /\ (env = "calm" => TranscriptTrue)

=============================================================================
