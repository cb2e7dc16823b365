-------------------------------- MODULE Gate --------------------------------
(***************************************************************************)
(* What opens a stream or a terminal: the hub's tokens (hub-jwt.ts,        *)
(* requireScope of auth.ts), the tickets they are traded for (ui-ticket.ts)*)
(* and, for a terminal, the step-up token beside them.  A token is its     *)
(* claims; its signature, expiry and revocation are the library's.         *)
(*                                                                         *)
(* A token is validated in an await: between its arrival and what it opens *)
(* the clock goes on, the hub moves its origin, PINs are exchanged and the *)
(* daemon restarts.                                                        *)
(*                                                                         *)
(* PeekTicket is a faulty variant of the definition that follows it.       *)
(***************************************************************************)
EXTENDS StepUp

CONSTANTS
  HubToken,       \* tokens, as [sound, iss, aud, scopes]
  HubOrigin,      \* PARACHUTE_HUB_ORIGIN, or Unset
  HubOrigins,     \* the set in PARACHUTE_HUB_ORIGINS, empty when unset
  Exposed,        \* origins the hub may write to expose-state.json
  Loopback, Unset,
  TICKET_TTL_MS,
  MaxTickets, MaxVisits  \* bounds on tickets and on requests

ASSUME GateAssumption ==
  /\ \A t \in HubToken : t.sound \in BOOLEAN /\ t.scopes \subseteq [of : {"agent", "channel"}, verb : {"read", "send", "admin"}]
  /\ {TICKET_TTL_MS, MaxTickets, MaxVisits} \subseteq Nat

VARIABLES
  exposeState,  \* the public origin in expose-state.json, or Unset
  ticketStore,  \* the store: nonce -> [scopes, expiresAt]
  nonces,       \* drawn so far
  visit,        \* the request whose token is being validated, or NoVisit
  visits,       \* requests so far
  (* for the properties *)
  traded,       \* nonce -> the token it was traded for, when, in which life of the daemon
  earned,       \* step-up token -> when it was minted, in which life
  doors,        \* what was opened
  turned        \* tickets that were refused

gateVars == <<exposeState, ticketStore, nonces, visit, visits, traded, earned, doors, turned>>

NoVisit == [at |-> "none"]

GateInit ==
  /\ exposeState \in Exposed \cup {Unset}
  /\ ticketStore = <<>> /\ nonces = 0 /\ visit = NoVisit /\ visits = 0
  /\ traded = <<>> /\ earned = <<>> /\ doors = {} /\ turned = {}

-----------------------------------------------------------------------------
(* Validation.                                                              *)

\* The hub never writes a loopback origin that the daemon would heal to.
readExposeStateHubOrigin == IF exposeState = Loopback THEN Unset ELSE exposeState
getHubOrigin ==
  CASE HubOrigin # Unset -> HubOrigin
    [] HubOrigin = Unset /\ readExposeStateHubOrigin # Unset -> readExposeStateHubOrigin
    [] OTHER -> Loopback

\* The library: a sound token of an issuer in the set; the audience is ours.
ACCEPTED_AUDIENCES == {"agent", "channel"}
validateHubJwt(t) ==
  t.sound /\ t.iss \in HubOrigins \cup {getHubOrigin} /\ t.aud \in ACCEPTED_AUDIENCES

\* A scope, or its name from before the rename.
grantsScope(scopes, verb) ==
  [of |-> "agent", verb |-> verb] \in scopes \/ [of |-> "channel", verb |-> verb] \in scopes

-----------------------------------------------------------------------------
(* Tickets.                                                                 *)
pruneExpiredTickets == [n \in {k \in DOMAIN ticketStore : now < ticketStore[k].expiresAt} |-> ticketStore[n]]
mintTicket(scopes) ==
  ticketStore' = [n \in DOMAIN pruneExpiredTickets \cup {nonces + 1} |->
                IF n = nonces + 1 THEN [scopes |-> scopes, expiresAt |-> now + TICKET_TTL_MS]
                ELSE ticketStore[n]]

PeekTicket(n) == UNCHANGED ticketStore
\* consumeTicket: the nonce is gone, expired or not.
Consume(n) == ticketStore' = [k \in DOMAIN ticketStore \ {n} |-> ticketStore[k]]
Consumable(n) == n \in DOMAIN ticketStore /\ now < ticketStore[n].expiresAt

-----------------------------------------------------------------------------
(* Requests.                                                                *)

\* A request with a token: for a ticket the token is in the header, for a
\* terminal it may be in the address, with the step-up token.  One without is
\* turned away at once, and so is a terminal whose name is no slug.
Arrives(what, t, s) ==
  /\ visit = NoVisit /\ visits < MaxVisits /\ visits' = visits + 1
  /\ visit' = [at |-> "validating", for |-> what, token |-> t, stepUp |-> s]
  /\ UNCHANGED <<stepUpVars, exposeState, ticketStore, nonces, traded, earned, doors, turned>>

\* mintSseTicket: requireScope, and the token's own scopes go with the ticket.
Traded ==
  /\ visit.at = "validating" /\ visit.for = "ticket" /\ visit' = NoVisit
  /\ IF validateHubJwt(visit.token) /\ grantsScope(visit.token.scopes, "read")
     THEN /\ nonces < MaxTickets /\ nonces' = nonces + 1
          /\ mintTicket(visit.token.scopes)
          /\ traded' = Append(traded, [token |-> visit.token, at |-> now, life |-> stepUpRestarts,
                                       origin |-> getHubOrigin])
     ELSE UNCHANGED <<ticketStore, nonces, traded>>
  /\ UNCHANGED <<stepUpVars, exposeState, visits, earned, doors, turned>>

\* authorizeTerminalUpgrade: the scope, and then the PIN's token, which is
\* looked up when the other has been validated.
Upgraded ==
  LET s == visit.stepUp
      admitted == validateHubJwt(visit.token) /\ grantsScope(visit.token.scopes, "admin")
  IN
  /\ visit.at = "validating" /\ visit.for = "terminal" /\ visit' = NoVisit
  /\ IF admitted THEN lookUp(s) ELSE UNCHANGED tokens
  /\ doors' = IF admitted /\ requireStepUp(s) = "ok"
              THEN doors \cup {[what |-> "terminal", at |-> now, by |-> s, life |-> stepUpRestarts,
                                token |-> visit.token, origin |-> getHubOrigin]}
              ELSE doors
  /\ UNCHANGED <<now, pinHash, bucket, minted, call, stepUpRestarts, tries, promised,
                 exposeState, ticketStore, nonces, visits, traded, earned, turned>>

\* requireSseTicket, in one step: the ticket is consumed, whether or not it
\* opens the stream.
Opens(n) ==
  /\ visits < MaxVisits /\ visits' = visits + 1
  /\ n \in 1 .. nonces
  /\ Consume(n)
  /\ IF Consumable(n) /\ grantsScope(ticketStore[n].scopes, "read")
     THEN /\ doors' = doors \cup {[what |-> "stream", at |-> now, by |-> n, life |-> stepUpRestarts, nth |-> visits']}
          /\ UNCHANGED turned
     ELSE turned' = turned \cup {[by |-> n, at |-> now, life |-> stepUpRestarts]} /\ UNCHANGED doors
  /\ UNCHANGED <<stepUpVars, exposeState, nonces, visit, traded, earned>>

-----------------------------------------------------------------------------
(* Beside them.                                                             *)
Exposes(o) ==
  /\ exposeState' = o /\ exposeState # o
  /\ UNCHANGED <<stepUpVars, ticketStore, nonces, visit, visits, traded, earned, doors, turned>>

\* Tickets live in memory, and a request under way fails.
GateRestart ==
  /\ StepUpRestart
  /\ ticketStore' = <<>> /\ visit' = NoVisit
  /\ UNCHANGED <<exposeState, nonces, visits, traded, earned, doors, turned>>

\* The operator sets a PIN once, and exchanges it.
SecondFactor ==
  /\ \/ Tick
     \/ \E c \in Call :
          \/ /\ call[c].at = "idle"
             /\ \E p \in Pin : IF isStepUpConfigured THEN minted < MaxTokens /\ PostExchange(c, p)
                               ELSE PostPin(c, NoPin, p)
          \/ Verified(c) \/ setStepUpPin(c) \/ Read(c)
  /\ earned' = IF minted' = minted THEN earned
               ELSE Append(earned, [at |-> now, life |-> stepUpRestarts])
  /\ UNCHANGED <<exposeState, ticketStore, nonces, visit, visits, traded, doors, turned>>

GateNext ==
  \/ \E t \in HubToken :
       \/ Arrives("ticket", t, None)
       \/ \E s \in 0 .. minted : Arrives("terminal", t, s)
  \/ Traded \/ Upgraded
  \/ \E n \in 1 .. nonces : Opens(n)
  \/ \E o \in Exposed : Exposes(o)
  \/ GateRestart \/ SecondFactor

GateSpec == StepUpInit /\ GateInit /\ [][GateNext]_<<stepUpVars, gateVars>>

-----------------------------------------------------------------------------
(* Properties.                                                              *)

\* A token of the hub that the daemon believes in, for this daemon.
Ours(t, origin) == t.sound /\ t.iss \in HubOrigins \cup {origin} /\ t.aud # "vault"

\* A stream was opened by a ticket of its own, while the ticket was young and
\* with the reading right of the token it was traded for; and a ticket that is
\* used the first time while it is young opens its stream.
StreamsByTicket ==
  /\ \A d \in doors : d.what = "stream" =>
       /\ d.at < traded[d.by].at + TICKET_TTL_MS /\ d.life = traded[d.by].life
       /\ Ours(traded[d.by].token, traded[d.by].origin)
       /\ \E s \in traded[d.by].token.scopes : s.verb = "read"
       /\ \A e \in doors : e.what = "stream" /\ e.by = d.by => e = d
  /\ \A r \in turned :
       \/ r.at >= traded[r.by].at + TICKET_TTL_MS
       \/ r.life # traded[r.by].life
       \/ \E d \in doors : d.what = "stream" /\ d.by = r.by

\* A terminal was opened by the operator's token together with a token of the
\* step-up that was young when it was opened, in the same life of the daemon.
TerminalsByBoth ==
  \A d \in doors : d.what = "terminal" =>
    /\ Ours(d.token, d.origin) /\ \E s \in d.token.scopes : s.verb = "admin"
    /\ d.by \in DOMAIN earned
    /\ d.at < earned[d.by].at + STEP_UP_TOKEN_TTL_MS /\ d.life = earned[d.by].life

OpenedByRight == StreamsByTicket /\ TerminalsByBoth
=============================================================================
