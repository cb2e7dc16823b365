------------------------------- MODULE Launch -------------------------------
(***************************************************************************)
(* What a turn gives to claude: ProgrammaticBackend.deliver until it starts*)
(* the process, with readThreadRoles before it (backends/programmatic.ts,  *)
(* transports/vault.ts, grants.ts, credentials.ts and spawn-agent.ts under *)
(* src/src).  Every read of a role note and every call of the hub is a step*)
(* beside the operator, who saves roles, approves and revokes.             *)
(*                                                                         *)
(* What a grant's material becomes is its slots: entries of the MCP        *)
(* configuration, variables of the environment, git remotes.  The order of *)
(* a collection of slots is that of insertion, as in the code's Map.       *)
(***************************************************************************)
EXTENDS Grants, Sequences, Functions

CONSTANTS
  Roles,          \* what the thread lists as its roles, in order
  serviceEnvVar,  \* the variable of a service's token
  KnownMcp,       \* the services with an MCP server
  Var,            \* names of variables
  DENYLISTED_ENV, \* never taken from a store or a grant; one is the auth
  PASSTHROUGH,    \* taken from the daemon's own environment
  AUTH,           \* CLAUDE_CODE_OAUTH_TOKEN
  Values,         \* what the operator may store: credentials and values
  Unset,
  Daemons,        \* what the daemon's own environment has
  Hubs,           \* what the hub may hold at the start
  Within,         \* per surface: those whose remote's path its own begins with
  BindsVault,     \* whether the spec has a vault of its own
  MaxLaunches

ASSUME LaunchAssumption ==
  /\ Roles \in Seq(Role) /\ Unset \notin Values
  /\ AUTH \in DENYLISTED_ENV /\ DENYLISTED_ENV \subseteq Var /\ PASSTHROUGH \subseteq Var
  /\ PASSTHROUGH \cap DENYLISTED_ENV = {}
  /\ \A c \in Conn : c.kind = "service" => serviceEnvVar[c.target] \in Var
  /\ Hubs \subseteq [Key -> [Conn -> Grant]]
  /\ BindsVault \in BOOLEAN /\ {MaxLaunches} \subseteq Nat

VARIABLES
  creds,  \* credentials.json: the claude token of the default and the channel
  store,  \* ... and the variables of the two
  launch,   \* the turn in its set-up
  launches, \* turns begun
  held,   \* what claude was started with, Unset before
  seen    \* ghosts: what was true during this turn

storeVars == <<creds, store>>
launchVars == <<grantVars, storeVars, launch, launches, held, seen>>

Layer == {"default", "channel"}
Slot(kind, name) == [kind |-> kind, name |-> name]
Empty == [slots |-> <<>>, remotes |-> <<>>]
Resting == [at |-> "idle", roles |-> <<>>, keys |-> <<>>, auth |-> Unset,
            env |-> [v \in Var |-> Unset], todo |-> {}, source |-> Empty, got |-> Empty]
Unseen == [live |-> {}, steady |-> {}, wore |-> {}, worn |-> {}, missed |-> {}]

LaunchInit ==
  /\ hub \in Hubs
  /\ roleNote \in [Role -> Contents]
  /\ hooks = {} /\ task = [t \in Task |-> Idle]
  /\ left = MaxChanges /\ launches = 0
  /\ \E x \in Values \cup {Unset} : creds = [default |-> x, channel |-> Unset]
  /\ store = [l \in Layer |-> [v \in Var |-> Unset]]
  /\ launch = Resting /\ held = Unset /\ seen = Unseen

-----------------------------------------------------------------------------
(* The stores.  Reading takes the channel's entry before the default; the  *)
(* store of variables refuses the denylisted ones.                         *)
resolveClaudeCredential == IF creds["channel"] # Unset THEN creds["channel"] ELSE creds["default"]
ChannelOverDefault(s) ==
  [v \in Var |-> IF v \in DENYLISTED_ENV THEN Unset
                 ELSE IF s["channel"][v] # Unset THEN s["channel"][v]
                 ELSE s["default"][v]]
resolveChannelEnv == ChannelOverDefault(store)

SetCredential(l, x) ==
  /\ x = Unset => l = "channel"
  /\ x # creds[l] /\ Change
  /\ creds' = [creds EXCEPT ![l] = x]
  /\ UNCHANGED store

SetVar(l, v, x) ==
  /\ v \notin DENYLISTED_ENV
  /\ x # store[l][v] /\ Change
  /\ store' = [store EXCEPT ![l][v] = x]
  /\ UNCHANGED creds

-----------------------------------------------------------------------------
(* resolveInjectedGrants: the slots of a material, and their collection.   *)
Slots(k, c) ==
  CASE c.kind = "vault" -> {Slot("mcp", <<"vault", c.target>>)}
    [] c.kind = "mcp" -> {Slot("mcp", <<"grant", k, c>>)}
    [] c.kind = "surface" -> {Slot("git", c.target)}
    [] c.kind = "service" ->
         (IF "env" \in c.inject THEN {Slot("env", serviceEnvVar[c.target])} ELSE {})
           \cup (IF "mcp" \in c.inject /\ c.target \in KnownMcp
                 THEN {Slot("mcp", <<"service", c.target>>)} ELSE {})

Over(f, g) == [x \in DOMAIN f \cup DOMAIN g |-> IF x \in DOMAIN f THEN f[x] ELSE g[x]]

\* Of one source's grants the first has an entry or a remote, the last a variable.
AddedSlots(f, X, tok) ==
  [x \in DOMAIN f \cup X |->
     IF x \in X /\ (x.kind = "env" \/ x \notin DOMAIN f) THEN tok ELSE f[x]]
Added(s, k, c) ==
  [slots |-> AddedSlots(s.slots, Slots(k, c), Token(k, c)),
   remotes |-> IF c.kind = "surface" /\ c.target \notin Range(s.remotes)
               THEN Append(s.remotes, c.target) ELSE s.remotes]

\* The remotes of a source, without those that are there already.
MergedRemotes(s, t) ==
  LET merged[i \in 0 .. Len(t)] ==
        IF i = 0 THEN s
        ELSE IF t[i] \in Range(merged[i - 1]) THEN merged[i - 1] ELSE Append(merged[i - 1], t[i])
  IN  merged[Len(t)]

\* resolveInjectedGrantsUnion: a later source takes what it should not.
LastSourceWins(s, t) ==
  [slots |-> Over(t.slots, s.slots),
   remotes |-> MergedRemotes(s.remotes, t.remotes)]

\* Of the sources' collections the first has a slot.
Union(s, t) ==
  [slots |-> Over(s.slots, t.slots),
   remotes |-> MergedRemotes(s.remotes, t.remotes)]

-----------------------------------------------------------------------------
(* The turn.  readThreadRoles: a note that is missing or not read is       *)
(* skipped, and only a role with wants becomes a source of grants, once,   *)
(* and not where it has the agent's own key (the union's seenKeys).        *)
SeenAtFirst == [live |-> LiveTokens, steady |-> LiveTokens,
           wore |-> {r \in Role : Wears(r)}, worn |-> {r \in Role : Wears(r)}, missed |-> {}]
Missed(x) == seen' = [seen EXCEPT !.missed = @ \cup {x}]
Unmoved == UNCHANGED <<hub, roleNote, hooks, task, storeVars, launches>>

BeginLaunch ==
  /\ launch.at = "idle" /\ launches < MaxLaunches /\ launches' = launches + 1
  /\ launch' = [Resting EXCEPT !.at = "roles", !.roles = Roles]
  /\ seen' = SeenAtFirst
  /\ UNCHANGED <<grantVars, storeVars, held>>

EveryNote(r) == roleNote[r].there
IsSource(r) == Wears(r)

ReadRole ==
  LET r == Head(launch.roles) IN
  /\ launch.at = "roles" /\ launch.roles # <<>>
  /\ launch' = [launch EXCEPT
       !.roles = Tail(@),
       !.keys = IF IsSource(r) /\ rolePathKey[r] \notin {Own} \cup Range(@) THEN Append(@, rolePathKey[r]) ELSE @]
  /\ UNCHANGED <<held, seen, left>> /\ Unmoved

RoleReadFails ==
  /\ launch.at = "roles" /\ launch.roles # <<>> /\ Change
  /\ launch' = [launch EXCEPT !.roles = Tail(@)]
  /\ Missed(<<"role", Head(launch.roles)>>)
  /\ UNCHANGED held /\ Unmoved

\* The read of the thread's note fails: no roles.
ThreadReadFails ==
  /\ launch.at = "roles" /\ launch.roles = Roles /\ launch.keys = <<>> /\ Roles # <<>> /\ Change
  /\ launch' = [launch EXCEPT !.roles = <<>>]
  /\ seen' = [seen EXCEPT !.missed = @ \cup {<<"role", r>> : r \in Range(Roles)}]
  /\ UNCHANGED held /\ Unmoved

\* deliver: no credential, no turn; nothing has been minted yet.
Resolve ==
  /\ launch.at = "roles" /\ launch.roles = <<>>
  /\ launch' = IF resolveClaudeCredential = Unset THEN Resting
             ELSE [launch EXCEPT
                     !.at = IF BindsVault THEN "mint" ELSE "sources",
                     !.auth = resolveClaudeCredential, !.env = resolveChannelEnv,
                     !.keys = <<Own>> \o @]
  /\ UNCHANGED <<held, seen, left>> /\ Unmoved

Mint ==
  /\ launch.at = "mint"
  /\ \/ launch' = [launch EXCEPT !.at = "sources"] /\ UNCHANGED left
     \/ launch' = Resting /\ Change
  /\ UNCHANGED <<held, seen>> /\ Unmoved

ListGrants ==
  /\ launch.at = "sources" /\ launch.keys # <<>>
  /\ launch' = [launch EXCEPT !.at = "material", !.source = Empty,
                          !.todo = {c \in Conn : Approved(Head(launch.keys), c)}]
  /\ UNCHANGED <<held, seen, left>> /\ Unmoved

ListFails ==
  /\ launch.at = "sources" /\ launch.keys # <<>> /\ Change
  /\ launch' = [launch EXCEPT !.keys = Tail(@)]
  /\ Missed(<<"key", Head(launch.keys)>>)
  /\ UNCHANGED held /\ Unmoved

\* The hub hands out nothing for a grant that is not approved any more.
GetMaterial ==
  LET k == Head(launch.keys) IN
  /\ launch.at = "material"
  /\ \E c \in launch.todo :
       /\ launch' = [launch EXCEPT !.todo = @ \ {c},
                               !.source = IF Approved(k, c) THEN Added(@, k, c) ELSE @]
  /\ UNCHANGED <<held, seen, left>> /\ Unmoved

MaterialFails ==
  /\ launch.at = "material" /\ Change
  /\ \E c \in launch.todo :
       launch' = [launch EXCEPT !.todo = @ \ {c}] /\ Missed(<<"grant", Head(launch.keys), c>>)
  /\ UNCHANGED held /\ Unmoved

NextSource ==
  /\ launch.at = "material" /\ launch.todo = {}
  /\ launch' = [launch EXCEPT !.at = "sources", !.keys = Tail(@), !.got = Union(@, launch.source),
                          !.source = Empty]
  /\ UNCHANGED <<held, seen, left>> /\ Unmoved

\* buildAgentChildEnv and mergeSandboxLaunchEnv: the operator's variables lie
\* over the grants', no source sets the denylisted ones, the daemon's own
\* structural variables win, and the credential is set last.
ChildEnv(auth, stored, slots, v) ==
  CASE v = AUTH -> auth
    [] v \in PASSTHROUGH -> Daemons
    [] v \in DENYLISTED_ENV \ {AUTH} -> Unset
    [] v \notin PASSTHROUGH \cup DENYLISTED_ENV ->
         IF stored[v] # Unset THEN stored[v]
         ELSE IF Slot("env", v) \in DOMAIN slots THEN slots[Slot("env", v)]
         ELSE Unset

\* claude is started, and started again by a retry, with what was collected.
Spawn ==
  /\ launch.at = "sources" /\ launch.keys = <<>>
  /\ launch' = [launch EXCEPT !.at = "running"]
  /\ held' = [slots |-> launch.got.slots, remotes |-> launch.got.remotes,
              env |-> [v \in Var |-> ChildEnv(launch.auth, launch.env, launch.got.slots, v)]]
  /\ UNCHANGED <<seen, left>> /\ Unmoved

Finish ==
  /\ launch.at = "running"
  /\ launch' = Resting /\ held' = Unset
  /\ UNCHANGED <<seen, left>> /\ Unmoved

LaunchStep ==
  \/ BeginLaunch \/ ReadRole \/ RoleReadFails \/ ThreadReadFails \/ Resolve \/ Mint
  \/ ListGrants \/ ListFails \/ GetMaterial \/ MaterialFails \/ NextSource \/ Spawn \/ Finish

\* What the operator and the webhook change is noted for the turn.
Around ==
  /\ GrantsNext
  /\ seen' = IF launch.at = "idle" THEN seen
             ELSE [seen EXCEPT !.live = @ \cup LiveTokens', !.steady = @ \cap LiveTokens',
                               !.wore = @ \cup {r \in Role : Wears(r)'},
                               !.worn = @ \cap {r \in Role : Wears(r)'}]
  /\ UNCHANGED <<storeVars, launch, launches, held>>

Configure ==
  /\ \/ \E l \in Layer, x \in Values \cup {Unset} : SetCredential(l, x)
     \/ \E l \in Layer, v \in Var, x \in Values \cup {Unset} : SetVar(l, v, x)
  /\ UNCHANGED <<hub, roleNote, hooks, task, launch, launches, held, seen>>

LaunchNext == LaunchStep \/ Around \/ Configure
LaunchSpec == LaunchInit /\ [][LaunchNext]_launchVars

-----------------------------------------------------------------------------
(* claude holds nothing it was not granted: whatever the roles, the hub and*)
(* the operator do meanwhile, each of its tokens was a live grant of the   *)
(* agent, or of a role that its thread lists and that asked for grants     *)
(* then, sits where that grant belongs, and none of them is its auth.      *)
NothingUngranted ==
  held # Unset =>
    /\ \A x \in DOMAIN held.slots :
         LET tok == held.slots[x] IN
         /\ tok \in seen.live /\ x \in Slots(tok.key, tok.conn)
         /\ tok.key = Own \/ \E r \in seen.wore \cap Range(Roles) : tok.key = rolePathKey[r]
    /\ held.env[AUTH] \in Values
    /\ \A v \in DENYLISTED_ENV \ {AUTH} : held.env[v] = Unset

\* The token that git is answered with for a surface: the first whose path
\* occurs in the one it asks for, if there are several.
Answer(s) ==
  LET fits == {i \in DOMAIN held.remotes : held.remotes[i] \in Within[s] \/ Len(held.remotes) = 1}
      first == CHOOSE i \in fits : \A j \in fits : i <= j
  IN  held.slots[Slot("git", held.remotes[first])]

Order == <<Own>> \o [i \in DOMAIN Roles |-> rolePathKey[Roles[i]]]
Before(k, l) ==
  k = l \/ \E i \in DOMAIN Order : Order[i] = k /\ \A j \in DOMAIN Order : Order[j] = l => i < j

Sources == {Own} \cup {rolePathKey[r] : r \in {r \in seen.worn \cap Range(Roles) : <<"role", r>> \notin seen.missed}}
Arrived(k, x) ==
  /\ x \in DOMAIN held.slots /\ Before(held.slots[x].key, k)
  /\ x.kind = "env" /\ x.name \notin PASSTHROUGH \cup DENYLISTED_ENV =>
       held.env[x.name] \in Values \cup {held.slots[x]}
  /\ x.kind = "git" /\ Within[x.name] \cap Range(held.remotes) = {x.name} =>
       Answer(x.name) = held.slots[x]

(* A grant that is approved throughout, of a source that is one throughout,*)
(* and whose calls succeed, arrives, unless an earlier source has its slot;*)
(* git gets a surface's own token, unless another granted remote's path    *)
(* occurs in its own.                                                      *)
GrantedArrives ==
  held # Unset =>
    \A tok \in seen.steady :
      (tok.key \in Sources /\ {<<"key", tok.key>>, <<"grant", tok.key, tok.conn>>} \cap seen.missed = {})
        => \A x \in Slots(tok.key, tok.conn) : Arrived(tok.key, x)

(* A save of a role, a failing call or a malformed edit takes no grant away:*)
(* an approved grant is revoked by the operator, or pruned because the role*)
(* does not want it, by a task that has read the role as it is or by one   *)
(* that a newer save has overtaken.  Keys of roles are distinct here.      *)
Unwanted(r, c) == roleNote[r].there /\ (roleNote[r].tagged => roleNote[r].sound) /\ c \notin roleWants(r)
Overtaken(r) == \E t \in Task : task[t].role = r /\ task[t].at = "register" /\ task[t].read # roleNote[r]
RoleGrantsStay ==
  [][\A r \in Role, c \in Conn :
       Approved(rolePathKey[r], c) /\ hub'[rolePathKey[r]][c].status = "none"
         => Unwanted(r, c) \/ Overtaken(r)]_launchVars

=============================================================================
